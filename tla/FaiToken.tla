------------------------------ MODULE FaiToken ------------------------------
(***************************************************************************)
(* The Fast Access Interface: FAITOK (src/src/cmd.c, cmd_faitok();         *)
(* src/src/util.c, savefai()) issues a token and a key, and a connection   *)
(* that begins with FAI://token (src/src/tfproto.c, chkfaitok(),           *)
(* mainloop_fai(), renewfaikey()) is encrypted with that key and is given  *)
(* the key of the next one.  The token's file is the only state that       *)
(* outlives a session; it is rewritten in place, without a lock.  The      *)
(* client uses one connection at a time, but a session it lost may still   *)
(* be running when it connects again.                                      *)
(***************************************************************************)
EXTENDS Naturals, FiniteSets

CONSTANTS
    Sessions,    \* the server's processes
    NoProc,      \* no process
    NoFile,      \* what a file that does not exist holds
    Tokens,      \* the uuids that can be issued
    NoToken,     \* no token
    Args,        \* the minutes a client may ask for
    FAITOK_MQ,   \* the most minutes a token is valid
    MaxTime,     \* the clock stops there
    MaxKey       \* keys that can be generated

ASSUME FaiAssumption ==
    /\ FAITOK_MQ \in Nat \ {0} /\ MaxTime \in Nat /\ MaxKey \in Nat
    /\ Args \subseteq Nat
    /\ NoProc \notin Sessions /\ NoToken \notin Tokens
    /\ NoFile \notin [exp : Nat, key : Nat]

VARIABLES
    now,     \* time(0), in minutes
    file,    \* the file of each token; Empty between fopen("w") and fclose()
    keys,    \* the number of keys generated so far
    issued,  \* when each token was issued, and when it expires
    hurt,    \* the tokens whose renewal was cut short
    h,       \* what each session is at
    cl       \* the client: its session, its token, the key it keeps for the
             \* next connection and the key it uses on this one

vars == <<now, file, keys, issued, hurt, h, cl>>

Empty == [exp |-> 0, key |-> 0]

(* A session: its place, its token and the token's time, the key of its    *)
(* cipher, and the key it is about to hand out.                            *)
Places == {"idle", "issue", "issuing", "issued", "check", "denied", "renew",
           "renewing", "renewed", "in"}
Gone == [pc |-> "idle", tok |-> NoToken, exp |-> 0, key |-> 0, new |-> 0]

Init ==
    /\ now = 0
    /\ file = [t \in Tokens |-> NoFile]
    /\ keys = 0
    /\ issued = [t \in Tokens |-> [at |-> 0, exp |-> 0]]
    /\ hurt = {}
    /\ h = [s \in Sessions |-> Gone]
    /\ cl = [at |-> NoProc, tok |-> NoToken, key |-> 0, use |-> 0]

-----------------------------------------------------------------------------
Tick ==
    /\ now < MaxTime
    /\ now' = now + 1
    /\ UNCHANGED <<file, keys, issued, h, cl, hurt>>

(* Out of range, the quanta becomes the maximum.                           *)
Expiry(arg) == now + IF arg > FAITOK_MQ \/ arg = 0 THEN FAITOK_MQ ELSE arg

(* The client connects as usual and sends FAITOK, for want of a token or   *)
(* of one that works; the session has made the uuid and the key.  A uuid   *)
(* is issued once.                                                         *)
FaiTok(s, t, arg) ==
    /\ cl.at = NoProc /\ cl.key = 0
    /\ h[s].pc = "idle"
    /\ issued[t].exp = 0
    /\ keys < MaxKey
    /\ keys' = keys + 1
    /\ h' = [h EXCEPT ![s] = [Gone EXCEPT !.pc = "issue", !.tok = t,
                              !.exp = Expiry(arg), !.new = keys + 1]]
    /\ issued' = [issued EXCEPT ![t] = [at |-> now, exp |-> Expiry(arg)]]
    /\ cl' = [cl EXCEPT !.at = s, !.use = 0]
    /\ UNCHANGED <<now, file, hurt>>

(* savefai(): fopen("w+"), then what fclose() writes.                      *)
SaveOpen(s) ==
    /\ h[s].pc = "issue"
    /\ file' = [file EXCEPT ![h[s].tok] = Empty]
    /\ h' = [h EXCEPT ![s].pc = "issuing"]
    /\ UNCHANGED <<now, issued, keys, cl, hurt>>

SaveClose(s) ==
    /\ h[s].pc = "issuing"
    /\ file' = [file EXCEPT ![h[s].tok] = [exp |-> h[s].exp,
                                           key |-> h[s].new]]
    /\ h' = [h EXCEPT ![s].pc = "issued"]
    /\ UNCHANGED <<now, issued, keys, cl, hurt>>

(* The reply of FAITOK; the client keeps the token and the key, and the    *)
(* session goes on as any other.                                           *)
SaveReply(s) ==
    /\ h[s].pc = "issued"
    /\ h' = [h EXCEPT ![s].pc = "in"]
    /\ cl' = IF cl.at = s
             THEN [cl EXCEPT !.tok = h[s].tok, !.key = h[s].new] ELSE cl
    /\ UNCHANGED <<now, issued, file, keys, hurt>>

-----------------------------------------------------------------------------
(* The client connects with its token.                                     *)
Connect(s) ==
    /\ cl.at = NoProc /\ cl.key # 0
    /\ h[s].pc = "idle"
    /\ h' = [h EXCEPT ![s] = [Gone EXCEPT !.pc = "check", !.tok = cl.tok]]
    /\ cl' = [cl EXCEPT !.at = s, !.use = cl.key]
    /\ UNCHANGED <<now, issued, file, keys, hurt>>

(* Mutant of ChkFaiTok: the time of the token is not looked at.            *)
BugChkFaiTok(s) ==
    /\ h[s].pc = "check"
    /\ LET f == file[h[s].tok]
       IN  IF f \in {NoFile, Empty}
           THEN h' = [h EXCEPT ![s].pc = "denied"]
           ELSE h' = [h EXCEPT ![s].pc = "renew", ![s].exp = f.exp,
                                ![s].key = f.key]
    /\ UNCHANGED <<now, issued, file, keys, cl, hurt>>

(* chkfaitok(): no file, an empty one and an expired one deny; the expired *)
(* one is removed.  Else mainloop_fai() answers OK and the session's       *)
(* cipher has the key of the file.                                         *)
ChkFaiTok(s) ==
    /\ h[s].pc = "check"
    /\ LET f == file[h[s].tok]
       IN  \/ /\ f \in {NoFile, Empty}
              /\ h' = [h EXCEPT ![s].pc = "denied"]
              /\ UNCHANGED file
           \/ /\ f \notin {NoFile, Empty} /\ now >= f.exp
              /\ h' = [h EXCEPT ![s].pc = "denied"]
              /\ file' = [file EXCEPT ![h[s].tok] = NoFile]
           \/ /\ f \notin {NoFile, Empty} /\ now < f.exp
              /\ h' = [h EXCEPT ![s].pc = "renew", ![s].exp = f.exp,
                                ![s].key = f.key]
              /\ UNCHANGED file
    /\ UNCHANGED <<now, issued, keys, cl, hurt>>

(* EPROTO_FAITOKEXPIRED: the session ends, the client forgets the token.   *)
Denied(s) ==
    /\ h[s].pc = "denied"
    /\ h' = [h EXCEPT ![s] = Gone]
    /\ cl' = IF cl.at = s
             THEN [at |-> NoProc, tok |-> NoToken, key |-> 0, use |-> 0]
             ELSE cl
    /\ UNCHANGED <<now, issued, file, keys, hurt>>

(* renewfaikey(): fopen("w"), the next key, fclose(), and the key is sent. *)
RenewOpen(s) ==
    /\ h[s].pc = "renew"
    /\ file' = [file EXCEPT ![h[s].tok] = Empty]
    /\ h' = [h EXCEPT ![s].pc = "renewing"]
    /\ UNCHANGED <<now, issued, keys, cl, hurt>>

(* Mutant of RenewClose: the new key is not written.                       *)
BugRenewClose(s) ==
    /\ h[s].pc = "renewing" /\ keys < MaxKey
    /\ keys' = keys + 1
    /\ h' = [h EXCEPT ![s].pc = "renewed", ![s].new = keys + 1]
    /\ UNCHANGED <<now, file, issued, cl, hurt>>

RenewClose(s) ==
    /\ h[s].pc = "renewing" /\ keys < MaxKey
    /\ keys' = keys + 1
    /\ file' = [file EXCEPT ![h[s].tok] = [exp |-> h[s].exp,
                                           key |-> keys + 1]]
    /\ h' = [h EXCEPT ![s].pc = "renewed", ![s].new = keys + 1]
    /\ UNCHANGED <<now, issued, cl, hurt>>

(* Mutant of RenewSend: the client keeps its old key.                      *)
BugRenewSend(s) ==
    /\ h[s].pc = "renewed"
    /\ h' = [h EXCEPT ![s].pc = "in"]
    /\ UNCHANGED <<now, issued, file, keys, cl, hurt>>

RenewSend(s) ==
    /\ h[s].pc = "renewed"
    /\ h' = [h EXCEPT ![s].pc = "in"]
    /\ cl' = IF cl.at = s THEN [cl EXCEPT !.key = h[s].new] ELSE cl
    /\ UNCHANGED <<now, issued, file, keys, hurt>>

(* The client ends the session, or the session finds the client gone.      *)
Quit(s) ==
    /\ h[s].pc = "in"
    /\ h' = [h EXCEPT ![s] = Gone]
    /\ cl' = IF cl.at = s THEN [cl EXCEPT !.at = NoProc, !.use = 0] ELSE cl
    /\ UNCHANGED <<now, issued, file, keys, hurt>>

-----------------------------------------------------------------------------
(* The token's renewal is cut short: the session may have changed the file *)
(* and the client will not have the new key.                               *)
Cut(s, places) ==
    hurt' = IF h[s].pc \in places THEN hurt \cup {h[s].tok} ELSE hurt

(* The connection is lost; the session does not know until it next reads.  *)
Drop ==
    /\ cl.at # NoProc
    /\ Cut(cl.at, {"check", "renew", "renewing", "renewed"})
    /\ cl' = [cl EXCEPT !.at = NoProc, !.use = 0]
    /\ UNCHANGED <<now, issued, file, keys, h>>

(* The process ends, from outside or because a call of renewfaikey()       *)
(* fails: without a new key fclose() leaves the file empty.                *)
Kill(s) ==
    /\ h[s].pc # "idle"
    /\ Cut(s, {"renewing", "renewed"})
    /\ h' = [h EXCEPT ![s] = Gone]
    /\ cl' = IF cl.at = s THEN [cl EXCEPT !.at = NoProc, !.use = 0] ELSE cl
    /\ UNCHANGED <<now, issued, file, keys>>

Step(s) ==
    \/ SaveOpen(s) \/ SaveClose(s) \/ SaveReply(s) \/ ChkFaiTok(s)
    \/ Denied(s) \/ RenewOpen(s) \/ RenewClose(s) \/ RenewSend(s) \/ Quit(s)

Next ==
    \/ Tick \/ Drop
    \/ \E s \in Sessions :
          \/ Step(s) \/ Kill(s) \/ Connect(s)
          \/ \E t \in Tokens, arg \in Args : FaiTok(s, t, arg)

Spec == Init /\ [][Next]_vars

-----------------------------------------------------------------------------
(* A token opens a session only before it expires, and no later than       *)
(* FAITOK_MQ minutes after FAITOK, whatever was asked for, however often   *)
(* and by however many sessions it was renewed, and whichever died then.   *)
EntryInTime ==
    [][\A s \in Sessions : h[s].pc = "check" /\ h'[s].pc = "renew" =>
         LET i == issued[h[s].tok]
         IN  now < i.exp /\ now < i.at + FAITOK_MQ]_vars

(* A client that was answered OK and its session encrypt with the same     *)
(* key, unless the client lost a connection before it had the key that     *)
(* renewfaikey() made, or that session died after it opened the file.      *)
KeyAgreed ==
    \A s \in Sessions :
        /\ cl.at = s /\ h[s].tok \notin hurt
        /\ h[s].pc \in {"renew", "renewing", "renewed", "in"}
        /\ h[s].key # 0
        => h[s].key = cl.use

(* chkfaitok() denies a token only when it has expired, with the same      *)
(* exception: neither a second session of the token nor one that dies      *)
(* elsewhere makes it useless.                                             *)
DeniedIsExpired ==
    \A s \in Sessions :
        h[s].pc = "denied" /\ h[s].tok \notin hurt =>
            now >= issued[h[s].tok].exp
=============================================================================
