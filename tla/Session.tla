------------------------------ MODULE Session -------------------------------
(***************************************************************************)
(* One session process from the first message to its end: the handshake    *)
(* (src/src/tfproto.c, mainloop(), mainloop_fai()), the gates a client     *)
(* must pass before the commands are open to it (src/src/cmd.c,            *)
(* cmd_parse()), the user and the directory the session ends up with, and  *)
(* the end of the session when the client is gone.                         *)
(***************************************************************************)
EXTENDS Naturals, Sequences, Functions

CONSTANTS
    Users,       \* accounts of the system
    Root,        \* the account of the daemon
    NoUser,      \* no default user is configured
    Names,       \* names of directories
    MaxDepth,    \* no directory deeper than this is asked for
    Faults       \* whether calls of the operating system may fail

ASSUME SessionAssumption ==
    /\ Root \notin Users /\ NoUser \notin Users
    /\ MaxDepth \in Nat
    /\ Faults \in BOOLEAN

(* The gates, in the order in which cmd_parse() looks at them.             *)
Order == [LOGIN |-> 1, INJAIL |-> 2, LOCKSYS |-> 3, FLYCONTEXT |-> 4]
Gates == DOMAIN Order
Cmds == Gates \cup {"END", "KEEPALIVE", "PROCKEY", "FILE"}

VARIABLES
    phase,    \* where mainloop() is: "version", "key", "hash", "loop", "ended"
    peer,     \* the client is "there", has "closed" or is "silent" for good
    keep,     \* TCP keepalive is on
    defusr,   \* the configured default user
    conf,     \* the gates that were closed when the loop was entered
    closed,   \* the gates that are closed
    passed,   \* the gates the client passed, in order
    uid, gid, \* the user and the group of the process
    dbdir,    \* the directory of the session, from the root of the data
    last      \* the last message: what it was, and what was answered

vars == <<phase, peer, keep, defusr, conf, closed, passed, uid, gid, dbdir,
          last>>

Init ==
    /\ phase = "version" /\ peer = "there" /\ keep = TRUE
    /\ defusr \in Users \cup {NoUser}
    /\ conf \in {{"LOGIN"} \cup g : g \in SUBSET (Gates \ {"LOGIN"})}
    /\ closed = conf
    /\ passed = <<>>
    /\ uid = Root /\ gid = Root
    /\ dbdir = <<>>
    /\ last = [what |-> "none", told |-> "none"]

-----------------------------------------------------------------------------
Told(w, t) == last' = [what |-> w, told |-> t]

(* setgid() and setuid() to the user: only the daemon's user may do both,  *)
(* and each can fail.  ok says whether both went well.                     *)
Become(u, ok) ==
    /\ uid = Root
    /\ \/ ok /\ gid' = u /\ uid' = u
       \/ Faults /\ ~ok /\ UNCHANGED <<uid, gid>>
       \/ Faults /\ ~ok /\ gid' = u /\ UNCHANGED uid

(* The loop is entered, as the default user if that can be done; else the  *)
(* gate of LOGIN stays closed.                                             *)
Enter ==
    /\ phase' = "loop"
    /\ \/ /\ defusr # NoUser
          /\ Become(defusr, TRUE)
          /\ closed' = closed \ {"LOGIN"} /\ conf' = conf \ {"LOGIN"}
       \/ /\ defusr # NoUser
          /\ Become(defusr, FALSE)
          /\ UNCHANGED <<closed, conf>>
       \/ /\ defusr = NoUser
          /\ UNCHANGED <<uid, gid, closed, conf>>

Hang(w, t) ==
    /\ Told(w, t)
    /\ phase' = "ended"
    /\ UNCHANGED <<uid, gid, closed, conf>>

(* chkproto(): the version, or FAI://token.  A token that is good lets the *)
(* client in at once, unless its key cannot be used or renewed.            *)
Version(w) ==
    /\ phase = "version" /\ peer = "there"
    /\ \/ w = "version" /\ Told(w, "ok") /\ phase' = "key"
                        /\ UNCHANGED <<uid, gid, closed, conf>>
       \/ w = "token" /\ Told(w, "ok") /\ Enter
       \/ w = "token" /\ Faults /\ Hang(w, "faikey")
       \/ w \in {"badtoken", "badversion"} /\ Hang(w, "faiexpired")
    /\ UNCHANGED <<peer, keep, defusr, passed, dbdir>>

(* getkey(), derankey() and dup_crypt(); then chkhash().                   *)
Key(good) ==
    /\ phase = "key" /\ peer = "there"
    /\ IF good THEN /\ Told("key", "ok") /\ phase' = "hash"
                    /\ UNCHANGED <<uid, gid, closed, conf>>
       ELSE Hang("key", "badkey")
    /\ UNCHANGED <<peer, keep, defusr, passed, dbdir>>

Hash(good) ==
    /\ phase = "hash" /\ peer = "there"
    /\ IF good THEN Told("hash", "ok") /\ Enter ELSE Hang("hash", "badhash")
    /\ UNCHANGED <<peer, keep, defusr, passed, dbdir>>

-----------------------------------------------------------------------------
(* Mutant of Pending: LOCKSYS is looked at before INJAIL.                  *)
BugPending ==
    LET Rank == [Order EXCEPT !.INJAIL = 3, !.LOCKSYS = 2]
    IN  IF closed = {} THEN "none"
        ELSE CHOOSE g \in closed : \A k \in closed : Rank[g] <= Rank[k]

(* cmd_parse(): the first gate that is closed decides.  The commands that  *)
(* are refused by a gate, and those that are not, LOCKSYS being known to   *)
(* its gate only.                                                          *)
Pending ==
    IF closed = {} THEN "none"
    ELSE CHOOSE g \in closed : \A k \in closed : Order[g] <= Order[k]

Served(c) ==
    \/ c = "END"
    \/ c = Pending
    \/ Pending = "LOGIN" /\ c \in {"KEEPALIVE", "PROCKEY"}
    \/ Pending = "none"

InLoop == phase = "loop" /\ peer = "there"

Refuse(c) ==
    /\ InLoop /\ ~Served(c)
    /\ Told(c, Pending)
    /\ UNCHANGED <<phase, peer, keep, defusr, conf, closed, passed, uid, gid,
                   dbdir>>

(* Any command after the gates, and PROCKEY.                               *)
Command(c) ==
    /\ InLoop /\ Served(c)
    /\ c \in {"FILE", "PROCKEY"}
    /\ Told(c, "ok")
    /\ UNCHANGED <<phase, peer, keep, defusr, conf, closed, passed, uid, gid,
                   dbdir>>

(* A gate's command that fails, or that finds its gate open.  LOCKSYS is   *)
(* an unknown command once its gate is open.                               *)
GateFails(c) ==
    /\ InLoop /\ Served(c)
    /\ c \in {"INJAIL", "LOCKSYS", "FLYCONTEXT"}
    /\ Told(c, IF c = "LOCKSYS" /\ c \notin closed THEN "unknown" ELSE "fail")
    /\ UNCHANGED <<phase, peer, keep, defusr, conf, closed, passed, uid, gid,
                   dbdir>>

Open(g) ==
    /\ closed' = closed \ {g}
    /\ passed' = IF g \in closed THEN Append(passed, g) ELSE passed
    /\ Told(g, "ok")

(* Mutant of Login: the results of setgid() and setuid() are ignored.      *)
BugLogin(u, good) ==
    /\ InLoop /\ Served("LOGIN")
    /\ \/ /\ "LOGIN" \in closed /\ good
          /\ \E ok \in BOOLEAN : Become(u, ok)
          /\ Open("LOGIN")
       \/ /\ "LOGIN" \notin closed \/ ~good
          /\ UNCHANGED <<uid, gid, closed, passed>>
          /\ Told("LOGIN", "fail")
    /\ UNCHANGED <<phase, peer, keep, defusr, conf, dbdir>>

(* cmd_login(): the password may be wrong, the account unknown, and the    *)
(* change of user may fail.                                                *)
Login(u, good) ==
    /\ InLoop /\ Served("LOGIN")
    /\ \/ "LOGIN" \in closed /\ good /\ Become(u, TRUE) /\ Open("LOGIN")
       \/ /\ "LOGIN" \in closed /\ good /\ Become(u, FALSE)
          /\ UNCHANGED <<closed, passed>>
          /\ Told("LOGIN", "fail")
       \/ /\ "LOGIN" \notin closed \/ ~good
          /\ UNCHANGED <<uid, gid, closed, passed>>
          /\ Told("LOGIN", "fail")
    /\ UNCHANGED <<phase, peer, keep, defusr, conf, dbdir>>

(* Mutant of InJail: dbdir is not moved back.                              *)
BugInJail(n, found) ==
    /\ InLoop /\ Pending = "INJAIL"
    /\ Len(dbdir) < MaxDepth
    /\ dbdir' = Append(dbdir, n)
    /\ IF found THEN Open("INJAIL")
       ELSE Told("INJAIL", "fail") /\ UNCHANGED <<closed, passed>>
    /\ UNCHANGED <<phase, peer, keep, defusr, conf, uid, gid>>

(* cmd_injail() moves dbdir first, looks for the token in the jail.key of  *)
(* the new directory, and moves dbdir back if it is not there.             *)
InJail(n, found) ==
    /\ InLoop /\ Pending = "INJAIL"
    /\ Len(dbdir) < MaxDepth
    /\ IF found THEN Open("INJAIL") /\ dbdir' = Append(dbdir, n)
       ELSE Told("INJAIL", "fail") /\ UNCHANGED <<closed, passed, dbdir>>
    /\ UNCHANGED <<phase, peer, keep, defusr, conf, uid, gid>>

(* cmd_locksys(): the directory must exist.                                *)
LockSys(n) ==
    /\ InLoop /\ Pending = "LOCKSYS"
    /\ Len(dbdir) < MaxDepth
    /\ Open("LOCKSYS") /\ dbdir' = Append(dbdir, n)
    /\ UNCHANGED <<phase, peer, keep, defusr, conf, uid, gid>>

(* cmd_flycontext(): the directory is made if it does not exist.  It can   *)
(* be sent again after its gate.                                           *)
FlyContext(n) ==
    /\ InLoop /\ Served("FLYCONTEXT")
    /\ Len(dbdir) < MaxDepth
    /\ Open("FLYCONTEXT") /\ dbdir' = Append(dbdir, n)
    /\ UNCHANGED <<phase, peer, keep, defusr, conf, uid, gid>>

(* cmd_keepalive() refuses parameters it cannot split, turns keepalive on  *)
(* or off, and turns it off when one of its calls fails.                   *)
KeepAlive(on) ==
    /\ InLoop /\ Served("KEEPALIVE")
    /\ \/ keep' = on /\ Told("KEEPALIVE", "ok")
       \/ UNCHANGED keep /\ Told("KEEPALIVE", "fail")
       \/ Faults /\ keep' = FALSE /\ Told("KEEPALIVE", "fail")
    /\ UNCHANGED <<phase, peer, defusr, conf, closed, passed, uid, gid,
                   dbdir>>

EndCmd ==
    /\ InLoop
    /\ phase' = "ended" /\ Told("END", "none")
    /\ UNCHANGED <<peer, keep, defusr, conf, closed, passed, uid, gid, dbdir>>

-----------------------------------------------------------------------------
(* The client is gone: it closed the connection, or it vanished.           *)
Leave(p) ==
    /\ peer = "there" /\ phase # "ended"
    /\ peer' = p
    /\ UNCHANGED <<phase, keep, defusr, conf, closed, passed, uid, gid, dbdir,
                   last>>

(* Mutant of ReadFails: getcmd() does not look at readbuf().               *)
BugReadFails ==
    /\ phase \notin {"loop", "ended"}
    /\ peer = "closed" \/ (peer = "silent" /\ keep)
    /\ phase' = "ended"
    /\ UNCHANGED <<peer, keep, defusr, conf, closed, passed, uid, gid, dbdir,
                   last>>

(* readbuf() fails, at once when the connection is closed and otherwise    *)
(* when the probes of TCP are not answered: the handshake returns and      *)
(* getcmd() calls endcomm().                                               *)
ReadFails ==
    /\ phase # "ended"
    /\ peer = "closed" \/ (peer = "silent" /\ keep)
    /\ phase' = "ended"
    /\ UNCHANGED <<peer, keep, defusr, conf, closed, passed, uid, gid, dbdir,
                   last>>

Next ==
    \/ \E w \in {"version", "badversion", "token", "badtoken"} : Version(w)
    \/ \E good \in BOOLEAN : Key(good) \/ Hash(good)
    \/ \E c \in Cmds : Refuse(c) \/ Command(c) \/ GateFails(c)
    \/ \E good \in BOOLEAN, u \in Users : Login(u, good)
    \/ \E n \in Names, found \in BOOLEAN : InJail(n, found)
    \/ \E n \in Names : LockSys(n) \/ FlyContext(n)
    \/ \E on \in BOOLEAN : KeepAlive(on)
    \/ EndCmd
    \/ \E p \in {"closed", "silent"} : Leave(p)
    \/ ReadFails

Spec == Init /\ [][Next]_vars

(* A read of a connection that is gone returns.                            *)
FairSpec == Spec /\ WF_vars(ReadFails)

-----------------------------------------------------------------------------
(* Past the gate of LOGIN the process runs as a user, with the group of    *)
(* that same user, whichever of setgid() and setuid() failed before and    *)
(* however often LOGIN was tried.                                          *)
RunsAsUser == "LOGIN" \notin closed => uid \in Users /\ gid = uid

(* A command is served only to a client that passed every gate that was    *)
(* closed when the loop was entered, each once and in the order of         *)
(* cmd_parse().                                                            *)
GatesInOrder ==
    last = [what |-> "FILE", told |-> "ok"] =>
        /\ Range(passed) = conf
        /\ \A i, j \in DOMAIN passed :
              i < j => Order[passed[i]] < Order[passed[j]]

(* A command that is answered with a failure leaves the session where it   *)
(* was: its gates, its directory and its user.                             *)
FailureKeeps ==
    [][last'.told = "fail" => UNCHANGED <<closed, dbdir, uid>>]_vars

(* A session does not outlive its client, unless keepalive was off when    *)
(* the client vanished.                                                    *)
EndsWithPeer ==
    peer = "closed" \/ (peer = "silent" /\ keep) ~> phase = "ended"

=============================================================================
