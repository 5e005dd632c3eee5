-------------------------------- MODULE Ime ---------------------------------
(***************************************************************************)
(* The instant messages of src/src/xs_ime/xs_ime.c and xs_imeopc1.c.  A    *)
(* session in IME has a reading thread, which takes the opcodes of its     *)
(* client, and a writing thread, which looks into the folder of the user   *)
(* for messages younger than tmstmp.  Sessions meet in the folders, where  *)
(* a message is linked under the second it was received in, and at the     *)
(* lock on "loged-in", which admits one session per user.                  *)
(*                                                                         *)
(* A client keeps the order of opcodes the protocol asks for: SETUP, UNIT, *)
(* USR and then the others.                                                *)
(***************************************************************************)
EXTENDS Naturals, Sequences, Functions

CONSTANTS
    Sessions, Users,
    Leavers,    \* sessions whose client may leave without OPC_EXIT
    None,       \* no session, no user
    Options,    \* sets of the options UNUSR and AUTODEL that clients choose
    MaxMsgs,    \* messages that are sent
    MaxTime,    \* seconds of the clock
    MaxSetups   \* SETUP opcodes of all clients

ASSUME ImeAssumption ==
    /\ MaxMsgs \in Nat /\ MaxTime \in Nat /\ MaxSetups \in Nat
    /\ Leavers \subseteq Sessions
    /\ Options \subseteq SUBSET {"UNUSR", "AUTODEL"}
    /\ None \notin Sessions \cup Users

VARIABLES
    ses,    \* the process of each session
    gone,   \* its client has left
    lock,   \* the session that has locked "loged-in", for each user
    box,    \* messages linked into the folder of each user, in that order
    del,    \* those of them that are deleted
    stamp,  \* the second in the name of each message, in the order they came
    now,    \* the clock
    setups  \* SETUP opcodes so far

disk == <<lock, box, del, stamp>>
vars == <<ses, gone, disk, now, setups>>

(* A session that is not in IME.  The last three fields are history: SETUP *)
(* came during a scan; the messages before its timestamp or written since; *)
(* unusr was set at the login.                                             *)
Fresh ==
    [rd |-> "off",       \* the reading thread: "off", "read", "link",
                         \* "answer", "sync" (the same, with nothing to
                         \* send), "final", "stuck"; "ended": no process
     wr |-> "sleep",     \* the writing thread: "scan" with exmut held
     ready |-> {}, opts |-> {}, tmstmp |-> 0, usrnam |-> None,
     scan |-> <<>>,      \* what is left of the list of scandir()
     to |-> {}, msg |-> 0, \* the message that is linked, and its users to come
     raced |-> FALSE, got |-> {}, sole |-> FALSE]

Init ==
    /\ ses = [s \in Sessions |-> Fresh]
    /\ gone = [s \in Sessions |-> FALSE]
    /\ lock = [u \in Users |-> None]
    /\ box = [u \in Users |-> <<>>] /\ del = [u \in Users |-> {}]
    /\ stamp = <<>> /\ now = 1 /\ setups = 0

Chkrdy(s) == ses[s].ready = {"SETUP", "ORUN", "USR"}
Unusr(s) == "UNUSR" \in ses[s].opts
Folder(u) == Range(box[u]) \ del[u]

(* The session s as it is, with some fields changed by the caller.         *)
Becomes(s, r) == ses' = [ses EXCEPT ![s] = r]

Unlocked(s) == [u \in Users |-> IF lock[u] = s THEN None ELSE lock[u]]

-----------------------------------------------------------------------------
(* xsime_start(): the threads start and ready is cleared.                  *)
XsimeStart(s) ==
    /\ ses[s].rd = "off" /\ ~gone[s]
    /\ Becomes(s, [ses[s] EXCEPT !.rd = "read", !.ready = {}])
    /\ UNCHANGED <<gone, disk, now, setups>>

(* readbuf_ex() of rdthread() has an opcode.                               *)
Reads(s) == ses[s].rd = "read" /\ ~gone[s]

(* An opcode without an answer is done: the reading thread locks exmut and *)
(* unlocks it before it reads the next.                                    *)
Synced(s) == IF ses[s].wr = "sleep" THEN "read" ELSE "sync"

(* opc_setup(), at any time, beside the writing thread: it takes no mutex. *)
OpcSetup(s) ==
    /\ Reads(s) /\ setups < MaxSetups /\ setups' = setups + 1
    /\ \E o \in Options, t \in 0 .. now - 1 :
          Becomes(s, [ses[s] EXCEPT
             !.rd = Synced(s), !.ready = @ \cup {"SETUP"}, !.opts = o, !.tmstmp = t,
             !.raced = ses[s].wr = "scan",
             !.got = {m \in DOMAIN stamp : stamp[m] <= t}])
    /\ UNCHANGED <<gone, disk, now>>

(* opc_orgunit(): the path is there, or not.                               *)
OpcUnit(s) ==
    /\ Reads(s) /\ "SETUP" \in ses[s].ready /\ ~Chkrdy(s)
    /\ \E r \in {ses[s].ready \cup {"ORUN"}, ses[s].ready \ {"ORUN"}} :
          Becomes(s, [ses[s] EXCEPT !.rd = "answer", !.ready = r])
    /\ UNCHANGED <<gone, disk, now, setups>>

(* opc_orgunit(), opc_usr() and opc_sndmsg() out of their order: they      *)
(* answer OPC_FAILED.                                                      *)
OpcFails(s) ==
    /\ Reads(s)
    /\ Becomes(s, [ses[s] EXCEPT !.rd = "answer"])
    /\ UNCHANGED <<gone, disk, now, setups>>

(* Mutant of Islogin: the session does not look at the result of crtlock() *)
BugIslogin(s, u) == FALSE

(* islogin(): another process has locked the file.                         *)
Islogin(s, u) == lock[u] \notin {None, s}

(* opc_usr(): refused, because islogin() or the folder is not there, with  *)
(* usrnam changed; or logged in, and locked.                               *)
OpcUsr(s, u) ==
    /\ Reads(s) /\ {"SETUP", "ORUN"} \subseteq ses[s].ready /\ ~Chkrdy(s)
    /\ \/ /\ Becomes(s, [ses[s] EXCEPT !.rd = "answer", !.usrnam = u])
          /\ UNCHANGED lock
       \/ /\ ~(Unusr(s) /\ Islogin(s, u))
          /\ Becomes(s, [ses[s] EXCEPT !.rd = "answer", !.usrnam = u,
                            !.ready = @ \cup {"USR"}, !.sole = Unusr(s)])
          /\ lock' = [lock EXCEPT ![u] =
                        IF Unusr(s) /\ @ = None THEN s ELSE @]
    /\ UNCHANGED <<gone, box, del, stamp, now, setups>>

(* opc_sndmsg(): the message is written to a file of its own, under the    *)
(* second it came in, ...                                                  *)
OpcSndmsg(s, to) ==
    /\ Reads(s) /\ Chkrdy(s) /\ Len(stamp) < MaxMsgs
    /\ stamp' = Append(stamp, now)
    /\ Becomes(s, [ses[s] EXCEPT !.rd = "link", !.to = to, !.msg = Len(stamp')])
    /\ UNCHANGED <<gone, lock, box, del, now, setups>>

(* ... and linked into the folder of each user it is for, unless that user *)
(* has blocked the sender.                                                 *)
Cpymsg(s) ==
    /\ ses[s].rd = "link"
    /\ \E u \in ses[s].to :
          /\ Becomes(s, IF ses[s].to = {u}
                        THEN [ses[s] EXCEPT !.to = {}, !.msg = 0, !.rd = Synced(s)]
                        ELSE [ses[s] EXCEPT !.to = @ \ {u}])
          /\ \/ box' = [box EXCEPT ![u] = Append(@, ses[s].msg)]
             \/ UNCHANGED box
    /\ UNCHANGED <<gone, lock, del, stamp, now, setups>>

(* OPC_EXIT: opc_cleanup() unlocks.                                        *)
OpcExit(s) ==
    /\ Reads(s)
    /\ Becomes(s, [ses[s] EXCEPT !.rd = "final"])
    /\ lock' = Unlocked(s)
    /\ UNCHANGED <<gone, box, del, stamp, now, setups>>

ReadFails(s) ==
    /\ ses[s].rd = "read" /\ gone[s]
    /\ Becomes(s, [ses[s] EXCEPT !.rd = "final"])
    /\ UNCHANGED <<gone, disk, now, setups>>

(* writeopc() with exmut.  When it fails the loop is left with exmut held, *)
(* and rdthread() locks it once more.                                      *)
Answer(s) ==
    /\ ses[s].rd \in {"answer", "sync"} /\ ses[s].wr = "sleep"
    /\ \/ Becomes(s, [ses[s] EXCEPT !.rd = "read"])
       \/ /\ gone[s] /\ ses[s].rd = "answer"
          /\ Becomes(s, [ses[s] EXCEPT !.rd = "stuck"])
    /\ UNCHANGED <<gone, disk, now, setups>>

(* Mutant of Final: the writing thread is cancelled for OPC_EXIT only, and *)
(* xsime_start() joins it for ever.                                        *)
BugFinal(s) ==
    /\ ses[s].rd = "final" /\ ses[s].wr = "sleep" /\ ~gone[s]
    /\ Becomes(s, [ses[s] EXCEPT !.rd = "off", !.ready = {},
                      !.raced = FALSE, !.got = {}, !.sole = FALSE])
    /\ UNCHANGED <<gone, disk, now, setups>>

(* The end of rdthread(), with exmut: the writing thread is cancelled and  *)
(* OPC_EXIT sent.  The session goes back to its loop.                      *)
Final(s) ==
    /\ ses[s].rd = "final" /\ ses[s].wr = "sleep"
    /\ Becomes(s, [ses[s] EXCEPT !.rd = "off", !.ready = {},
                      !.raced = FALSE, !.got = {}, !.sole = FALSE])
    /\ UNCHANGED <<gone, disk, now, setups>>

(* The loop of the session finds its client gone: the process ends, and    *)
(* with it its lock.                                                       *)
SessionEnds(s) ==
    /\ ses[s].rd = "off" /\ gone[s]
    /\ Becomes(s, [Fresh EXCEPT !.rd = "ended"])
    /\ lock' = Unlocked(s)
    /\ UNCHANGED <<gone, box, del, stamp, now, setups>>

-----------------------------------------------------------------------------
(* Mutant of Timecmp: the list is not sorted.                              *)
BugTimecmp(m, n) == TRUE

(* timecmp()                                                               *)
Timecmp(m, n) == stamp[m] <= stamp[n]

(* The orders in which scandir() may list a folder.                        *)
Scandir(u) ==
    {q \in UNION {Bijection(1 .. n, Folder(u)) : n \in 0 .. Len(box[u])} :
        \A i, j \in DOMAIN q : i < j => Timecmp(q[i], q[j])}

(* ctmstmp() of some message in the folder                                 *)
Due(s) == \E m \in Folder(ses[s].usrnam) : stamp[m] > ses[s].tmstmp

(* opc_sndmsg2(), with exmut: the list is read once ...  (A scan that      *)
(* finds nothing younger changes nothing, and is left out.)                *)
ScanStart(s) ==
    /\ ses[s].rd \notin {"off", "stuck", "ended"} /\ ses[s].wr = "sleep"
    /\ Chkrdy(s) /\ Due(s)
    /\ \E q \in Scandir(ses[s].usrnam) :
          Becomes(s, [ses[s] EXCEPT !.wr = "scan", !.scan = q])
    /\ UNCHANGED <<gone, disk, now, setups>>

(* Mutant of Ctmstmp: the timestamp is compared and not swapped.           *)
BugCtmstmp(s, m) == ses[s].tmstmp

(* ctmstmp(): tmstmp when the message m has been looked at.                *)
Ctmstmp(s, m) == IF stamp[m] > ses[s].tmstmp THEN stamp[m] ELSE ses[s].tmstmp

(* ... and each message that is younger than tmstmp is written, and        *)
(* deleted if it could be and autodel is set.                              *)
ScanStep(s) ==
    /\ ses[s].wr = "scan"
    /\ LET m == Head(ses[s].scan)
           u == ses[s].usrnam
           new == stamp[m] > ses[s].tmstmp
       IN  /\ Becomes(s, [ses[s] EXCEPT
                 !.scan = Tail(@),
                 !.wr = IF Len(ses[s].scan) = 1 THEN "sleep" ELSE @,
                 !.tmstmp = Ctmstmp(s, m),
                 !.got = IF new /\ ~gone[s] /\ m \in Folder(u)
                         THEN @ \cup {m} ELSE @])
           /\ \/ del' = [del EXCEPT ![u] =
                           IF new /\ "AUTODEL" \in ses[s].opts THEN @ \cup {m} ELSE @]
              \/ new /\ gone[s] /\ UNCHANGED del
    /\ UNCHANGED <<gone, lock, box, stamp, now, setups>>

-----------------------------------------------------------------------------
(* External: the client leaves, and time passes.                           *)
Vanish(s) ==
    /\ s \in Leavers /\ ~gone[s] /\ gone' = [gone EXCEPT ![s] = TRUE]
    /\ UNCHANGED <<ses, disk, now, setups>>

Tick ==
    /\ now < MaxTime /\ now' = now + 1
    /\ UNCHANGED <<ses, gone, disk, setups>>

Reader(s) == Cpymsg(s) \/ ReadFails(s) \/ Answer(s) \/ Final(s) \/ SessionEnds(s)
Writer(s) == ScanStart(s) \/ ScanStep(s)
Client(s) ==
    \/ XsimeStart(s) \/ OpcSetup(s) \/ OpcUnit(s) \/ OpcFails(s) \/ OpcExit(s)
    \/ Vanish(s)
    \/ \E u \in Users : OpcUsr(s, u)
    \/ \E to \in SUBSET Users \ {{}} : OpcSndmsg(s, to)

Next == Tick \/ \E s \in Sessions : Reader(s) \/ Writer(s) \/ Client(s)

(* Both threads of a session run; clients need not do anything.            *)
Spec ==
    /\ Init /\ [][Next]_vars
    /\ \A s \in Sessions : WF_vars(Reader(s)) /\ WF_vars(Writer(s))

-----------------------------------------------------------------------------
(* opc_usr(): a session that asked for a unique login when it logged in    *)
(* keeps the lock on "loged-in" for as long as it is logged in, so another *)
(* one like it is not, whatever the others do, leave and come back to; and *)
(* the lock is never of a session that has ended.                          *)
OneLogin ==
    /\ \A s \in Sessions :
          ses[s].rd \in {"read", "link", "answer", "sync"} /\ Chkrdy(s) /\ ses[s].sole
             => lock[ses[s].usrnam] = s
    /\ \A u \in Users : lock[u] # None => ses[lock[u]].rd # "ended"

(* m came into the folder of u after a message with a later second.        *)
Late(u, m) ==
    \E i, j \in DOMAIN box[u] :
        i < j /\ box[u][j] = m /\ stamp[box[u][i]] > stamp[m]

(* m is not alone in its second.                                           *)
Twin(u, m) == \E n \in Range(box[u]) \ {m} : stamp[n] = stamp[m]

(* opc_sndmsg2() and ctmstmp(): a message that is in the folder and was    *)
(* asked for by the latest SETUP is passed over by a scan only if it was   *)
(* linked late, if it shares its second with another message, or if that   *)
(* SETUP came while a scan was under way.                                  *)
PassedOver ==
    \A s \in Sessions : LET u == ses[s].usrnam IN
        ses[s].rd = "read" /\ ses[s].wr = "sleep" /\ Chkrdy(s) /\ ~gone[s] =>
            \A m \in Folder(u) \ ses[s].got :
                stamp[m] <= ses[s].tmstmp => ses[s].raced \/ Late(u, m) \/ Twin(u, m)

(* Nothing in the folder is due to a session for ever: every message there *)
(* is written to the client or passed over, unless the session leaves IME  *)
(* or is stuck.                                                            *)
InboxDrains ==
    []<>(\A s \in Sessions :
            ~(Chkrdy(s) /\ Due(s) /\ ses[s].rd # "stuck"))

(* A session whose client is gone ends, and with it its login, unless an   *)
(* answer to the client failed: then rdthread() waits for a mutex it holds *)
(* itself.                                                                 *)
GoneLogsOut ==
    []<>(\A s \in Sessions : gone[s] => ses[s].rd \in {"ended", "stuck"})
=============================================================================
