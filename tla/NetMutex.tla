------------------------------ MODULE NetMutex ------------------------------
(***************************************************************************)
(* NETMUTACQ_TRY and NETMUTREL (src/src/cmd.c): a mutex kept in a file.    *)
(* The file is empty when the mutex is free and holds the owner's token    *)
(* when it is taken, so the mutex outlives the connection that took it.    *)
(*                                                                         *)
(* Every connection is served by a process of its own, a session.  The     *)
(* sessions run both handlers concurrently on the same file and exclude    *)
(* each other with crtlock() only.  A client may lose its connection while *)
(* a request is under way: the session goes on with the request, and only  *)
(* its reply is lost.                                                      *)
(***************************************************************************)
EXTENDS Naturals, Sequences

CONSTANTS
    Clients,     \* the parties that use the mutex
    Sessions,    \* the server's processes
    NoProc,      \* no process
    Tok,         \* the token of each client, a sequence of characters
    STDSTR,      \* bytes of a token that a handler reads back from the file
    DropOps,     \* the requests whose connection may be lost under way
    Faults       \* whether calls of the operating system may fail

ASSUME TokAssumption ==
    /\ Tok \in [Clients -> Seq({"a", "b"})]
    /\ Clients # {}
    /\ \A c \in Clients : Tok[c] # <<>>
    /\ \A c, d \in Clients : Tok[c] = Tok[d] => c = d
ASSUME ConstAssumption ==
    /\ STDSTR \in Nat \ {0}
    /\ DropOps \subseteq {"acq", "rel"}
    /\ Faults \in BOOLEAN
    /\ NoProc \notin Sessions

VARIABLES
    content,   \* what the mutex file holds
    owner,     \* the process that has the record lock of each file
    h,         \* the handler each session is in
    pend,      \* the session from which each client awaits a reply
    holding    \* whether the client is inside its critical section

vars == <<content, owner, h, pend, holding>>

RL == INSTANCE RecordLock

File == "mutex"
Ops == {"acq", "rel"}

(* Between crtlock(fd, BLK) and close(fd).  After stat() a handler is      *)
(* "free" or "taken", by what it found.                                    *)
InFile == {"locked", "free", "taken", "done"}

(* A handler: where it is, its command, the client it serves, whether that *)
(* client held the mutex when it sent the command, and the reply.          *)
Handlers == [pc : InFile \cup {"idle", "opened", "replying"}, op : Ops,
             cl : Clients, held : BOOLEAN, rep : {"ok", "fail"}]

Idle == [pc |-> "idle", op |-> "acq", cl |-> CHOOSE c \in Clients : TRUE,
         held |-> FALSE, rep |-> "fail"]

Init ==
    /\ content = <<>>
    /\ owner = [f \in {File} |-> NoProc]
    /\ h = [s \in Sessions |-> Idle]
    /\ pend = [c \in Clients |-> NoProc]
    /\ holding = [c \in Clients |-> FALSE]

-----------------------------------------------------------------------------
(* The client sends a command; the handler has parsed it, passed jaildir() *)
(* and opened the file.  A client that sends NETMUTREL has left its        *)
(* critical section.                                                       *)
Request(c, s, o) ==
    /\ pend[c] = NoProc
    /\ h[s].pc = "idle"
    /\ pend' = [pend EXCEPT ![c] = s]
    /\ h' = [h EXCEPT ![s] = [pc |-> "opened", op |-> o, cl |-> c,
                              held |-> holding[c], rep |-> "fail"]]
    /\ holding' = [holding EXCEPT ![c] = @ /\ o # "rel"]
    /\ UNCHANGED <<content, owner>>

(* jaildir(), open() or crtlock() fails: the handler answers a failure and *)
(* has changed nothing.                                                    *)
Refuse(s) ==
    /\ Faults
    /\ h[s].pc = "opened"
    /\ h' = [h EXCEPT ![s].pc = "replying"]
    /\ UNCHANGED <<content, owner, pend, holding>>

(* Mutant of Lock: the result of crtlock() is not looked at.               *)
BugLockIgnored(s) ==
    /\ h[s].pc = "opened"
    /\ owner' = RL!Locked(owner, File, s)
    /\ h' = [h EXCEPT ![s].pc = "locked"]
    /\ UNCHANGED <<content, pend, holding>>

(* crtlock(fd, BLK) returns.                                               *)
Lock(s) ==
    /\ h[s].pc = "opened"
    /\ RL!Lockable(owner, File, s)
    /\ owner' = RL!Locked(owner, File, s)
    /\ h' = [h EXCEPT ![s].pc = "locked"]
    /\ UNCHANGED <<content, pend, holding>>

(* stat(path, &st)                                                         *)
Stat(s) ==
    /\ h[s].pc = "locked"
    /\ h' = [h EXCEPT ![s].pc = IF content = <<>> THEN "free" ELSE "taken"]
    /\ UNCHANGED <<content, owner, pend, holding>>

Done(s, r) ==
    /\ h' = [h EXCEPT ![s].pc = "done", ![s].rep = r]
    /\ UNCHANGED <<owner, pend, holding>>

(* stat() or readchunk() fails.                                            *)
ReadFails(s) ==
    /\ Faults
    /\ h[s].pc \in {"locked", "taken"}
    /\ Done(s, "fail")
    /\ UNCHANGED content

(* readchunk(fd, tok, sizeof tok): at most STDSTR bytes come back.         *)
ReadBack == IF Len(content) <= STDSTR THEN content
            ELSE SubSeq(content, 1, STDSTR)

(* The mutex was free: the token is written.  writechunk() fails after any *)
(* part of the token may have reached the file.                            *)
AcqWrite(s) ==
    /\ h[s].pc = "free" /\ h[s].op = "acq"
    /\ \/ content' = Tok[h[s].cl] /\ Done(s, "ok")
       \/ /\ Faults
          /\ \E n \in 0 .. Len(Tok[h[s].cl]) - 1 :
                content' = SubSeq(Tok[h[s].cl], 1, n)
          /\ Done(s, "fail")

(* The mutex was taken: the token read back decides.                       *)
AcqRead(s) ==
    /\ h[s].pc = "taken" /\ h[s].op = "acq"
    /\ Done(s, IF ReadBack = Tok[h[s].cl] THEN "ok" ELSE "fail")
    /\ UNCHANGED content

(* Nothing to release.                                                     *)
RelFree(s) ==
    /\ h[s].pc = "free" /\ h[s].op = "rel"
    /\ Done(s, "ok")
    /\ UNCHANGED content

(* Mutant of RelRead: any token releases.                                  *)
BugRelAnyToken(s) ==
    /\ h[s].pc = "taken" /\ h[s].op = "rel"
    /\ Done(s, "ok")
    /\ content' = <<>>

(* The token read back decides; the result of ftruncate() is not looked at.*)
RelRead(s) ==
    /\ h[s].pc = "taken" /\ h[s].op = "rel"
    /\ \/ ReadBack # Tok[h[s].cl] /\ Done(s, "fail") /\ UNCHANGED content
       \/ /\ ReadBack = Tok[h[s].cl]
          /\ Done(s, "ok")
          /\ content' = <<>> \/ (Faults /\ UNCHANGED content)

(* Mutant of Unlock: an exit of the handler that keeps the lock.           *)
BugUnlockForgotten(s) ==
    /\ h[s].pc = "done"
    /\ h' = [h EXCEPT ![s].pc = "replying"]
    /\ UNCHANGED <<content, owner, pend, holding>>

(* crtlock(fd, UNLOCK) and close(fd).                                      *)
Unlock(s) ==
    /\ h[s].pc = "done"
    /\ owner' = RL!AfterClose(RL!Unlocked(owner, File, s), File, s)
    /\ h' = [h EXCEPT ![s].pc = "replying"]
    /\ UNCHANGED <<content, pend, holding>>

(* cmd_ok() or cmd_fail(): a client that is still connected learns the     *)
(* result.                                                                 *)
Reply(s) ==
    /\ h[s].pc = "replying"
    /\ h' = [h EXCEPT ![s] = Idle]
    /\ IF pend[h[s].cl] = s
       THEN /\ pend' = [pend EXCEPT ![h[s].cl] = NoProc]
            /\ holding' = [holding EXCEPT ![h[s].cl] =
                             @ \/ (h[s].op = "acq" /\ h[s].rep = "ok")]
       ELSE UNCHANGED <<pend, holding>>
    /\ UNCHANGED <<content, owner>>

(* The connection is lost: the client gives up waiting, the session knows  *)
(* nothing of it until it replies.                                         *)
Drop(c) ==
    /\ pend[c] # NoProc
    /\ h[pend[c]].op \in DropOps
    /\ pend' = [pend EXCEPT ![c] = NoProc]
    /\ UNCHANGED <<content, owner, h, holding>>

(* The process ends inside the handler: the watchdog of a NETLOCK it holds *)
(* calls exit(), or the daemon is stopped.                                 *)
Kill(s) ==
    /\ h[s].pc # "idle"
    /\ h' = [h EXCEPT ![s] = Idle]
    /\ owner' = RL!AfterExit(owner, s)
    /\ pend' = [pend EXCEPT ![h[s].cl] = IF @ = s THEN NoProc ELSE @]
    /\ UNCHANGED <<content, holding>>

-----------------------------------------------------------------------------
Step(s) ==
    \/ Refuse(s) \/ Lock(s) \/ Stat(s) \/ ReadFails(s) \/ AcqWrite(s)
    \/ AcqRead(s) \/ RelFree(s) \/ RelRead(s) \/ Unlock(s) \/ Reply(s)

Next ==
    \/ \E c \in Clients, s \in Sessions, o \in Ops : Request(c, s, o)
    \/ \E s \in Sessions : Step(s) \/ Kill(s)
    \/ \E c \in Clients : Drop(c)

Spec == Init /\ [][Next]_vars

(* What a session does when no call fails, apart from the wait for a lock. *)
Progress(s) ==
    \/ Stat(s) \/ AcqWrite(s) \/ AcqRead(s) \/ RelFree(s) \/ RelRead(s)
    \/ Unlock(s) \/ Reply(s)

(* A session that can run runs, as every session is a process that the     *)
(* operating system schedules; and the kernel does not starve a process    *)
(* that waits in fcntl() for a lock that is released again and again.  No  *)
(* failure of a call is relied on.                                         *)
FairSpec ==
    Spec /\ \A s \in Sessions : WF_vars(Progress(s)) /\ SF_vars(Lock(s))

-----------------------------------------------------------------------------
(* Types of the variables: the state of the handlers of cmd.c and of the   *)
(* file and the lock they share.                                           *)
TypeOK ==
    /\ content \in Seq({"a", "b"})
    /\ owner \in [{File} -> Sessions \cup {NoProc}]
    /\ h \in [Sessions -> Handlers]
    /\ pend \in [Clients -> Sessions \cup {NoProc}]
    /\ holding \in [Clients -> BOOLEAN]

(* cmd_netmutacqtry() never answers OK to a client while another client is *)
(* between its own OK and its NETMUTREL, however the handlers interleave,  *)
(* whichever process dies and whatever call of the system fails.           *)
MutualExclusion ==
    \A c, d \in Clients : holding[c] /\ holding[d] => c = d

(* The mutex is persistent: as long as a client is in its critical section *)
(* the file holds its token, through lost connections and dead sessions.   *)
HolderRecorded ==
    \A c \in Clients : holding[c] => content = Tok[c]

(* The mutex as its clients see it is the abstract one.                    *)
Abstract == INSTANCE TokenMutex WITH inside <- {c \in Clients : holding[c]}
ImplementsTokenMutex == Abstract!Spec

(* Neither handler waits forever: every command is answered, unless the    *)
(* session that runs it dies.                                              *)
EveryCommandEnds ==
    \A s \in Sessions : h[s].pc # "idle" ~> h[s].pc = "idle"
=============================================================================
