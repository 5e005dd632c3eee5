------------------------------ MODULE NetLock -------------------------------
(***************************************************************************)
(* NETLOCK, NETLOCK_TRY and NETUNLOCK (src/src/cmd.c): a client takes the  *)
(* record lock of a file and keeps it across commands.  Its session keeps  *)
(* a table of NETLOCK_LEN descriptors; each lock in the table has a        *)
(* watchdog thread that ends the session when a whole period passes        *)
(* without network activity.                                               *)
(*                                                                         *)
(* Activity is comm.act, a char that wrfd() and rdfd() (src/src/tfproto.c) *)
(* increment at every read() and write(): it wraps at ActMod, 256 in the   *)
(* code.  io counts the same events without wrapping; comm.act is          *)
(* io % ActMod.                                                            *)
(***************************************************************************)
EXTENDS Naturals, FiniteSets

CONSTANTS
    Sessions,     \* the server's processes, one per connection
    Files,        \* the files that are locked
    NoProc,       \* no process
    NETLOCK_LEN,  \* entries of a session's table
    ActMod,       \* comm.act wraps here
    MaxIO,        \* bound: network operations in the life of each session
    FreeUse       \* the sessions whose client also uses a file it has locked

ASSUME NetLockAssumption ==
    /\ NETLOCK_LEN \in Nat \ {0} /\ ActMod \in Nat \ {0} /\ MaxIO \in [Sessions -> Nat]
    /\ FreeUse \subseteq Sessions
    /\ NoProc \notin Sessions
    /\ Files # {}

VARIABLES
    owner,    \* the process that has the record lock of each file
    pc,       \* what each session does
    want,     \* the table entry and the file that a NETLOCK under way is for
    tab,      \* each session's table, netlck[]
    stale,    \* watchdogs that are cancelled and have not stopped yet
    io        \* network operations of each session

vars == <<owner, pc, want, tab, stale, io>>

RL == INSTANCE RecordLock

Slots == 0 .. NETLOCK_LEN - 1
AnyFile == CHOOSE f \in Files : TRUE
Live == {"ready", "waiting", "locked"}
act(n) == n % ActMod

(* An entry: whether it is used, its file, its watchdog and the activity   *)
(* the watchdog saw last.                                                  *)
Empty == [used |-> FALSE, file |-> AnyFile, wdg |-> "none", seen |-> 0]

Fresh(s) ==
    /\ want' = [want EXCEPT ![s] = [slot |-> 0, file |-> AnyFile]]
    /\ tab' = [tab EXCEPT ![s] = [i \in Slots |-> Empty]]
    /\ stale' = [stale EXCEPT ![s] = {}]

Init ==
    /\ owner = [f \in Files |-> NoProc]
    /\ pc = [s \in Sessions |-> "ready"]
    /\ want = [s \in Sessions |-> [slot |-> 0, file |-> AnyFile]]
    /\ tab = [s \in Sessions |-> [i \in Slots |-> Empty]]
    /\ stale = [s \in Sessions |-> {}]
    /\ io = [s \in Sessions |-> 0]

(* The files that a session has locked and not unlocked, as its client     *)
(* knows from the replies.                                                 *)
Has(s) == {tab[s][i].file : i \in {j \in Slots : tab[s][j].used}}

(* A command is received, or answered, if the bound allows.                *)
Command(s) == pc[s] = "ready" /\ io[s] + 2 <= MaxIO[s]
Received(s) == io' = [io EXCEPT ![s] = @ + 1]
Answered(s) == io' = [io EXCEPT ![s] = @ + 2]

-----------------------------------------------------------------------------
(* The first unused entry, as netlock_switch() looks for it.               *)
FirstUnused(s, i) ==
    /\ ~tab[s][i].used
    /\ \A j \in Slots : j < i => tab[s][j].used

(* NETLOCK and NETLOCK_TRY with the table full, or with a file that does   *)
(* not open; NETUNLOCK of an unused entry; every other command that does   *)
(* not touch a locked file.                                                *)
NoEffect(s) ==
    /\ Command(s)
    /\ Answered(s)
    /\ UNCHANGED <<owner, pc, want, tab, stale>>

(* NETLOCK: the file is open, crtlock(fd, BLK) is called.                  *)
NetLockStart(s, f) ==
    /\ Command(s)
    /\ f \in Has(s) => s \in FreeUse
    /\ \E i \in Slots : /\ FirstUnused(s, i)
                        /\ want' = [want EXCEPT ![s] =
                                      [slot |-> i, file |-> f]]
    /\ pc' = [pc EXCEPT ![s] = "waiting"]
    /\ Received(s)
    /\ UNCHANGED <<owner, tab, stale>>

(* crtlock() returned 0: pthread_create() starts the watchdog.             *)
Watch(s, i, f) ==
    tab' = [tab EXCEPT ![s][i] = [used |-> FALSE, file |-> f,
                                  wdg |-> "starting", seen |-> 0]]

(* crtlock(fd, BLK) returns 0.                                             *)
NetLockGet(s) ==
    /\ pc[s] = "waiting"
    /\ RL!Lockable(owner, want[s].file, s)
    /\ owner' = RL!Locked(owner, want[s].file, s)
    /\ Watch(s, want[s].slot, want[s].file)
    /\ pc' = [pc EXCEPT ![s] = "locked"]
    /\ UNCHANGED <<want, stale, io>>

(* The chain of sessions that s waits for, n links long.                   *)
Blocker(s) == IF pc[s] = "waiting" THEN owner[want[s].file] ELSE NoProc
Chain(s) ==
    LET c[n \in 0 .. Cardinality(Sessions)] ==
          IF n = 0 THEN s
          ELSE IF c[n - 1] \in Sessions THEN Blocker(c[n - 1]) ELSE NoProc
    IN {c[n] : n \in 1 .. Cardinality(Sessions)}

(* The kernel refuses a wait that closes a cycle (EDEADLK): the command    *)
(* fails and its descriptor stays open.                                    *)
NetLockDeadlk(s) ==
    /\ pc[s] = "waiting"
    /\ s \in Chain(s)
    /\ owner[want[s].file] # s
    /\ pc' = [pc EXCEPT ![s] = "ready"]
    /\ Received(s)
    /\ UNCHANGED <<owner, want, tab, stale>>

(* Mutant of NetLockTry: the result of crtlock(fd, NONBLK) is ignored.     *)
BugTryIgnored(s, f) ==
    /\ Command(s)
    /\ f \in Has(s) => s \in FreeUse
    /\ \E i \in Slots :
          /\ FirstUnused(s, i)
          /\ owner' = IF RL!Lockable(owner, f, s)
                      THEN RL!Locked(owner, f, s) ELSE owner
          /\ Watch(s, i, f)
          /\ want' = [want EXCEPT ![s] = [slot |-> i, file |-> f]]
    /\ pc' = [pc EXCEPT ![s] = "locked"]
    /\ Received(s)
    /\ UNCHANGED stale

(* NETLOCK_TRY: crtlock(fd, NONBLK) succeeds or fails at once.  When it    *)
(* fails the descriptor stays open and nothing else has changed.           *)
NetLockTry(s, f) ==
    /\ Command(s)
    /\ f \in Has(s) => s \in FreeUse
    /\ \E i \in Slots :
          /\ FirstUnused(s, i)
          /\ IF RL!Lockable(owner, f, s)
             THEN /\ owner' = RL!Locked(owner, f, s)
                  /\ Watch(s, i, f)
                  /\ want' = [want EXCEPT ![s] = [slot |-> i, file |-> f]]
                  /\ pc' = [pc EXCEPT ![s] = "locked"]
                  /\ Received(s)
             ELSE UNCHANGED <<owner, pc, want, tab>> /\ Answered(s)
    /\ UNCHANGED stale

(* pthread_detach(), used = 1, and the reply with the index of the entry.  *)
NetLockReply(s) ==
    /\ pc[s] = "locked"
    /\ tab' = [tab EXCEPT ![s][want[s].slot].used = TRUE]
    /\ pc' = [pc EXCEPT ![s] = "ready"]
    /\ Received(s)
    /\ UNCHANGED <<owner, want, stale>>

(* What a watchdog that is cancelled now saw last, if it looked at all.    *)
Awake(e) == IF e.wdg = "armed" THEN {e.seen} ELSE {}

(* Mutant of NetUnlock: no unlock and no close().                          *)
BugUnlockKeepsLock(s, i) ==
    /\ Command(s)
    /\ tab[s][i].used
    /\ stale' = [stale EXCEPT ![s] = @ \cup Awake(tab[s][i])]
    /\ tab' = [tab EXCEPT ![s][i] = Empty]
    /\ Answered(s)
    /\ UNCHANGED <<owner, pc, want>>

(* NETUNLOCK: crtlock(fd, UNLOCK), pthread_cancel(), close(fd), used = 0.  *)
(* The cancelled watchdog may still wake once before it stops.             *)
NetUnlock(s, i) ==
    /\ Command(s)
    /\ tab[s][i].used
    /\ owner' = RL!AfterClose(owner, tab[s][i].file, s)
    /\ stale' = [stale EXCEPT ![s] = @ \cup Awake(tab[s][i])]
    /\ tab' = [tab EXCEPT ![s][i] = Empty]
    /\ Answered(s)
    /\ UNCHANGED <<pc, want>>

(* Another command opens and closes a file that this session has locked:   *)
(* INTREAD, SHA256, GET, NETMUTACQ_TRY and so on.                          *)
OtherUse(s, f) ==
    /\ s \in FreeUse
    /\ Command(s)
    /\ f \in Has(s)
    /\ owner' = RL!AfterClose(owner, f, s)
    /\ Answered(s)
    /\ UNCHANGED <<pc, want, tab, stale>>

-----------------------------------------------------------------------------
(* netlock_wdg() begins: char act = comm.act.                              *)
WdgStart(s, i) ==
    /\ pc[s] \in Live
    /\ tab[s][i].wdg = "starting"
    /\ tab' = [tab EXCEPT ![s][i].wdg = "armed", ![s][i].seen = io[s]]
    /\ UNCHANGED <<owner, pc, want, stale, io>>

(* exit() of the process, from a watchdog or at the end of mainloop().     *)
Exit(s, why) ==
    /\ pc' = [pc EXCEPT ![s] = why]
    /\ owner' = RL!AfterExit(owner, s)
    /\ Fresh(s)
    /\ UNCHANGED io

(* Mutants of WdgWake: activity is not looked at; exit() is never called.  *)
BugWdgExitsAlways(s, i) ==
    /\ pc[s] \in Live
    /\ tab[s][i].wdg = "armed"
    /\ Exit(s, "expired")

BugWdgNeverExits(s, i) ==
    /\ pc[s] \in Live
    /\ tab[s][i].wdg = "armed"
    /\ tab' = [tab EXCEPT ![s][i].seen = io[s]]
    /\ UNCHANGED <<owner, pc, want, stale, io>>

(* netlock_wdg() after sleep(tmout): no activity since it last looked ends *)
(* the process, otherwise it goes back to sleep.                           *)
WdgWake(s, i) ==
    /\ pc[s] \in Live
    /\ tab[s][i].wdg = "armed"
    /\ IF act(io[s]) = act(tab[s][i].seen)
       THEN Exit(s, "expired")
       ELSE /\ tab' = [tab EXCEPT ![s][i].seen = io[s]]
            /\ UNCHANGED <<owner, pc, want, stale, io>>

(* A cancelled watchdog wakes before the cancellation reaches it, or stops.*)
StaleWake(s, n) ==
    /\ pc[s] \in Live
    /\ n \in stale[s]
    /\ IF act(io[s]) = act(n)
       THEN Exit(s, "expired")
       ELSE /\ stale' = [stale EXCEPT ![s] = @ \ {n}]
            /\ UNCHANGED <<owner, pc, want, tab, io>>

(* The client sends END or its connection ends.                            *)
Quit(s) ==
    /\ pc[s] = "ready"
    /\ Exit(s, "quit")

(* Another client connects and gets a session.                             *)
Connect(s) ==
    /\ pc[s] \notin Live
    /\ pc' = [pc EXCEPT ![s] = "ready"]
    /\ io' = [io EXCEPT ![s] = 0]
    /\ UNCHANGED <<owner, want, tab, stale>>

-----------------------------------------------------------------------------
Serve(s) == NetLockGet(s) \/ NetLockDeadlk(s) \/ NetLockReply(s)
Watchdog(s) == \E i \in Slots : WdgStart(s, i) \/ WdgWake(s, i)

Next ==
    \E s \in Sessions :
        \/ NoEffect(s) \/ Quit(s) \/ Connect(s)
        \/ \E f \in Files : NetLockStart(s, f) \/ NetLockTry(s, f)
                            \/ OtherUse(s, f)
        \/ Serve(s)
        \/ \E i \in Slots : NetUnlock(s, i)
        \/ Watchdog(s)
        \/ \E n \in stale[s] : StaleWake(s, n)

Spec == Init /\ [][Next]_vars

(* Sessions and their watchdog threads are scheduled, sleep() ends, and    *)
(* the kernel does not starve a waiter.  Nothing makes a client act.       *)
FairSpec ==
    /\ Spec
    /\ \A s \in Sessions :
          /\ SF_vars(NetLockGet(s)) /\ WF_vars(Serve(s))
          /\ \A i \in Slots : WF_vars(WdgStart(s, i) \/ WdgWake(s, i))

-----------------------------------------------------------------------------
(* A lock that netlock_switch() has granted and cmd_netunlock() has not    *)
(* released is a lock its process owns, if its client uses the file with   *)
(* no other command meanwhile, whatever the other clients do.              *)
GrantedIsOwned ==
    \A s \in Sessions \ FreeUse : \A f \in Has(s) : owner[f] = s

(* A lock belongs to a session that can still unlock it, or whose watchdog *)
(* will end it: no lock is left behind by cmd_netunlock() or by a failure. *)
NoOrphanLock ==
    \A f \in Files : owner[f] # NoProc =>
        LET s == owner[f]
        IN  /\ pc[s] \in Live
            /\ \E i \in Slots : /\ tab[s][i].file = f
                                /\ tab[s][i].wdg # "none"

(* netlock_wdg() ends a session only if nothing was read from or written   *)
(* to its network since the watchdog looked last.                          *)
OnlyIdleExpires ==
    [][\A s \in Sessions :
          pc[s] # "expired" /\ pc'[s] = "expired" =>
              \E i \in Slots : /\ tab[s][i].wdg = "armed"
                               /\ tab[s][i].seen = io[s]]_vars

(* The blocking NETLOCK does not wait for ever on silent clients, also     *)
(* when sessions wait for each other.                                      *)
WaitEnds == \A s \in Sessions : pc[s] = "waiting" ~> pc[s] # "waiting"
=============================================================================
