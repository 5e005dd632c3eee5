--------------------------- MODULE NetLockProofs ----------------------------
(***************************************************************************)
(* Proofs about NetLock, for any sessions and files, tables of any length  *)
(* and a counter comm.act that wraps anywhere.                             *)
(***************************************************************************)
EXTENDS NetLock, TLAPS

Entries == [used : BOOLEAN, file : Files, wdg : {"none", "starting", "armed"},
            seen : Nat]

(* The lock owners, the sessions and their tables are well formed.         *)
Typed ==
    /\ owner \in [Files -> Sessions \cup {NoProc}]
    /\ pc \in [Sessions -> Live \cup {"quit", "expired"}]
    /\ want \in [Sessions -> [slot : Slots, file : Files]]
    /\ tab \in [Sessions -> [Slots -> Entries]]
    /\ io \in [Sessions -> Nat]

Uses(s, i, f) == tab[s][i].used /\ tab[s][i].file = f

(* A NETLOCK under way has an entry that is not used, for a file that its  *)
(* client has not locked; once it has the lock, the entry is of that file  *)
(* and has a watchdog.                                                     *)
Pending(s) ==
    /\ pc[s] \in {"waiting", "locked"} =>
          /\ ~tab[s][want[s].slot].used
          /\ s \notin FreeUse =>
                \A i \in Slots : ~Uses(s, i, want[s].file)
    /\ pc[s] = "locked" =>
          /\ owner[want[s].file] = s
          /\ tab[s][want[s].slot].file = want[s].file
          /\ tab[s][want[s].slot].wdg # "none"

(* Every used entry has a watchdog, and so has no other but the one that   *)
(* is about to be used; a file is in one entry only; a session that has    *)
(* ended has none.                                                         *)
Table(s) ==
    /\ \A i \in Slots :
          /\ tab[s][i].used => tab[s][i].wdg # "none"
          /\ ~tab[s][i].used /\ tab[s][i].wdg # "none" =>
                pc[s] = "locked" /\ i = want[s].slot
    /\ s \notin FreeUse =>
          \A i, j \in Slots : \A f \in Files :
             Uses(s, i, f) /\ Uses(s, j, f) => i = j
    /\ pc[s] \notin Live => \A i \in Slots : ~tab[s][i].used

(* Every used entry is of a file the process has locked, and every such    *)
(* file has an entry with a watchdog.                                      *)
Owns(s) ==
    /\ s \notin FreeUse =>
          \A i \in Slots : \A f \in Files : Uses(s, i, f) => owner[f] = s
    /\ \A f \in Files : owner[f] = s =>
          /\ pc[s] \in Live
          /\ \E i \in Slots : tab[s][i].file = f /\ tab[s][i].wdg # "none"

Sound(s) == Pending(s) /\ Table(s) /\ Owns(s)
LockInv == Typed /\ \A s \in Sessions : Sound(s)

-----------------------------------------------------------------------------
(* There is a file and an entry, so that an empty entry is well formed.    *)
LEMMA EmptyType == AnyFile \in Files /\ 0 \in Slots /\ Empty \in Entries
<1>1. AnyFile \in Files
  BY NetLockAssumption DEF AnyFile
<1>2. 0 \in Slots
  BY NetLockAssumption DEF Slots
<1> QED  BY <1>1, <1>2 DEF Empty, Entries

(* A daemon that has just started has no locks.                            *)
LEMMA LockInit == Init => LockInv
<1> SUFFICES ASSUME Init PROVE LockInv
  OBVIOUS
<1>1. Typed
  BY EmptyType DEF Init, Typed, Live
<1>2. ASSUME NEW s \in Sessions
      PROVE  /\ pc[s] = "ready"
             /\ \A i \in Slots : ~tab[s][i].used /\ tab[s][i].wdg = "none"
             /\ \A f \in Files : owner[f] # s
  BY NetLockAssumption DEF Init, Empty
<1> QED
  BY <1>1, <1>2 DEF LockInv, Sound, Pending, Table, Owns, Uses, Live

(* What a step of session s may do to the locks and to the others.         *)
Frame(s) ==
    /\ \A t \in Sessions \ {s} :
          pc'[t] = pc[t] /\ want'[t] = want[t] /\ tab'[t] = tab[t]
    /\ \A f \in Files :
          owner'[f] = owner[f] \/ {owner'[f], owner[f]} \subseteq {NoProc, s}

(* Such a step concerns the session s only.                                *)
LEMMA OneSession ==
    ASSUME LockInv, NEW s \in Sessions, Typed', Frame(s), Sound(s)'
    PROVE  LockInv'
<1> SUFFICES ASSUME NEW t \in Sessions \ {s} PROVE Sound(t)'
  BY DEF LockInv
<1>1. \A f \in Files : owner'[f] = t <=> owner[f] = t
  BY NetLockAssumption DEF Frame
<1>2. want[t].file \in Files
  BY DEF LockInv, Typed
<1>3. Pending(t)'
  BY <1>1, <1>2 DEF LockInv, Sound, Pending, Frame, Uses
<1>4. Table(t)'
  BY DEF LockInv, Sound, Table, Frame, Uses
<1>5. Owns(t)'
  BY <1>1 DEF LockInv, Sound, Owns, Frame, Uses
<1> QED  BY <1>3, <1>4, <1>5 DEF Sound

-----------------------------------------------------------------------------
(* The files in the table, one by one.                                     *)
LEMMA HasUses ==
    ASSUME NEW s \in Sessions, NEW f
    PROVE  f \in Has(s) <=> \E i \in Slots : Uses(s, i, f)
  BY DEF Has, Uses

(* A step that changes neither locks nor tables.                           *)
LEMMA SameStep ==
    ASSUME LockInv, Typed', UNCHANGED <<owner, pc, want, tab>>
    PROVE  LockInv'
  BY DEF LockInv, Sound, Pending, Table, Owns, Uses

(* The counter of the network stays a number.                              *)
LEMMA IoType ==
    ASSUME Typed, NEW s \in Sessions, Received(s) \/ Answered(s)
    PROVE  io' \in [Sessions -> Nat]
  BY DEF Typed, Received, Answered

(* The end of the process of s, wherever it was.                           *)
LEMMA ExitStep ==
    ASSUME LockInv, NEW s \in Sessions, NEW why \in {"quit", "expired"},
           Exit(s, why)
    PROVE  LockInv'
<1>1. Typed'
  BY EmptyType DEF LockInv, Typed, Exit, Fresh, RL!AfterExit
<1>2. /\ pc'[s] = why /\ \A i \in Slots : tab'[s][i] = Empty
      /\ \A f \in Files : owner'[f] # s
  BY NetLockAssumption DEF LockInv, Typed, Exit, Fresh, RL!AfterExit
<1>3. Frame(s)
  BY DEF LockInv, Typed, Exit, Fresh, RL!AfterExit, Frame
<1>4. Sound(s)'
  BY <1>2 DEF Sound, Pending, Table, Owns, Uses, Live, Empty
<1> QED  BY <1>1, <1>3, <1>4, OneSession

(* A NETLOCK that waits, with the entry i and the file f.                  *)
LEMMA StartStep ==
    ASSUME LockInv, NEW s \in Sessions, NEW f \in Files, NetLockStart(s, f)
    PROVE  LockInv'
<1>1. PICK i \in Slots : /\ FirstUnused(s, i)
                         /\ want' = [want EXCEPT ![s] =
                                       [slot |-> i, file |-> f]]
  BY Zenon DEF NetLockStart
<1>2. Typed'
  BY <1>1, IoType DEF LockInv, Typed, NetLockStart, Live
<1>3. /\ pc[s] = "ready" /\ pc'[s] = "waiting" /\ UNCHANGED <<owner, tab>>
      /\ want'[s].slot = i /\ want'[s].file = f /\ ~tab[s][i].used
      /\ s \notin FreeUse => \A j \in Slots : ~Uses(s, j, f)
  BY <1>1, HasUses
     DEF LockInv, Typed, NetLockStart, Command, FirstUnused
<1>4. Frame(s)
  BY <1>1, <1>3 DEF NetLockStart, LockInv, Typed, Frame
<1>5. Sound(s)
  BY DEF LockInv
<1>6. Sound(s)'
  BY <1>3, <1>5 DEF Sound, Pending, Table, Owns, Uses, Live
<1> QED  BY <1>2, <1>4, <1>6, OneSession

(* crtlock() returned 0 for the entry i and the file f.                    *)
LEMMA GetStep ==
    ASSUME LockInv, NEW s \in Sessions, NEW f \in Files, NEW i \in Slots,
           pc[s] \in {"ready", "waiting"}, ~tab[s][i].used,
           s \notin FreeUse => \A j \in Slots : ~Uses(s, j, f),
           RL!Lockable(owner, f, s), owner' = RL!Locked(owner, f, s),
           Watch(s, i, f), pc' = [pc EXCEPT ![s] = "locked"],
           want'[s].slot = i, want'[s].file = f,
           want' \in [Sessions -> [slot : Slots, file : Files]],
           \A t \in Sessions \ {s} : want'[t] = want[t],
           io' \in [Sessions -> Nat]
    PROVE  LockInv'
<1> DEFINE e == [used |-> FALSE, file |-> f, wdg |-> "starting", seen |-> 0]
<1>1. e \in Entries
  BY DEF Entries
<1>2. /\ tab' \in [Sessions -> [Slots -> Entries]]
      /\ tab'[s][i] = e /\ \A j \in Slots \ {i} : tab'[s][j] = tab[s][j]
      /\ \A t \in Sessions \ {s} : tab'[t] = tab[t]
  BY <1>1 DEF LockInv, Typed, Watch
<1>3. Typed'
  BY <1>2, Zenon DEF LockInv, Typed, Live, RL!Locked
<1>4. /\ pc'[s] = "locked" /\ owner'[f] = s
      /\ \A g \in Files \ {f} : owner'[g] = owner[g]
  BY DEF LockInv, Typed, RL!Locked
<1>5. Frame(s)
  BY <1>2, <1>4 DEF LockInv, Typed, Frame, RL!Lockable
<1>6. Sound(s)
  BY DEF LockInv
<1>7. /\ \A j \in Slots : tab'[s][j].used <=> (tab[s][j].used /\ j # i)
      /\ \A j \in Slots \ {i} : \A g \in Files : Uses(s, j, g)' <=> Uses(s, j, g)
      /\ \A g \in Files : ~Uses(s, i, g)'
  BY <1>2 DEF Uses
<1>8. \A j \in Slots : ~tab[s][j].used => tab[s][j].wdg = "none"
  BY <1>6 DEF Sound, Table
<1>9. Pending(s)'
  BY <1>2, <1>4, <1>7 DEF Pending
<1>10. Table(s)'
  <2>1. ASSUME NEW j \in Slots
        PROVE  /\ tab'[s][j].used => tab'[s][j].wdg # "none"
               /\ ~tab'[s][j].used /\ tab'[s][j].wdg # "none" => j = i
    BY <1>2, <1>6, <1>7, <1>8 DEF Sound, Table
  <2>2. s \notin FreeUse =>
          \A j, k \in Slots : \A g \in Files :
             Uses(s, j, g)' /\ Uses(s, k, g)' => j = k
    BY <1>6, <1>7 DEF Sound, Table
  <2> QED  BY <1>4, <2>1, <2>2 DEF Table, Live
<1>11. Owns(s)'
  <2>1. s \notin FreeUse =>
          \A j \in Slots : \A g \in Files : Uses(s, j, g)' => owner'[g] = s
    BY <1>4, <1>6, <1>7 DEF Sound, Owns
  <2>2. ASSUME NEW g \in Files, owner'[g] = s
        PROVE  \E j \in Slots : tab'[s][j].file = g /\ tab'[s][j].wdg # "none"
    <3>1. CASE g = f
      BY <1>2, <3>1
    <3>2. CASE g # f
      <4>1. PICK j \in Slots : tab[s][j].file = g /\ tab[s][j].wdg # "none"
        BY <1>4, <1>6, <2>2, <3>2 DEF Sound, Owns
      <4> QED  BY <1>2, <1>8, <4>1, SMTT(30)
    <3> QED  BY <3>1, <3>2
  <2> QED  BY <1>4, <2>1, <2>2 DEF Owns, Live
<1> QED  BY <1>3, <1>5, <1>9, <1>10, <1>11, OneSession DEF Sound

(* The entry of a NETLOCK that has its lock becomes a used one.            *)
LEMMA ReplyStep ==
    ASSUME LockInv, NEW s \in Sessions, NetLockReply(s)
    PROVE  LockInv'
<1> DEFINE i == want[s].slot
           f == want[s].file
<1>1. i \in Slots /\ f \in Files
  BY DEF LockInv, Typed
<1>2. Sound(s)
  BY DEF LockInv
<1>3. /\ tab' \in [Sessions -> [Slots -> Entries]]
      /\ tab'[s][i].used /\ tab'[s][i].file = tab[s][i].file
      /\ tab'[s][i].wdg = tab[s][i].wdg
      /\ \A j \in Slots \ {i} : tab'[s][j] = tab[s][j]
      /\ \A t \in Sessions \ {s} : tab'[t] = tab[t]
  <2>1. tab[s][i] \in Entries
    BY <1>1 DEF LockInv, Typed
  <2> DEFINE e == [tab[s][i] EXCEPT !.used = TRUE]
  <2>2. /\ e \in Entries /\ e.used /\ e.file = tab[s][i].file
        /\ e.wdg = tab[s][i].wdg
    BY <2>1, Zenon DEF Entries
  <2>3. tab' = [tab EXCEPT ![s][i] = e]
    BY DEF NetLockReply
  <2> HIDE DEF e, i
  <2> QED  BY <1>1, <2>2, <2>3 DEF LockInv, Typed
<1>4. Typed'
  BY <1>3, IoType DEF LockInv, Typed, NetLockReply, Live
<1>5. /\ pc[s] = "locked" /\ pc'[s] = "ready" /\ UNCHANGED <<owner, want>>
      /\ \A t \in Sessions \ {s} : pc'[t] = pc[t]
  BY DEF LockInv, Typed, NetLockReply
<1>6. Frame(s)
  BY <1>3, <1>5 DEF Frame
<1>7. owner[f] = s /\ tab[s][i].file = f /\ tab[s][i].wdg # "none"
      /\ ~tab[s][i].used /\ (s \notin FreeUse => \A j \in Slots : ~Uses(s, j, f))
  BY <1>2, <1>5 DEF Sound, Pending
<1> HIDE DEF i, f
<1>8. Pending(s)'
  BY <1>5 DEF Pending
<1>9. Table(s)'
  <2>1. \A j \in Slots : /\ tab'[s][j].wdg # "none" <=> tab'[s][j].used
    <3>1. i \in Slots
      BY <1>1 DEF i
    <3>2. ASSUME NEW j \in Slots, j # i
          PROVE  tab'[s][j].wdg # "none" <=> tab'[s][j].used
      BY <1>2, <1>3, <3>2, SMTT(30) DEF Sound, Table, i
    <3>3. tab'[s][i].wdg # "none" /\ tab'[s][i].used
      BY <1>3, <1>7 DEF i
    <3> QED  BY <3>2, <3>3
  <2>2. ASSUME s \notin FreeUse, NEW j \in Slots, NEW k \in Slots,
               NEW g \in Files, Uses(s, j, g)', Uses(s, k, g)'
        PROVE  j = k
    BY <1>2, <1>3, <1>7, <2>2 DEF Sound, Table, Uses
  <2> QED  BY <1>5, <2>1, <2>2 DEF Table, Live
<1>10. Owns(s)'
  <2>1. ASSUME s \notin FreeUse, NEW j \in Slots, NEW g \in Files,
               Uses(s, j, g)'
        PROVE  owner[g] = s
    BY <1>2, <1>3, <1>7, <2>1 DEF Sound, Owns, Uses
  <2>2. \A g \in Files : owner[g] = s =>
          \E j \in Slots : tab'[s][j].file = g /\ tab'[s][j].wdg # "none"
    BY <1>2, <1>3 DEF Sound, Owns
  <2> QED  BY <1>5, <2>1, <2>2 DEF Owns, Live
<1> QED  BY <1>4, <1>6, <1>8, <1>9, <1>10, OneSession DEF Sound

(* NETUNLOCK empties the entry and gives up the lock of its file, and that *)
(* file is in no other entry.                                              *)
LEMMA UnlockStep ==
    ASSUME LockInv, NEW s \in Sessions, NEW i \in Slots, NetUnlock(s, i)
    PROVE  LockInv'
<1> DEFINE f == tab[s][i].file
<1>1. f \in Files
  BY DEF LockInv, Typed, Entries
<1>2. Sound(s)
  BY DEF LockInv
<1>3. /\ tab' \in [Sessions -> [Slots -> Entries]]
      /\ tab'[s][i] = Empty
      /\ \A j \in Slots \ {i} : tab'[s][j] = tab[s][j]
      /\ \A t \in Sessions \ {s} : tab'[t] = tab[t]
  BY EmptyType DEF LockInv, Typed, NetUnlock
<1>4. /\ owner' \in [Files -> Sessions \cup {NoProc}]
      /\ owner'[f] = IF owner[f] = s THEN NoProc ELSE owner[f]
      /\ \A g \in Files \ {f} : owner'[g] = owner[g]
  BY <1>1 DEF LockInv, Typed, NetUnlock, RL!AfterClose, RL!Unlocked
<1>5. /\ pc[s] = "ready" /\ tab[s][i].used /\ UNCHANGED <<pc, want>>
  BY DEF NetUnlock, Command
<1>6. Typed'
  BY <1>3, <1>4, <1>5, IoType DEF LockInv, Typed, NetUnlock
<1>7. Frame(s)
  BY <1>3, <1>4, <1>5, SMTT(30) DEF Frame
<1>8. /\ ~tab'[s][i].used /\ tab'[s][i].wdg = "none"
      /\ \A g \in Files : ~Uses(s, i, g)'
      /\ \A j \in Slots \ {i} : \A g \in Files : Uses(s, j, g)' <=> Uses(s, j, g)
      /\ Uses(s, i, f)
  BY <1>3, <1>5 DEF Empty, Uses
<1> HIDE DEF f
<1>9. Pending(s)'
  BY <1>5 DEF Pending
<1>10. Table(s)'
  <2>1. ASSUME NEW j \in Slots
        PROVE  /\ tab'[s][j].used => tab'[s][j].wdg # "none"
               /\ ~tab'[s][j].used => tab'[s][j].wdg = "none"
    BY <1>2, <1>3, <1>5, <1>8, SMTT(30) DEF Sound, Table
  <2>2. s \notin FreeUse =>
          \A j, k \in Slots : \A g \in Files :
             Uses(s, j, g)' /\ Uses(s, k, g)' => j = k
    BY <1>2, <1>8 DEF Sound, Table
  <2> QED  BY <1>5, <2>1, <2>2 DEF Table, Live
<1>11. Owns(s)'
  <2>1. ASSUME s \notin FreeUse, NEW j \in Slots, NEW g \in Files,
               Uses(s, j, g)'
        PROVE  owner'[g] = s
    <3>1. j # i /\ Uses(s, j, g)
      BY <1>8, <2>1
    <3>2. g # f
      BY <1>1, <1>2, <1>8, <2>1, <3>1 DEF Sound, Table
    <3> QED  BY <1>2, <1>4, <2>1, <3>1, <3>2 DEF Sound, Owns
  <2>2. ASSUME NEW g \in Files, owner'[g] = s
        PROVE  \E j \in Slots : tab'[s][j].file = g /\ tab'[s][j].wdg # "none"
    <3>1. g # f /\ owner[g] = s
      BY <1>4, <2>2, NetLockAssumption
    <3>2. PICK j \in Slots : tab[s][j].file = g /\ tab[s][j].wdg # "none"
      BY <1>2, <3>1 DEF Sound, Owns
    <3>3. j # i
      BY <3>1, <3>2 DEF f
    <3> QED  BY <1>3, <3>2, <3>3
  <2> QED  BY <1>5, <2>1, <2>2 DEF Owns, Live
<1> QED  BY <1>6, <1>7, <1>9, <1>10, <1>11, OneSession DEF Sound

(* A watchdog that looks at the activity stays one.                        *)
LEMMA WatchStep ==
    ASSUME LockInv, NEW s \in Sessions, NEW i \in Slots,
           tab[s][i].wdg # "none", UNCHANGED <<owner, pc, want, io>>,
           NEW e \in Entries, e.used = tab[s][i].used,
           e.file = tab[s][i].file, e.wdg # "none",
           tab' = [tab EXCEPT ![s][i] = e]
    PROVE  LockInv'
<1>1. /\ tab' \in [Sessions -> [Slots -> Entries]] /\ tab'[s][i] = e
      /\ \A j \in Slots \ {i} : tab'[s][j] = tab[s][j]
      /\ \A t \in Sessions \ {s} : tab'[t] = tab[t]
  BY DEF LockInv, Typed
<1>2. Typed' /\ Frame(s)
  BY <1>1 DEF LockInv, Typed, Frame
<1>3. \A j \in Slots : /\ tab'[s][j].used = tab[s][j].used
                       /\ tab'[s][j].file = tab[s][j].file
                       /\ tab'[s][j].wdg = "none" <=> tab[s][j].wdg = "none"
  BY <1>1
<1>4. want[s].slot \in Slots /\ Sound(s)
  BY DEF LockInv, Typed
<1>5. Sound(s)'
  <2>1. Pending(s)'
    BY <1>3, <1>4 DEF Sound, Pending, Uses
  <2>2. Table(s)'
    BY <1>3, <1>4 DEF Sound, Table, Uses
  <2>3. Owns(s)'
    BY <1>3, <1>4 DEF Sound, Owns, Uses
  <2> QED  BY <2>1, <2>2, <2>3 DEF Sound
<1> QED  BY <1>2, <1>5, OneSession

(* The fields of an entry that a watchdog has looked at.                   *)
LEMMA SeenType ==
    ASSUME NEW e \in Entries, NEW n \in Nat
    PROVE  /\ [e EXCEPT !.wdg = "armed", !.seen = n] \in Entries
           /\ [e EXCEPT !.wdg = "armed", !.seen = n].used = e.used
           /\ [e EXCEPT !.wdg = "armed", !.seen = n].file = e.file
           /\ [e EXCEPT !.wdg = "armed", !.seen = n].wdg = "armed"
           /\ [e EXCEPT !.seen = n] \in Entries
           /\ [e EXCEPT !.seen = n].used = e.used
           /\ [e EXCEPT !.seen = n].file = e.file
           /\ [e EXCEPT !.seen = n].wdg = e.wdg
<1> DEFINE a == [e EXCEPT !.wdg = "armed"]
<1>1. a \in Entries /\ a.used = e.used /\ a.file = e.file /\ a.wdg = "armed"
  BY DEF Entries
<1>2. ASSUME NEW d \in Entries
      PROVE  /\ [d EXCEPT !.seen = n] \in Entries
             /\ [d EXCEPT !.seen = n].used = d.used
             /\ [d EXCEPT !.seen = n].file = d.file
             /\ [d EXCEPT !.seen = n].wdg = d.wdg
  BY DEF Entries
<1> HIDE DEF a
<1>3. /\ [a EXCEPT !.seen = n] \in Entries
      /\ [a EXCEPT !.seen = n].used = e.used
      /\ [a EXCEPT !.seen = n].file = e.file
      /\ [a EXCEPT !.seen = n].wdg = "armed"
  BY <1>1, <1>2
<1>4. [e EXCEPT !.wdg = "armed", !.seen = n] = [a EXCEPT !.seen = n]
  BY SMTT(30) DEF a
<1> QED  BY <1>2, <1>3, <1>4

-----------------------------------------------------------------------------
(* No step of a command, of a watchdog or of a client breaks the           *)
(* invariant.                                                              *)
LEMMA LockStep == LockInv /\ [Next]_vars => LockInv'
<1> SUFFICES ASSUME LockInv, [Next]_vars PROVE LockInv'
  OBVIOUS
<1>0. Typed
  BY DEF LockInv
<1>1. ASSUME NEW s \in Sessions, NoEffect(s) PROVE LockInv'
  BY <1>0, <1>1, IoType, SameStep DEF NoEffect, Typed
<1>2. ASSUME NEW s \in Sessions, Quit(s) PROVE LockInv'
  BY <1>2, ExitStep DEF Quit
<1>3. ASSUME NEW s \in Sessions, Connect(s) PROVE LockInv'
  <2>1. Typed' /\ Frame(s)
    BY <1>0, <1>3 DEF Connect, Typed, Frame, Live
  <2>2. pc[s] \notin Live /\ pc'[s] = "ready" /\ UNCHANGED <<owner, want, tab>>
    BY <1>0, <1>3 DEF Connect, Typed
  <2>3. Sound(s)
    BY SMTT(30) DEF LockInv
  <2>4. Sound(s)'
    BY <2>2, <2>3 DEF Sound, Pending, Table, Owns, Uses, Live
  <2> QED  BY <2>1, <2>4, OneSession
<1>4. ASSUME NEW s \in Sessions, NEW f \in Files, NetLockStart(s, f)
      PROVE LockInv'
  BY <1>4, StartStep
<1>5. ASSUME NEW s \in Sessions, NEW f \in Files, NetLockTry(s, f)
      PROVE LockInv'
  <2>1. PICK i \in Slots :
          /\ FirstUnused(s, i)
          /\ IF RL!Lockable(owner, f, s)
             THEN /\ owner' = RL!Locked(owner, f, s)
                  /\ Watch(s, i, f)
                  /\ want' = [want EXCEPT ![s] = [slot |-> i, file |-> f]]
                  /\ pc' = [pc EXCEPT ![s] = "locked"]
                  /\ Received(s)
             ELSE UNCHANGED <<owner, pc, want, tab>> /\ Answered(s)
    BY <1>5, SMTT(30) DEF NetLockTry
  <2>2. /\ pc[s] = "ready" /\ ~tab[s][i].used
        /\ s \notin FreeUse => \A j \in Slots : ~Uses(s, j, f)
    BY <1>5, <2>1, HasUses DEF NetLockTry, Command, FirstUnused
  <2>3. CASE RL!Lockable(owner, f, s)
    <3>1. /\ want' \in [Sessions -> [slot : Slots, file : Files]]
          /\ want'[s].slot = i /\ want'[s].file = f
          /\ \A t \in Sessions \ {s} : want'[t] = want[t]
      <4> DEFINE w == [slot |-> i, file |-> f]
      <4>1. w \in [slot : Slots, file : Files] /\ w.slot = i /\ w.file = f
        OBVIOUS
      <4>2. want' = [want EXCEPT ![s] = w]
        BY <2>1, <2>3
      <4> HIDE DEF w
      <4> QED  BY <1>0, <4>1, <4>2 DEF Typed
    <3>2. io' \in [Sessions -> Nat]
      BY <1>0, <2>1, <2>3, IoType
    <3> QED  BY <2>1, <2>2, <2>3, <3>1, <3>2, GetStep
  <2>4. CASE ~RL!Lockable(owner, f, s)
    BY <1>0, <2>1, <2>4, IoType, SameStep DEF Typed
  <2> QED  BY <2>3, <2>4
<1>6. ASSUME NEW s \in Sessions, NEW f \in Files, OtherUse(s, f)
      PROVE LockInv'
  <2>1. /\ owner' \in [Files -> Sessions \cup {NoProc}]
        /\ owner'[f] = IF owner[f] = s THEN NoProc ELSE owner[f]
        /\ \A g \in Files \ {f} : owner'[g] = owner[g]
        /\ UNCHANGED <<pc, want, tab>> /\ s \in FreeUse /\ pc[s] = "ready"
    BY <1>0, <1>6
       DEF OtherUse, Typed, RL!AfterClose, RL!Unlocked, Command
  <2>2. Typed' /\ Frame(s)
    BY <1>0, <1>6, <2>1, IoType DEF OtherUse, Typed, Frame
  <2>3. Sound(s)
    BY DEF LockInv
  <2>4. Sound(s)'
    <3>1. Pending(s)'
      BY <2>1, SMTT(30) DEF Pending
    <3>2. Table(s)'
      BY <2>1, <2>3 DEF Sound, Table, Uses
    <3>3. Owns(s)'
      BY <2>1, <2>3, NetLockAssumption DEF Sound, Owns, Uses
    <3> QED  BY <3>1, <3>2, <3>3 DEF Sound
  <2> QED  BY <2>2, <2>4, OneSession
<1>7. ASSUME NEW s \in Sessions, NetLockGet(s) PROVE LockInv'
  <2>1. want[s].slot \in Slots /\ want[s].file \in Files
    BY <1>0, SMTT(30) DEF Typed
  <2>2. /\ ~tab[s][want[s].slot].used /\ pc[s] = "waiting"
        /\ s \notin FreeUse => \A i \in Slots : ~Uses(s, i, want[s].file)
    BY <1>7 DEF NetLockGet, LockInv, Sound, Pending
  <2> QED  BY <1>0, <1>7, <2>1, <2>2, GetStep, Zenon DEF NetLockGet, Typed
<1>8. ASSUME NEW s \in Sessions, NetLockDeadlk(s) PROVE LockInv'
  <2>1. Typed' /\ Frame(s)
    BY <1>0, <1>8, IoType DEF NetLockDeadlk, Typed, Frame, Live
  <2>2. pc[s] = "waiting" /\ pc'[s] = "ready" /\ UNCHANGED <<owner, want, tab>>
    BY <1>0, <1>8, SMTT(30) DEF NetLockDeadlk, Typed
  <2>3. Sound(s)
    BY DEF LockInv
  <2>4. Sound(s)'
    BY <2>2, <2>3 DEF Sound, Pending, Table, Owns, Uses, Live
  <2> QED  BY <2>1, <2>4, OneSession
<1>9. ASSUME NEW s \in Sessions, NetLockReply(s) PROVE LockInv'
  BY <1>9, ReplyStep
<1>10. ASSUME NEW s \in Sessions, NEW i \in Slots, NetUnlock(s, i)
       PROVE LockInv'
  BY <1>10, UnlockStep
<1>11. ASSUME NEW s \in Sessions, NEW i \in Slots,
              WdgStart(s, i) \/ WdgWake(s, i)
       PROVE LockInv'
  <2>1. tab[s][i] \in Entries /\ io[s] \in Nat
    BY <1>0 DEF Typed
  <2>2. CASE Exit(s, "expired")
    BY <2>2, ExitStep
  <2>3. CASE WdgStart(s, i)
    <3> DEFINE e == [tab[s][i] EXCEPT !.wdg = "armed", !.seen = io[s]]
    <3>1. /\ e \in Entries /\ e.used = tab[s][i].used
          /\ e.file = tab[s][i].file /\ e.wdg # "none"
      BY <2>1, SeenType, Zenon
    <3>2. /\ tab' = [tab EXCEPT ![s][i] = e] /\ tab[s][i].wdg = "starting"
          /\ UNCHANGED <<owner, pc, want, io>>
      BY <2>3, Zenon DEF WdgStart
    <3> HIDE DEF e
    <3> QED  BY <3>1, <3>2, WatchStep, Zenon
  <2>4. CASE WdgWake(s, i) /\ ~Exit(s, "expired")
    <3> DEFINE e == [tab[s][i] EXCEPT !.seen = io[s]]
    <3>1. /\ e \in Entries /\ e.used = tab[s][i].used
          /\ e.file = tab[s][i].file /\ e.wdg = tab[s][i].wdg
      BY <2>1, SeenType, Zenon
    <3>2. /\ tab' = [tab EXCEPT ![s][i] = e] /\ tab[s][i].wdg = "armed"
          /\ UNCHANGED <<owner, pc, want, io>>
      BY <2>4 DEF WdgWake
    <3> HIDE DEF e
    <3> QED  BY <3>1, <3>2, WatchStep, Zenon
  <2> QED  BY <1>11, <2>2, <2>3, <2>4
<1>12. ASSUME NEW s \in Sessions, NEW n \in stale[s], StaleWake(s, n)
       PROVE LockInv'
  <2>1. CASE Exit(s, "expired")
    BY <2>1, ExitStep
  <2>2. CASE UNCHANGED <<owner, pc, want, tab, io>>
    BY <1>0, <2>2, SameStep DEF Typed
  <2> QED  BY <1>12, <2>1, <2>2 DEF StaleWake
<1>13. CASE UNCHANGED vars
  BY <1>0, <1>13, SameStep DEF vars, Typed
<1> QED
  BY <1>1, <1>2, <1>3, <1>4, <1>5, <1>6, <1>7, <1>8, <1>9, <1>10, <1>11,
     <1>12, <1>13 DEF Next, Serve, Watchdog

(* A lock that netlock_switch() granted is owned by its process until      *)
(* cmd_netunlock(), for every number of sessions, files and entries.       *)
THEOREM Granted == Spec => []GrantedIsOwned
<1>1. LockInv => GrantedIsOwned
  BY DEF LockInv, GrantedIsOwned, Sound, Owns, Has, Uses, Typed, Entries
<1> QED  BY <1>1, LockInit, LockStep, PTL DEF Spec

(* Every lock belongs to a live session that has an entry and a watchdog   *)
(* for it: cmd_netunlock() can release it and netlock_wdg() can end it.    *)
THEOREM NoOrphan == Spec => []NoOrphanLock
<1>1. LockInv => NoOrphanLock
  BY DEF LockInv, NoOrphanLock, Sound, Owns, Typed
<1> QED  BY <1>1, LockInit, LockStep, PTL DEF Spec

-----------------------------------------------------------------------------
(* comm.act does not come round in the life of a session.                  *)
NoWrap == \A s \in Sessions : MaxIO[s] < ActMod

(* A command under way has its answer left to send; a watchdog that was    *)
(* cancelled has missed the traffic of its NETUNLOCK, a watchdog that is   *)
(* armed has seen no more than there was; a session that has ended has     *)
(* neither.                                                                *)
Counted(s) ==
    /\ io[s] <= MaxIO[s]
    /\ pc[s] \in {"waiting", "locked"} => io[s] < MaxIO[s]
    /\ \A n \in stale[s] : n < io[s]
    /\ \A i \in Slots : tab[s][i].wdg = "armed" => tab[s][i].seen <= io[s]
    /\ pc[s] \notin Live =>
          stale[s] = {} /\ \A i \in Slots : tab[s][i].wdg # "armed"

IdleInv ==
    /\ stale \in [Sessions -> SUBSET Nat]
    /\ \A s \in Sessions : Counted(s)

(* A step of s leaves what the other sessions count.                       *)
OthersCount(s) ==
    \A t \in Sessions \ {s} :
        /\ io'[t] = io[t] /\ pc'[t] = pc[t]
        /\ stale'[t] = stale[t] /\ tab'[t] = tab[t]

LEMMA OneCounts ==
    ASSUME IdleInv, NEW s \in Sessions, stale' \in [Sessions -> SUBSET Nat],
           OthersCount(s), Counted(s)'
    PROVE  IdleInv'
<1> SUFFICES ASSUME NEW t \in Sessions \ {s} PROVE Counted(t)'
  BY DEF IdleInv
<1>1. Counted(t) /\ MaxIO[t]' = MaxIO[t] /\ Slots' = Slots
  BY DEF IdleInv, Slots
<1> QED  BY <1>1 DEF OthersCount, Counted

(* Traffic of s, with watchdogs that look at nothing meanwhile.            *)
LEMMA Traffics ==
    ASSUME Typed, IdleInv, NEW s \in Sessions, NEW n \in {0, 1, 2},
           io' = [io EXCEPT ![s] = @ + n], UNCHANGED stale,
           io[s] + n <= MaxIO[s],
           pc'[s] \in {"waiting", "locked"} => io[s] + n < MaxIO[s],
           pc[s] \in Live, pc'[s] \in Live,
           \A t \in Sessions \ {s} : pc'[t] = pc[t] /\ tab'[t] = tab[t],
           \A i \in Slots : tab'[s][i].wdg = "armed" =>
              tab'[s][i].seen = io[s]
              \/ (tab[s][i].wdg = "armed" /\ tab'[s][i].seen = tab[s][i].seen)
    PROVE  IdleInv'
<1>1. io[s] \in Nat /\ io'[s] = io[s] + n /\ MaxIO[s] \in Nat
  BY NetLockAssumption, Zenon DEF Typed
<1>2. OthersCount(s)
  BY DEF OthersCount, Typed
<1>3. Counted(s) /\ stale' \in [Sessions -> SUBSET Nat]
      /\ stale[s] \in SUBSET Nat
  BY DEF IdleInv
<1>4. \A i \in Slots : tab[s][i].seen \in Nat
  BY DEF Typed, Entries
<1>5. ASSUME NEW m \in stale[s] PROVE m < io'[s]
  BY <1>1, <1>3, SMTT(30) DEF Counted
<1>6. ASSUME NEW i \in Slots, tab'[s][i].wdg = "armed"
      PROVE  tab'[s][i].seen <= io'[s]
  BY <1>1, <1>3, <1>4, <1>6 DEF Counted
<1>7. Counted(s)'
  BY <1>1, <1>5, <1>6 DEF Counted
<1> QED  BY <1>2, <1>3, <1>7, OneCounts

(* The end of the process leaves no watchdog.                              *)
LEMMA ExitCounts ==
    ASSUME Typed, IdleInv, NEW s \in Sessions, NEW why \in {"quit", "expired"},
           Exit(s, why)
    PROVE  IdleInv'
<1>1. /\ pc'[s] = why /\ io' = io /\ stale'[s] = {}
      /\ \A i \in Slots : tab'[s][i] = Empty
      /\ stale' \in [Sessions -> SUBSET Nat] /\ OthersCount(s)
  BY DEF Typed, IdleInv, Exit, Fresh, OthersCount
<1>2. Counted(s)
  BY DEF IdleInv
<1>3. Empty.wdg # "armed"
  BY SMTT(30) DEF Empty
<1>4. Counted(s)'
  BY <1>1, <1>2, <1>3 DEF Counted, Live
<1> QED  BY <1>1, <1>4, OneCounts, SMTT(30)

(* crtlock() returned 0: the entry's watchdog has not looked yet.          *)
LEMMA WatchCounts ==
    ASSUME Typed, NEW s \in Sessions, NEW i \in Slots, NEW f \in Files,
           Watch(s, i, f)
    PROVE  /\ \A t \in Sessions \ {s} : tab'[t] = tab[t]
           /\ \A j \in Slots : tab'[s][j].wdg = "armed" =>
                 tab[s][j].wdg = "armed" /\ tab'[s][j].seen = tab[s][j].seen
<1>1. /\ \A t \in Sessions \ {s} : tab'[t] = tab[t]
      /\ \A j \in Slots \ {i} : tab'[s][j] = tab[s][j]
      /\ tab'[s][i].wdg = "starting"
  BY SMTT(30) DEF Typed, Watch
<1> QED  BY <1>1

(* No step lets a watchdog know more than there was.                       *)
LEMMA IdleStep == LockInv /\ IdleInv /\ [Next]_vars => IdleInv'
<1> SUFFICES ASSUME LockInv, IdleInv, [Next]_vars PROVE IdleInv'
  OBVIOUS
<1>0. Typed /\ MaxIO \in [Sessions -> Nat] /\ "ready" \in Live
      /\ "waiting" \in Live /\ "locked" \in Live
  BY NetLockAssumption DEF LockInv, Live
<1>1. ASSUME NEW s \in Sessions PROVE io[s] \in Nat /\ io[s] + 0 = io[s]
  BY <1>0 DEF Typed
<1>2. ASSUME NEW s \in Sessions, Command(s)
      PROVE  /\ pc[s] = "ready" /\ io[s] + 2 <= MaxIO[s]
             /\ io[s] + 1 <= MaxIO[s] /\ io[s] + 1 < MaxIO[s]
  BY <1>0, <1>1, <1>2, SMTT(30) DEF Command
<1>3. ASSUME NEW s \in Sessions, NoEffect(s) \/ \E f \in Files : OtherUse(s, f)
      PROVE IdleInv'
  BY <1>0, <1>2, <1>3, Traffics DEF NoEffect, OtherUse, Answered
<1>4. ASSUME NEW s \in Sessions, Quit(s) PROVE IdleInv'
  BY <1>0, <1>4, ExitCounts DEF Quit
<1>5. ASSUME NEW s \in Sessions, Connect(s) PROVE IdleInv'
  <2>1. /\ pc'[s] = "ready" /\ io'[s] = 0 /\ OthersCount(s)
        /\ UNCHANGED <<stale, tab>> /\ pc[s] \notin Live
    BY <1>0, <1>5 DEF Connect, Typed, OthersCount
  <2>2. Counted(s) /\ stale \in [Sessions -> SUBSET Nat] /\ MaxIO[s] \in Nat
    BY <1>0 DEF IdleInv
  <2>3. Counted(s)'
    BY <1>0, <2>1, <2>2, SMTT(30) DEF Counted
  <2> QED  BY <2>1, <2>2, <2>3, OneCounts
<1>6. ASSUME NEW s \in Sessions, NEW f \in Files, NetLockStart(s, f)
      PROVE IdleInv'
  <2>1. /\ pc'[s] = "waiting" /\ \A t \in Sessions \ {s} : pc'[t] = pc[t]
        /\ io' = [io EXCEPT ![s] = @ + 1] /\ UNCHANGED <<tab, stale>>
    BY <1>0, <1>6 DEF NetLockStart, Typed, Received
  <2> QED  BY <1>0, <1>2, <1>6, <2>1, Traffics, Zenon DEF NetLockStart
<1>7. ASSUME NEW s \in Sessions, NEW f \in Files, NetLockTry(s, f)
      PROVE IdleInv'
  <2>1. CASE UNCHANGED <<pc, tab, stale>> /\ Answered(s)
    BY <1>0, <1>2, <1>7, <2>1, Traffics, Zenon DEF NetLockTry, Answered
  <2>2. ASSUME NEW i \in Slots, Watch(s, i, f), pc' = [pc EXCEPT ![s] = "locked"],
               Received(s)
        PROVE  IdleInv'
    <3>1. /\ pc'[s] = "locked" /\ \A t \in Sessions \ {s} : pc'[t] = pc[t]
          /\ io' = [io EXCEPT ![s] = @ + 1] /\ UNCHANGED stale
      BY <1>0, <1>7, <2>2, SMTT(30) DEF NetLockTry, Typed, Received
    <3>2. /\ \A t \in Sessions \ {s} : tab'[t] = tab[t]
          /\ \A j \in Slots : tab'[s][j].wdg = "armed" =>
                tab[s][j].wdg = "armed" /\ tab'[s][j].seen = tab[s][j].seen
      BY <1>0, <2>2, WatchCounts, SMTT(30)
    <3>3. pc[s] = "ready" /\ io[s] + 1 <= MaxIO[s] /\ io[s] + 1 < MaxIO[s]
      BY <1>2, <1>7 DEF NetLockTry
    <3> QED  BY <1>0, <3>1, <3>2, <3>3, Traffics, ZenonT(40)
  <2> QED  BY <1>7, <2>1, <2>2 DEF NetLockTry
<1>8. ASSUME NEW s \in Sessions, NetLockGet(s) PROVE IdleInv'
  <2>1. /\ want[s].slot \in Slots /\ want[s].file \in Files
        /\ pc'[s] = "locked" /\ \A t \in Sessions \ {s} : pc'[t] = pc[t]
        /\ pc[s] = "waiting" /\ UNCHANGED <<stale, io>>
    BY <1>0, <1>8 DEF NetLockGet, Typed
  <2>2. io' = [io EXCEPT ![s] = @ + 0]
    BY <1>0, <1>1, <2>1 DEF Typed
  <2>3. io[s] < MaxIO[s] /\ io[s] + 0 <= MaxIO[s] /\ io[s] + 0 < MaxIO[s]
    BY <1>0, <1>1, <2>1 DEF IdleInv, Counted
  <2>4. Watch(s, want[s].slot, want[s].file)
    BY <1>8 DEF NetLockGet
  <2>5. /\ \A t \in Sessions \ {s} : tab'[t] = tab[t]
        /\ \A j \in Slots : tab'[s][j].wdg = "armed" =>
              tab[s][j].wdg = "armed" /\ tab'[s][j].seen = tab[s][j].seen
    BY <1>0, <2>1, <2>4, WatchCounts
  <2> QED  BY <1>0, <2>1, <2>2, <2>3, <2>5, Traffics, ZenonT(40)
<1>9. ASSUME NEW s \in Sessions, NetLockDeadlk(s) \/ NetLockReply(s)
      PROVE IdleInv'
  <2>1. /\ pc[s] \in {"waiting", "locked"} /\ pc'[s] = "ready"
        /\ \A t \in Sessions \ {s} : pc'[t] = pc[t]
        /\ io' = [io EXCEPT ![s] = @ + 1] /\ UNCHANGED stale
    BY <1>0, <1>9 DEF NetLockDeadlk, NetLockReply, Typed, Received
  <2>2. io[s] + 1 <= MaxIO[s]
    BY <1>0, <1>1, <2>1 DEF IdleInv, Counted
  <2>3. /\ \A t \in Sessions \ {s} : tab'[t] = tab[t]
        /\ \A j \in Slots : tab'[s][j].wdg = tab[s][j].wdg
                            /\ tab'[s][j].seen = tab[s][j].seen
    <3>1. CASE NetLockDeadlk(s)
      BY <3>1 DEF NetLockDeadlk
    <3>2. CASE NetLockReply(s)
      <4>1. /\ \A t \in Sessions \ {s} : tab'[t] = tab[t]
            /\ \A j \in Slots \ {want[s].slot} : tab'[s][j] = tab[s][j]
            /\ want[s].slot \in Slots
            /\ tab'[s][want[s].slot] = [tab[s][want[s].slot] EXCEPT !.used = TRUE]
            /\ tab[s][want[s].slot] \in Entries
        BY <1>0, <3>2, Zenon DEF NetLockReply, Typed
      <4> DEFINE e == tab[s][want[s].slot]
      <4>2. [e EXCEPT !.used = TRUE].wdg = e.wdg /\ [e EXCEPT !.used = TRUE].seen = e.seen
        <5>1. e \in Entries
          BY <4>1
        <5> HIDE DEF e
        <5> QED  BY <5>1 DEF Entries
      <4> QED  BY <4>1, <4>2, Zenon
    <3> QED  BY <1>9, <3>1, <3>2
  <2> QED  BY <1>0, <2>1, <2>2, <2>3, Traffics, Zenon
<1>10. ASSUME NEW s \in Sessions, NEW i \in Slots, NetUnlock(s, i)
       PROVE IdleInv'
  <2>1. /\ UNCHANGED pc /\ pc[s] = "ready"
        /\ \A t \in Sessions \ {s} : io'[t] = io[t] /\ tab'[t] = tab[t]
        /\ io'[s] = io[s] + 2 /\ tab'[s][i] = Empty
        /\ \A j \in Slots \ {i} : tab'[s][j] = tab[s][j]
        /\ stale' = [stale EXCEPT ![s] = @ \cup Awake(tab[s][i])]
    BY <1>0, <1>2, <1>10 DEF NetUnlock, Typed, Answered
  <2>2. Counted(s) /\ stale \in [Sessions -> SUBSET Nat]
    BY DEF IdleInv
  <2>3. \A j \in Slots : tab[s][j].seen \in Nat
    BY <1>0 DEF Typed, Entries
  <2>4. Awake(tab[s][i]) \subseteq {n \in Nat : n <= io[s]}
    BY <2>2, <2>3 DEF Awake, Counted
  <2>5. /\ stale' \in [Sessions -> SUBSET Nat]
        /\ stale'[s] = stale[s] \cup Awake(tab[s][i])
        /\ \A t \in Sessions \ {s} : stale'[t] = stale[t]
    BY <2>1, <2>2, <2>4
  <2>6. ASSUME NEW n \in stale'[s] PROVE n < io'[s]
    <3>1. n \in Nat /\ n <= io[s]
      BY <1>1, <2>2, <2>4, <2>5, SMTT(30) DEF Counted
    <3> QED  BY <1>1, <2>1, <3>1
  <2>7. ASSUME NEW j \in Slots, tab'[s][j].wdg = "armed"
        PROVE  tab'[s][j].seen <= io'[s]
    <3>1. j # i
      BY <2>1, <2>7, SMTT(30) DEF Empty
    <3> QED  BY <1>1, <2>1, <2>2, <2>3, <2>7, <3>1, SMTT(30) DEF Counted
  <2>8. Counted(s)'
    BY <1>0, <1>2, <1>10, <2>1, <2>6, <2>7, SMTT(30) DEF Counted, NetUnlock
  <2>9. OthersCount(s)
    BY <2>1, <2>5 DEF OthersCount
  <2> QED  BY <2>5, <2>8, <2>9, OneCounts, SMTT(30)
<1>11. ASSUME NEW s \in Sessions, NEW i \in Slots, NEW d,
              tab' = [tab EXCEPT ![s][i] = d],
              \/ d = [tab[s][i] EXCEPT !.wdg = "armed", !.seen = io[s]]
              \/ d = [tab[s][i] EXCEPT !.seen = io[s]],
              pc[s] \in Live, UNCHANGED <<pc, stale, io>>
       PROVE IdleInv'
  <2>1. /\ \A t \in Sessions \ {s} : tab'[t] = tab[t]
        /\ \A j \in Slots \ {i} : tab'[s][j] = tab[s][j]
        /\ tab'[s][i].seen = io[s]
    <3> DEFINE e == tab[s][i]
    <3>1. e \in Entries
      BY <1>0 DEF Typed
    <3>0. /\ tab' = [tab EXCEPT ![s][i] = d]
          /\ \/ d = [e EXCEPT !.wdg = "armed", !.seen = io[s]]
             \/ d = [e EXCEPT !.seen = io[s]]
      BY <1>11
    <3> HIDE DEF e
    <3>2. /\ \A t \in Sessions \ {s} : tab'[t] = tab[t]
          /\ \A j \in Slots \ {i} : tab'[s][j] = tab[s][j]
          /\ tab'[s][i] = d
      BY <1>0, <3>0 DEF Typed
    <3>3. /\ [e EXCEPT !.wdg = "armed", !.seen = io[s]].seen = io[s]
          /\ [e EXCEPT !.seen = io[s]].seen = io[s]
      BY <3>1 DEF Entries
    <3> QED  BY <3>0, <3>2, <3>3, Zenon
  <2>2. io' = [io EXCEPT ![s] = @ + 0]
    BY <1>0, <1>1, <1>11 DEF Typed
  <2>3. io[s] + 0 <= MaxIO[s] /\ (pc'[s] \in {"waiting", "locked"} => io[s] + 0 < MaxIO[s])
    BY <1>0, <1>1, <1>11 DEF IdleInv, Counted
  <2>4. \A j \in Slots : tab'[s][j].wdg = "armed" =>
           tab'[s][j].seen = io[s]
           \/ (tab[s][j].wdg = "armed" /\ tab'[s][j].seen = tab[s][j].seen)
    BY <2>1
  <2>5. UNCHANGED <<pc, stale>> /\ pc[s] \in Live /\ pc'[s] \in Live
    BY <1>11
  <2>6. \A t \in Sessions \ {s} : pc'[t] = pc[t] /\ tab'[t] = tab[t]
    BY <2>1, <2>5
  <2> QED  BY <1>0, <2>2, <2>3, <2>4, <2>5, <2>6, Traffics, Zenon
<1>12. ASSUME NEW s \in Sessions, Watchdog(s) PROVE IdleInv'
  <2>1. PICK i \in Slots : WdgStart(s, i) \/ WdgWake(s, i)
    BY <1>12 DEF Watchdog
  <2>2. CASE Exit(s, "expired")
    BY <1>0, <2>2, ExitCounts, SMTT(30)
  <2>3. CASE WdgStart(s, i)
    <3> DEFINE d == [tab[s][i] EXCEPT !.wdg = "armed", !.seen = io[s]]
    <3>1. /\ tab' = [tab EXCEPT ![s][i] = d]
          /\ pc[s] \in Live /\ UNCHANGED <<pc, stale, io>>
      BY <2>3, Zenon DEF WdgStart
    <3> QED  BY <1>11, <3>1, Zenon
  <2>4. CASE WdgWake(s, i) /\ ~Exit(s, "expired")
    <3> DEFINE d == [tab[s][i] EXCEPT !.seen = io[s]]
    <3>1. /\ tab' = [tab EXCEPT ![s][i] = d]
          /\ pc[s] \in Live /\ UNCHANGED <<pc, stale, io>>
      BY <2>4 DEF WdgWake
    <3> QED  BY <1>11, <3>1, Zenon
  <2> QED  BY <2>1, <2>2, <2>3, <2>4
<1>13. ASSUME NEW s \in Sessions, NEW n \in stale[s], StaleWake(s, n)
       PROVE IdleInv'
  <2>1. CASE Exit(s, "expired")
    BY <1>0, <2>1, ExitCounts
  <2>2. CASE stale' = [stale EXCEPT ![s] = @ \ {n}] /\ UNCHANGED <<pc, tab, io>>
    <3>1. /\ stale' \in [Sessions -> SUBSET Nat] /\ stale'[s] \subseteq stale[s]
          /\ OthersCount(s) /\ Counted(s)
      BY <2>2, SMTT(30) DEF IdleInv, OthersCount
    <3>2. Counted(s)'
      BY <2>2, <3>1 DEF Counted
    <3> QED  BY <3>1, <3>2, OneCounts
  <2> QED  BY <1>13, <2>1, <2>2 DEF StaleWake
<1>14. CASE UNCHANGED vars
  BY <1>14 DEF vars, IdleInv, Counted
<1> QED
  BY <1>3, <1>4, <1>5, <1>6, <1>7, <1>8, <1>9, <1>10, <1>12, <1>13, <1>14
     DEF Next, Serve

(* Nothing has been counted at first.                                      *)
LEMMA IdleInit == Init => IdleInv
<1> SUFFICES ASSUME Init PROVE IdleInv
  OBVIOUS
<1>1. ASSUME NEW s \in Sessions
      PROVE  /\ io[s] = 0 /\ pc[s] = "ready" /\ stale[s] = {}
             /\ \A i \in Slots : tab[s][i].wdg = "none"
  BY DEF Init, Empty
<1>2. MaxIO \in [Sessions -> Nat] /\ stale \in [Sessions -> SUBSET Nat]
  BY NetLockAssumption DEF Init
<1> QED  BY <1>1, <1>2 DEF IdleInv, Counted, Live

(* Below ActMod comm.act is the count itself.                              *)
LEMMA Below ==
    ASSUME NEW m \in Nat, m < ActMod
    PROVE  act(m) = m
  BY NetLockAssumption DEF act

(* What OnlyIdleExpires says of one step.                                  *)
IdleExpires ==
    \A s \in Sessions :
        pc[s] # "expired" /\ pc'[s] = "expired" =>
            \E i \in Slots : /\ tab[s][i].wdg = "armed"
                             /\ tab[s][i].seen = io[s]

(* A watchdog that finds comm.act as it left it is one that missed no      *)
(* traffic, and so not a cancelled one.                                    *)
LEMMA IdleExit == NoWrap /\ LockInv /\ IdleInv /\ Next => IdleExpires
<1> SUFFICES ASSUME NoWrap, LockInv, IdleInv, Next, NEW t \in Sessions,
                    pc[t] # "expired", pc'[t] = "expired"
             PROVE  \E i \in Slots : tab[t][i].wdg = "armed" /\ tab[t][i].seen = io[t]
  BY DEF IdleExpires
<1>0. Typed /\ MaxIO \in [Sessions -> Nat] /\ io[t] \in Nat
      /\ \A i \in Slots : tab[t][i].seen \in Nat
  BY NetLockAssumption, SMTT(30) DEF LockInv, Typed, Entries
<1>1. Counted(t) /\ stale[t] \in SUBSET Nat /\ io[t] < ActMod
  BY <1>0, NetLockAssumption, SMTT(30) DEF IdleInv, Counted, NoWrap
<1>2. PICK s \in Sessions :
        \/ NoEffect(s) \/ Quit(s) \/ Connect(s)
        \/ \E f \in Files : NetLockStart(s, f) \/ NetLockTry(s, f)
                            \/ OtherUse(s, f)
        \/ Serve(s)
        \/ \E i \in Slots : NetUnlock(s, i)
        \/ Watchdog(s)
        \/ \E n \in stale[s] : StaleWake(s, n)
  BY DEF Next
<1>3. ASSUME NEW p, pc' = [pc EXCEPT ![s] = p], p # "expired" PROVE FALSE
  BY <1>0, <1>3 DEF Typed
<1>4. pc' # pc
  OBVIOUS
<1>5. \/ \E i \in Slots : WdgWake(s, i)
      \/ \E n \in stale[s] : StaleWake(s, n)
  BY <1>2, <1>3, <1>4, Zenon
     DEF NoEffect, Quit, Exit, Connect, NetLockStart, NetLockTry, OtherUse, Serve,
         NetLockGet, NetLockDeadlk, NetLockReply, NetUnlock, Watchdog, WdgStart
<1>6. ASSUME Exit(s, "expired") PROVE s = t
  BY <1>0, <1>6, SMTT(30) DEF Exit, Typed
<1>7. CASE \E i \in Slots : WdgWake(s, i)
  <2>1. PICK i \in Slots : WdgWake(s, i)
    BY <1>7
  <2>2. /\ s = t /\ tab[t][i].wdg = "armed" /\ act(io[t]) = act(tab[t][i].seen)
    BY <1>4, <1>6, <2>1, SMTT(30) DEF WdgWake
  <2>3. tab[t][i].seen < ActMod
    BY <1>0, <1>1, <2>2, NetLockAssumption DEF Counted
  <2> QED  BY <1>0, <1>1, <2>2, <2>3, Below
<1>8. CASE \E n \in stale[s] : StaleWake(s, n)
  <2>1. PICK n \in stale[s] : StaleWake(s, n)
    BY <1>8
  <2>2. s = t /\ act(io[t]) = act(n)
    BY <1>4, <1>6, <2>1, SMTT(30) DEF StaleWake
  <2>3. n \in Nat /\ n < io[t] /\ n < ActMod
    BY <1>0, <1>1, <2>1, <2>2, NetLockAssumption DEF Counted
  <2> QED  BY <1>0, <1>1, <2>2, <2>3, Below
<1> QED  BY <1>5, <1>7, <1>8

(* While comm.act does not come round, netlock_wdg() ends no session but   *)
(* one that was silent since its watchdog looked last, however commands,   *)
(* watchdogs and watchdogs cancelled too late interleave.                  *)
THEOREM IdleEnds == NoWrap => (Spec => OnlyIdleExpires)
<1> SUFFICES ASSUME NoWrap PROVE Spec => OnlyIdleExpires
  OBVIOUS
<1>1. LockInv /\ IdleInv /\ [Next]_vars => [IdleExpires]_vars
  BY IdleExit
<1> QED
  BY <1>1, LockInit, LockStep, IdleInit, IdleStep, PTL
     DEF Spec, OnlyIdleExpires, IdleExpires
=============================================================================
