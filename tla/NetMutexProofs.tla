--------------------------- MODULE NetMutexProofs ---------------------------
(***************************************************************************)
(* Proofs about NetMutex, for any number of clients and sessions, any      *)
(* tokens that fit in what the handlers read back, and with every fault    *)
(* and every death of a process that NetMutex has; and, on top of them,    *)
(* about GuardedUpdate: INTREAD and INTWRITE under that mutex.             *)
(***************************************************************************)
EXTENDS GuardedUpdate, SequenceTheorems, TLAPS

(* The discipline under which the mutex is one: tokens are read back       *)
(* whole, and a client whose NETMUTREL is under way waits for the reply    *)
(* or for the end of the session.                                          *)
Discipline ==
    /\ "rel" \notin DropOps
    /\ \A c \in Clients : Len(Tok[c]) <= STDSTR

(* A handler that works on the file owns its lock.                         *)
LockHeld == \A s \in Sessions : h[s].pc \in InFile => owner[File] = s

(* What stat() found is still so when the handler acts on it.              *)
FreeIsFree == \A s \in Sessions : h[s].pc = "free" => content = <<>>

(* The file never holds more than is read back.                            *)
FileFits == Len(content) <= STDSTR

(* A client waits only for a session that works for it.                    *)
PendServed ==
    \A c \in Clients : pend[c] # NoProc =>
        h[pend[c]].pc # "idle" /\ h[pend[c]].cl = c

(* The client of a release waits for it, outside its critical section.     *)
RelAwaited ==
    \A s \in Sessions :
        h[s].pc # "idle" /\ h[s].op = "rel" =>
            pend[h[s].cl] = s /\ ~holding[h[s].cl]

(* A reply that will let its client in is backed by the file.              *)
OkRecorded ==
    \A s \in Sessions :
        /\ h[s].pc \in {"done", "replying"} /\ h[s].op = "acq"
        /\ h[s].rep = "ok" /\ pend[h[s].cl] = s
        => content = Tok[h[s].cl]

(* A handler that has not locked the file yet has no success to report.    *)
NotYetOk == \A s \in Sessions : h[s].pc = "opened" => h[s].rep = "fail"

SafeInv ==
    /\ LockHeld /\ FreeIsFree /\ FileFits /\ PendServed /\ RelAwaited
    /\ OkRecorded /\ HolderRecorded

IInv == TypeOK /\ NotYetOk /\ SafeInv

-----------------------------------------------------------------------------
(* A session that serves nobody is in a well-formed state.                 *)
LEMMA IdleType == Idle \in Handlers
  BY TokAssumption DEF Idle, Handlers, Ops

(* A proper prefix of a token is a string no longer than the token.        *)
LEMMA PrefixType ==
    ASSUME NEW c \in Clients, NEW n \in 0 .. Len(Tok[c]) - 1
    PROVE  /\ SubSeq(Tok[c], 1, n) \in Seq({"a", "b"})
           /\ Len(SubSeq(Tok[c], 1, n)) = n
           /\ n <= Len(Tok[c])
  <1>1. Tok[c] \in Seq({"a", "b"})
    BY TokAssumption
  <1>2. Len(Tok[c]) \in Nat
    BY <1>1, LenProperties
  <1>3. n \in Nat /\ n <= Len(Tok[c])
    BY <1>2
  <1> QED  BY <1>1, <1>2, <1>3, SubSeqProperties

(* A handler that moves on, with or without a result, is a handler.        *)
LEMMA HandlerType ==
    ASSUME h \in [Sessions -> Handlers], NEW s \in Sessions,
           NEW p \in InFile \cup {"idle", "opened", "replying"},
           NEW r \in {"ok", "fail"}
    PROVE  /\ [h EXCEPT ![s].pc = p] \in [Sessions -> Handlers]
           /\ [h EXCEPT ![s].pc = p, ![s].rep = r] \in [Sessions -> Handlers]
<1> DEFINE g == h[s]
           q == [g EXCEPT !.pc = p]
           w == [q EXCEPT !.rep = r]
<1>1. g \in Handlers
  OBVIOUS
<1>2. /\ [h EXCEPT ![s].pc = p] = [h EXCEPT ![s] = q]
      /\ [h EXCEPT ![s].pc = p, ![s].rep = r] = [h EXCEPT ![s] = w]
  BY Zenon
<1> HIDE DEF g
<1>3. q \in Handlers
  BY <1>1 DEF Handlers
<1> HIDE DEF q
<1>4. w \in Handlers
  BY <1>3 DEF Handlers
<1> HIDE DEF w
<1> QED  BY <1>2, <1>3, <1>4

(* The state of a daemon that has just started is well formed.             *)
LEMMA TypeInit == Init => TypeOK
  BY IdleType, EmptySeq, ConstAssumption, SMTT(30) DEF Init, TypeOK, File

(* No step of cmd_netmutacqtry() or cmd_netmutrel(), and no death of a     *)
(* session, breaks the types.                                              *)
LEMMA TypeStep == TypeOK /\ [Next]_vars => TypeOK'
<1> SUFFICES ASSUME TypeOK, [Next]_vars PROVE TypeOK'
  OBVIOUS
<1> USE DEF TypeOK
<1>1. ASSUME NEW c \in Clients, NEW s \in Sessions, NEW o \in Ops,
             Request(c, s, o)
      PROVE TypeOK'
  BY <1>1 DEF Request, Handlers, InFile
<1>2. ASSUME NEW s \in Sessions, Refuse(s) PROVE TypeOK'
  BY <1>2 DEF Refuse, Handlers
<1>3. ASSUME NEW s \in Sessions, Lock(s) PROVE TypeOK'
  BY <1>3, SMTT(30) DEF Lock, Handlers, InFile, RL!Locked
<1>4. ASSUME NEW s \in Sessions, Stat(s) PROVE TypeOK'
  BY <1>4, HandlerType, Zenon DEF Stat, InFile
<1>5. ASSUME NEW s \in Sessions, ReadFails(s) PROVE TypeOK'
  BY <1>5, HandlerType, Zenon DEF ReadFails, Done, InFile
<1>6. ASSUME NEW s \in Sessions, AcqWrite(s) PROVE TypeOK'
  <2>1. h[s].cl \in Clients
    BY SMTT(30) DEF Handlers
  <2>2. CASE content' = Tok[h[s].cl] /\ Done(s, "ok")
    BY <2>1, <2>2, HandlerType, TokAssumption, Zenon DEF Done, InFile
  <2>3. ASSUME NEW n \in 0 .. Len(Tok[h[s].cl]) - 1,
               content' = SubSeq(Tok[h[s].cl], 1, n), Done(s, "fail")
        PROVE TypeOK'
    BY <2>1, <2>3, HandlerType, PrefixType, Zenon DEF Done, InFile
  <2> QED  BY <1>6, <2>2, <2>3 DEF AcqWrite
<1>7. ASSUME NEW s \in Sessions, AcqRead(s) PROVE TypeOK'
  BY <1>7, HandlerType, Zenon DEF AcqRead, Done, InFile
<1>8. ASSUME NEW s \in Sessions, RelFree(s) PROVE TypeOK'
  BY <1>8, HandlerType, Zenon DEF RelFree, Done, InFile
<1>9. ASSUME NEW s \in Sessions, RelRead(s) PROVE TypeOK'
  <2>1. content' \in {content, <<>>} /\ (Done(s, "ok") \/ Done(s, "fail"))
    BY <1>9 DEF RelRead
  <2>2. content' \in Seq({"a", "b"})
    BY <2>1, EmptySeq, Zenon
  <2>3. CASE Done(s, "ok")
    BY <2>2, <2>3, HandlerType, Zenon DEF Done, InFile
  <2>4. CASE Done(s, "fail")
    BY <2>2, <2>4, HandlerType, Zenon DEF Done, InFile
  <2> QED  BY <2>1, <2>3, <2>4
<1>10. ASSUME NEW s \in Sessions, Unlock(s) PROVE TypeOK'
  <2>1. h' \in [Sessions -> Handlers]
    BY <1>10, HandlerType, Zenon DEF Unlock
  <2>2. owner' \in [{File} -> Sessions \cup {NoProc}]
    BY <1>10 DEF Unlock, RL!AfterClose, RL!Unlocked
  <2> QED  BY <1>10, <2>1, <2>2, SMTT(30) DEF Unlock
<1>11. ASSUME NEW s \in Sessions, Reply(s) PROVE TypeOK'
  BY <1>11, IdleType, Zenon DEF Reply, Handlers
<1>12. ASSUME NEW c \in Clients, Drop(c) PROVE TypeOK'
  BY <1>12 DEF Drop
<1>13. ASSUME NEW s \in Sessions, Kill(s) PROVE TypeOK'
  BY <1>13, IdleType DEF Kill, RL!AfterExit, Handlers
<1>14. CASE UNCHANGED vars
  BY <1>14 DEF vars
<1> QED
  BY <1>1, <1>2, <1>3, <1>4, <1>5, <1>6, <1>7, <1>8, <1>9, <1>10, <1>11,
     <1>12, <1>13, <1>14 DEF Next, Step

(* Every variable keeps its type.                                          *)
THEOREM Typing == Spec => []TypeOK
<1> QED  BY TypeInit, TypeStep, PTL DEF Spec

-----------------------------------------------------------------------------
(* Nobody holds the free mutex of the start.                               *)
LEMMA SafeInit == Init => NotYetOk /\ SafeInv
<1> SUFFICES ASSUME Init PROVE NotYetOk /\ SafeInv
  OBVIOUS
<1>1. \A s \in Sessions : h[s].pc = "idle"
  BY DEF Init, Idle
<1>2. LockHeld /\ FreeIsFree /\ RelAwaited /\ OkRecorded /\ NotYetOk
  BY <1>1 DEF LockHeld, FreeIsFree, RelAwaited, OkRecorded, NotYetOk, InFile
<1>3. FileFits
  BY EmptySeq, ConstAssumption DEF Init, FileFits
<1>4. PendServed /\ HolderRecorded
  BY DEF Init, PendServed, HolderRecorded
<1> QED  BY <1>2, <1>3, <1>4 DEF SafeInv

(* The reply of a handler starts as a failure and is decided in the file.  *)
LEMMA NotYetOkStep == TypeOK /\ NotYetOk /\ [Next]_vars => NotYetOk'
<1> SUFFICES ASSUME TypeOK, NotYetOk, [Next]_vars,
                    NEW t \in Sessions, h'[t].pc = "opened"
             PROVE  h'[t].rep = "fail"
  BY DEF NotYetOk
<1> USE DEF TypeOK, Handlers, NotYetOk
<1>1. ASSUME NEW c \in Clients, NEW s \in Sessions, NEW o \in Ops,
             Request(c, s, o)
      PROVE h'[t].rep = "fail"
  BY <1>1 DEF Request
<1>2. ASSUME NEW s \in Sessions, NEW r \in {"ok", "fail"}, Done(s, r)
      PROVE h'[t].rep = "fail"
  BY <1>2 DEF Done
<1>3. ASSUME NEW s \in Sessions,
             Refuse(s) \/ Lock(s) \/ Stat(s) \/ Unlock(s)
      PROVE h'[t].rep = "fail"
  BY <1>3 DEF Refuse, Lock, Stat, Unlock
<1>4. ASSUME NEW s \in Sessions, Reply(s) \/ Kill(s)
      PROVE h'[t].rep = "fail"
  <2>1. h' = [h EXCEPT ![s] = Idle]
    BY <1>4 DEF Reply, Kill
  <2> QED  BY <2>1 DEF Idle
<1>5. ASSUME NEW s \in Sessions,
             ReadFails(s) \/ AcqWrite(s) \/ AcqRead(s) \/ RelFree(s)
                \/ RelRead(s)
      PROVE h'[t].rep = "fail"
  BY <1>2, <1>5 DEF ReadFails, AcqWrite, AcqRead, RelFree, RelRead
<1>6. ASSUME NEW c \in Clients, Drop(c) PROVE h'[t].rep = "fail"
  BY <1>6 DEF Drop
<1>7. CASE UNCHANGED vars
  BY <1>7 DEF vars
<1> QED
  BY <1>1, <1>3, <1>4, <1>5, <1>6, <1>7 DEF Next, Step

(* Done() keeps the command and the client, and ends no other handler.     *)
LEMMA DoneKeeps ==
    ASSUME TypeOK, NEW s \in Sessions, NEW r \in {"ok", "fail"}, Done(s, r),
           NEW t \in Sessions
    PROVE  /\ h'[t].op = h[t].op /\ h'[t].cl = h[t].cl
           /\ t # s => h'[t] = h[t]
           /\ t = s => h'[t].pc = "done" /\ h'[t].rep = r
  BY DEF Done, TypeOK, Handlers

(* So the facts about the lock and about who awaits whom go on to hold.    *)
LEMMA DoneSafe ==
    ASSUME TypeOK, LockHeld, PendServed, RelAwaited,
           NEW s \in Sessions, NEW r \in {"ok", "fail"}, Done(s, r),
           h[s].pc \in InFile
    PROVE  LockHeld' /\ PendServed' /\ RelAwaited'
<1>1. \A t \in Sessions :
          /\ h'[t].op = h[t].op /\ h'[t].cl = h[t].cl
          /\ t # s => h'[t] = h[t]
          /\ t = s => h'[t].pc = "done"
  BY DoneKeeps
<1>2. UNCHANGED <<owner, pend, holding>>
  BY DEF Done
<1>3. LockHeld'
  BY <1>1, <1>2 DEF LockHeld
<1>4. PendServed'
  BY <1>1, <1>2 DEF PendServed, TypeOK
<1>5. RelAwaited'
  BY <1>1, <1>2, SMTT(30) DEF RelAwaited, InFile
<1> QED  BY <1>3, <1>4, <1>5

(* Every step keeps the strengthened invariant, one case per action.       *)
LEMMA SafeStep == Discipline /\ IInv /\ [Next]_vars => SafeInv'
<1> SUFFICES ASSUME Discipline, IInv, [Next]_vars PROVE SafeInv'
  OBVIOUS
<1> USE DEF IInv, SafeInv
<1>1. ASSUME NEW c \in Clients, NEW s \in Sessions, NEW o \in Ops,
             Request(c, s, o)
      PROVE SafeInv'
  <2> USE <1>1 DEF Request, TypeOK, Handlers
  <2>1. LockHeld'
    BY DEF LockHeld, InFile
  <2>2. FreeIsFree'
    BY DEF FreeIsFree
  <2>3. FileFits'
    BY DEF FileFits
  <2>4. PendServed'
    BY ConstAssumption DEF PendServed
  <2>5. RelAwaited'
    <3> SUFFICES ASSUME NEW t \in Sessions, h'[t].pc # "idle",
                        h'[t].op = "rel"
                 PROVE  pend'[h'[t].cl] = t /\ ~holding'[h'[t].cl]
      BY DEF RelAwaited
    <3>1. CASE t = s
      BY <3>1, Zenon
    <3>2. CASE t # s
      <4>1. h'[t] = h[t] /\ h[t].cl \in Clients
        BY <3>2
      <4>2. pend[h[t].cl] = t /\ ~holding[h[t].cl]
        BY <4>1 DEF RelAwaited
      <4>3. h[t].cl # c
        BY <4>2, ConstAssumption
      <4> QED  BY <4>1, <4>2, <4>3
    <3> QED  BY <3>1, <3>2
  <2>6. OkRecorded'
    BY DEF OkRecorded, PendServed
  <2>7. HolderRecorded'
    BY DEF HolderRecorded
  <2> QED  BY <2>1, <2>2, <2>3, <2>4, <2>5, <2>6, <2>7
<1>2. ASSUME NEW s \in Sessions, Refuse(s) PROVE SafeInv'
  <2> USE <1>2 DEF Refuse, TypeOK, Handlers
  <2>1. LockHeld'
    BY DEF LockHeld, InFile
  <2>2. FreeIsFree' /\ FileFits' /\ PendServed' /\ RelAwaited'
    BY DEF FreeIsFree, FileFits, PendServed, RelAwaited
  <2>3. OkRecorded' /\ HolderRecorded'
    BY DEF OkRecorded, HolderRecorded, NotYetOk
  <2> QED  BY <2>1, <2>2, <2>3
<1>3. ASSUME NEW s \in Sessions, Lock(s) PROVE SafeInv'
  <2> USE <1>3 DEF Lock, TypeOK, Handlers
  <2>1. LockHeld'
    BY ConstAssumption DEF LockHeld, InFile, RL!Lockable, RL!Locked, File
  <2>2. FreeIsFree' /\ FileFits' /\ PendServed' /\ RelAwaited'
    BY DEF FreeIsFree, FileFits, PendServed, RelAwaited
  <2>3. OkRecorded' /\ HolderRecorded'
    BY DEF OkRecorded, HolderRecorded
  <2> QED  BY <2>1, <2>2, <2>3
<1>4. ASSUME NEW s \in Sessions, Stat(s) PROVE SafeInv'
  <2> USE <1>4 DEF Stat, TypeOK, Handlers
  <2>1. LockHeld'
    BY DEF LockHeld, InFile
  <2>2. FreeIsFree' /\ FileFits' /\ PendServed' /\ RelAwaited'
    BY DEF FreeIsFree, FileFits, PendServed, RelAwaited
  <2>3. OkRecorded' /\ HolderRecorded'
    BY DEF OkRecorded, HolderRecorded
  <2> QED  BY <2>1, <2>2, <2>3
<1>5. ASSUME NEW s \in Sessions, ReadFails(s) PROVE SafeInv'
  <2> USE <1>5 DEF ReadFails, Done, TypeOK, Handlers
  <2>1. LockHeld'
    BY DEF LockHeld, InFile
  <2>2. FreeIsFree' /\ FileFits' /\ PendServed' /\ RelAwaited'
    BY DEF FreeIsFree, FileFits, PendServed, RelAwaited
  <2>3. OkRecorded' /\ HolderRecorded'
    BY DEF OkRecorded, HolderRecorded
  <2> QED  BY <2>1, <2>2, <2>3
<1>6. ASSUME NEW s \in Sessions, AcqWrite(s) PROVE SafeInv'
  <2> USE <1>6 DEF AcqWrite, TypeOK, Handlers
  <2>1. h[s].cl \in Clients /\ h[s].pc = "free" /\ content = <<>>
    BY DEF FreeIsFree
  <2> PICK r \in {"ok", "fail"} :
         Done(s, r) /\ (r = "ok" => content' = Tok[h[s].cl])
    OBVIOUS
  <2>2. LockHeld' /\ PendServed' /\ RelAwaited'
    BY DoneSafe DEF InFile
  <2>3. \A t \in Sessions : t # s => h[t].pc \notin InFile
    BY <2>1, SMTT(30) DEF LockHeld, InFile
  <2>4. FreeIsFree'
    BY <2>3, DoneKeeps DEF FreeIsFree, InFile
  <2>5. FileFits'
    BY <2>1, PrefixType, TokAssumption, LenProperties, ConstAssumption
       DEF FileFits, Discipline
  <2>6. \A c \in Clients : Tok[c] # content
    BY <2>1, TokAssumption, SMTT(30)
  <2>7. OkRecorded'
    <3> SUFFICES ASSUME NEW t \in Sessions,
                        h'[t].pc \in {"done", "replying"}, h'[t].op = "acq",
                        h'[t].rep = "ok", pend'[h'[t].cl] = t
                 PROVE  content' = Tok[h'[t].cl]
      BY SMTT(30) DEF OkRecorded
    <3>1. /\ h'[t].op = h[t].op /\ h'[t].cl = h[t].cl
          /\ t # s => h'[t] = h[t]
          /\ t = s => h'[t].rep = r
      BY DoneKeeps
    <3>2. CASE t = s
      BY <3>1, <3>2, SMTT(30)
    <3>3. CASE t # s
      <4>1. content = Tok[h[t].cl] /\ h[t].cl \in Clients
        BY <3>1, <3>3 DEF OkRecorded, Done
      <4> QED  BY <4>1, <2>6
    <3> QED  BY <3>2, <3>3, SMTT(30)
  <2>8. HolderRecorded'
    BY <2>6 DEF HolderRecorded, Done
  <2> QED  BY <2>2, <2>4, <2>5, <2>7, <2>8
<1>7. ASSUME NEW s \in Sessions, AcqRead(s) PROVE SafeInv'
  <2> USE <1>7 DEF AcqRead, Done, TypeOK, Handlers
  <2>1. LockHeld'
    BY DEF LockHeld, InFile
  <2>2. FreeIsFree' /\ FileFits' /\ PendServed' /\ RelAwaited'
    BY DEF FreeIsFree, FileFits, PendServed, RelAwaited
  <2>3. OkRecorded'
    BY DEF OkRecorded, ReadBack, FileFits
  <2>4. HolderRecorded'
    BY DEF HolderRecorded
  <2> QED  BY <2>1, <2>2, <2>3, <2>4
<1>8. ASSUME NEW s \in Sessions, RelFree(s) PROVE SafeInv'
  <2> USE <1>8 DEF RelFree, Done, TypeOK, Handlers
  <2>1. LockHeld'
    BY DEF LockHeld, InFile
  <2>2. FreeIsFree' /\ FileFits' /\ PendServed' /\ RelAwaited'
    BY DEF FreeIsFree, FileFits, PendServed, RelAwaited
  <2>3. OkRecorded' /\ HolderRecorded'
    BY DEF OkRecorded, HolderRecorded
  <2> QED  BY <2>1, <2>2, <2>3
<1>9. ASSUME NEW s \in Sessions, RelRead(s) PROVE SafeInv'
  <2> USE <1>9 DEF RelRead, TypeOK, Handlers
  <2>1. h[s].cl \in Clients /\ pend[h[s].cl] = s /\ ~holding[h[s].cl]
    BY DEF RelAwaited
  <2> PICK r \in {"ok", "fail"} : Done(s, r)
    OBVIOUS
  <2>2. LockHeld' /\ PendServed' /\ RelAwaited'
    BY DoneSafe DEF InFile
  <2>3. \A t \in Sessions : t # s => h[t].pc \notin InFile
    BY SMTT(30) DEF LockHeld, InFile
  <2>4. FreeIsFree'
    BY <2>3, DoneKeeps DEF FreeIsFree, InFile
  <2>5. FileFits'
    BY EmptySeq, ConstAssumption DEF FileFits
  <2>6. content' # content => content = Tok[h[s].cl]
    BY SMTT(30) DEF ReadBack, FileFits
  <2>7. OkRecorded'
    <3> SUFFICES ASSUME NEW t \in Sessions,
                        h'[t].pc \in {"done", "replying"}, h'[t].op = "acq",
                        h'[t].rep = "ok", pend'[h'[t].cl] = t
                 PROVE  content' = Tok[h'[t].cl]
      BY SMTT(30) DEF OkRecorded
    <3>1. /\ h'[t].op = h[t].op /\ h'[t].cl = h[t].cl
          /\ t # s => h'[t] = h[t]
      BY DoneKeeps, SMTT(30)
    <3>2. t # s /\ h[t].cl \in Clients
      BY <3>1
    <3>3. pend[h[t].cl] = t /\ content = Tok[h[t].cl]
      BY <3>1, <3>2, SMTT(30) DEF OkRecorded, Done
    <3>4. content' = content
      BY <2>1, <2>6, <3>2, <3>3, TokAssumption
    <3> QED  BY <3>1, <3>3, <3>4, SMTT(30)
  <2>8. HolderRecorded'
    BY <2>1, <2>6, TokAssumption DEF HolderRecorded, Done
  <2> QED  BY <2>2, <2>4, <2>5, <2>7, <2>8
<1>10. ASSUME NEW s \in Sessions, Unlock(s) PROVE SafeInv'
  <2> USE <1>10 DEF Unlock, TypeOK, Handlers
  <2>1. LockHeld'
    BY DEF LockHeld, InFile, RL!AfterClose, RL!Unlocked, File
  <2>2. FreeIsFree' /\ FileFits' /\ PendServed' /\ RelAwaited'
    BY DEF FreeIsFree, FileFits, PendServed, RelAwaited
  <2>3. OkRecorded' /\ HolderRecorded'
    BY DEF OkRecorded, HolderRecorded
  <2> QED  BY <2>1, <2>2, <2>3
<1>11. ASSUME NEW s \in Sessions, Reply(s) PROVE SafeInv'
  <2> USE <1>11 DEF Reply, TypeOK, Handlers
  <2>1. h[s].cl \in Clients
    OBVIOUS
  <2>2. LockHeld' /\ FreeIsFree' /\ FileFits'
    BY SMTT(30) DEF LockHeld, FreeIsFree, FileFits, Idle, InFile
  <2>3. PendServed'
    BY <2>1 DEF PendServed, Idle
  <2>4. RelAwaited'
    <3> SUFFICES ASSUME NEW t \in Sessions, h'[t].pc # "idle",
                        h'[t].op = "rel"
                 PROVE  pend'[h'[t].cl] = t /\ ~holding'[h'[t].cl]
      BY SMTT(30) DEF RelAwaited
    <3>1. t # s /\ h'[t] = h[t] /\ h[t].cl \in Clients
      BY DEF Idle
    <3>2. pend[h[t].cl] = t /\ ~holding[h[t].cl]
      BY <3>1, SMTT(30) DEF RelAwaited
    <3> QED  BY <2>1, <3>1, <3>2, SMTT(30)
  <2>5. OkRecorded'
    BY <2>1, ConstAssumption DEF OkRecorded, Idle
  <2>6. HolderRecorded'
    BY <2>1, Zenon DEF HolderRecorded, OkRecorded
  <2> QED  BY <2>2, <2>3, <2>4, <2>5, <2>6
<1>12. ASSUME NEW c \in Clients, Drop(c) PROVE SafeInv'
  <2> USE <1>12 DEF Drop, TypeOK, Handlers
  <2>1. h[pend[c]].op # "rel"
    BY DEF Discipline
  <2>2. LockHeld' /\ FreeIsFree' /\ FileFits' /\ HolderRecorded'
    BY DEF LockHeld, FreeIsFree, FileFits, HolderRecorded
  <2>3. PendServed' /\ OkRecorded'
    BY ConstAssumption DEF PendServed, OkRecorded
  <2>4. RelAwaited'
    BY <2>1 DEF RelAwaited
  <2> QED  BY <2>2, <2>3, <2>4
<1>13. ASSUME NEW s \in Sessions, Kill(s) PROVE SafeInv'
  <2> USE <1>13 DEF Kill, TypeOK, Handlers
  <2>1. h[s].cl \in Clients
    OBVIOUS
  <2>2. LockHeld'
    BY SMTT(30) DEF LockHeld, Idle, InFile, RL!AfterExit, File
  <2>3. FreeIsFree' /\ FileFits' /\ HolderRecorded'
    BY DEF FreeIsFree, FileFits, HolderRecorded, Idle
  <2>4. PendServed'
    <3> SUFFICES ASSUME NEW c \in Clients, pend'[c] # NoProc
                 PROVE  h'[pend'[c]].pc # "idle" /\ h'[pend'[c]].cl = c
      BY Zenon DEF PendServed
    <3>1. pend'[c] = pend[c] /\ pend[c] # s /\ pend[c] \in Sessions
      BY <2>1, SMTT(30) DEF PendServed
    <3> QED  BY <3>1, Zenon DEF PendServed
  <2>5. RelAwaited' /\ OkRecorded'
    BY <2>1, ConstAssumption, SMTT(30) DEF RelAwaited, OkRecorded, Idle
  <2> QED  BY <2>2, <2>3, <2>4, <2>5
<1>14. CASE UNCHANGED vars
  BY <1>14 DEF vars, LockHeld, FreeIsFree, FileFits, PendServed,
     RelAwaited, OkRecorded, HolderRecorded
<1> QED
  BY <1>1, <1>2, <1>3, <1>4, <1>5, <1>6, <1>7, <1>8, <1>9, <1>10, <1>11,
     <1>12, <1>13, <1>14 DEF Next, Step

-----------------------------------------------------------------------------
(* As long as a client is between the OK of its NETMUTACQ_TRY and its      *)
(* NETMUTREL, the mutex file holds its token, for any number of clients    *)
(* and sessions.                                                           *)
THEOREM Recorded == Discipline => (Spec => []HolderRecorded)
<1> SUFFICES ASSUME Discipline PROVE Spec => []HolderRecorded
  OBVIOUS
<1>1. Init => IInv
  BY TypeInit, SafeInit DEF IInv
<1>2. IInv /\ [Next]_vars => IInv'
  BY TypeStep, NotYetOkStep, SafeStep DEF IInv
<1>3. IInv => HolderRecorded
  BY DEF IInv, SafeInv
<1> QED  BY <1>1, <1>2, <1>3, PTL DEF Spec

(* NETMUTACQ_TRY never answers OK to two clients that both have not sent   *)
(* NETMUTREL since: two holders would both find their token in the file.   *)
THEOREM Exclusion == Discipline => (Spec => []MutualExclusion)
<1> SUFFICES ASSUME Discipline PROVE Spec => []MutualExclusion
  OBVIOUS
<1>1. HolderRecorded => MutualExclusion
  BY TokAssumption, SMTT(30) DEF HolderRecorded, MutualExclusion
<1> QED  BY <1>1, Recorded, PTL

-----------------------------------------------------------------------------
(* The refinement mapping of ImplementsTokenMutex.                         *)
Inside == {c \in Clients : holding[c]}

(* Only a NETMUTREL and a reply to NETMUTACQ_TRY move a client out of and  *)
(* into its critical section, one at a time and never past another.        *)
LEMMA AbstractStep ==
    Discipline /\ IInv /\ [Next]_vars => [Abstract!Next]_Inside
<1> SUFFICES ASSUME Discipline, IInv, [Next]_vars
             PROVE  [Abstract!Next]_Inside
  OBVIOUS
<1> USE DEF IInv, SafeInv
<1>1. ASSUME NEW c \in Clients, NEW s \in Sessions, NEW o \in Ops,
             Request(c, s, o)
      PROVE  [Abstract!Next]_Inside
  <2>1. \A d \in Clients : d # c => holding'[d] = holding[d]
    BY <1>1 DEF Request, TypeOK
  <2>2. CASE holding[c] /\ o = "rel"
    <3>1. Inside = {c}
      BY <2>2, TokAssumption DEF Inside, HolderRecorded
    <3>2. ~holding'[c]
      BY <1>1, <2>2, Zenon DEF Request, TypeOK
    <3>3. Inside' = {}
      BY <2>1, <3>1, <3>2 DEF Inside
    <3> QED  BY <3>1, <3>3 DEF Abstract!Next, Abstract!Leave, Inside
  <2>3. CASE ~(holding[c] /\ o = "rel")
    <3>1. holding'[c] = holding[c]
      BY <1>1, <2>3 DEF Request, TypeOK
    <3> QED  BY <2>1, <3>1 DEF Inside
  <2> QED  BY <2>2, <2>3
<1>2. ASSUME NEW s \in Sessions, Reply(s) PROVE [Abstract!Next]_Inside
  <2> DEFINE c == h[s].cl
  <2>1. c \in Clients
    BY DEF TypeOK, Handlers
  <2>2. \A d \in Clients : d # c => holding'[d] = holding[d]
    BY <1>2, SMTT(30) DEF Reply, TypeOK
  <2>3. CASE ~holding[c] /\ holding'[c]
    <3>1. content = Tok[c]
      BY <1>2, <2>1, <2>3, SMTT(30) DEF Reply, TypeOK, OkRecorded
    <3>2. Inside = {}
      BY <2>1, <2>3, <3>1, TokAssumption DEF Inside, HolderRecorded
    <3>3. Inside' = {c}
      BY <2>1, <2>2, <2>3, <3>2 DEF Inside
    <3> QED  BY <2>1, <3>2, <3>3, SMTT(30) DEF Abstract!Next, Abstract!Enter, Inside
  <2>4. CASE ~(~holding[c] /\ holding'[c])
    <3>1. holding'[c] = holding[c]
      <4>1. holding[c] \in BOOLEAN /\ holding'[c] \in BOOLEAN
        BY <2>1, TypeStep DEF TypeOK
      <4>2. holding[c] => holding'[c]
        BY <1>2, <2>1 DEF Reply, TypeOK
      <4> QED  BY <2>4, <4>1, <4>2
    <3> QED  BY <2>2, <3>1 DEF Inside
  <2> QED  BY <2>3, <2>4
<1>3. ASSUME UNCHANGED holding PROVE [Abstract!Next]_Inside
  BY <1>3 DEF Inside
<1> QED
  BY <1>1, <1>2, <1>3, Zenon DEF Next, Step, Refuse, Lock, Stat, ReadFails,
     AcqWrite, AcqRead, RelFree, RelRead, Done, Unlock, Drop, Kill, vars

(* Seen from its clients the file mutex is the abstract mutex: a client    *)
(* enters only when nobody is inside and only the one inside leaves.       *)
THEOREM Refinement == Discipline => (Spec => ImplementsTokenMutex)
<1> SUFFICES ASSUME Discipline PROVE Spec => ImplementsTokenMutex
  OBVIOUS
<1>1. Init => IInv
  BY TypeInit, SafeInit DEF IInv
<1>2. IInv /\ [Next]_vars => IInv'
  BY TypeStep, NotYetOkStep, SafeStep DEF IInv
<1>3. Init => Abstract!Init
  BY DEF Init, Abstract!Init
<1>4. IInv /\ [Next]_vars => [Abstract!Next]_{c \in Clients : holding[c]}
  BY AbstractStep DEF Inside
<1> QED
  BY <1>1, <1>2, <1>3, <1>4, PTL
     DEF Spec, ImplementsTokenMutex, Abstract!Spec

-----------------------------------------------------------------------------
(* GuardedUpdate: under the mutex a handler of INTREAD or INTWRITE is      *)
(* alone, as it works for a client that waits for it inside its critical   *)
(* section.                                                                *)
FileServed ==
    \A s \in Sessions : fh[s].pc # "idle" =>
        /\ fh[s].cl \in Clients
        /\ fpend[fh[s].cl] = s /\ holding[fh[s].cl]

(* What a handler g has found and done is still so of the version v.       *)
Agrees(g, v) ==
    /\ g.pc \in {"sized", "hashed"} /\ g.op = "read" => g.size = Len(v)
    /\ g.pc = "hashed" => g.hash = v
    /\ g.pc = "replying" => g.hash = g.bytes
    /\ g.pc = "checked" => g.exp = v
    /\ g.pc = "truncated" => v = <<>> /\ g.old = g.exp
    /\ g.pc = "written" => g.old = g.exp /\ g.new = g.bytes

(* A well-formed handler: it has a payload of bytes if it writes.          *)
Formed(g) ==
    /\ DOMAIN g = DOMAIN F!Idle
    /\ g.pc # "idle" /\ g.op = "write" => g.bytes \in Seq(Bytes)
    /\ g.pc \in {"checked", "truncated", "written"} => g.op = "write"

FileTyped ==
    /\ fcontent \in Seq(Bytes)
    /\ DOMAIN fh = Sessions /\ \A s \in Sessions : Formed(fh[s])
    /\ fpend \in [Clients -> Sessions \cup {NoProc}]

GuardInv ==
    /\ IInv
    /\ FileTyped /\ FileServed
    /\ \A s \in Sessions : Agrees(fh[s], fcontent)
    /\ NoLostUpdate

-----------------------------------------------------------------------------
(* A session that serves neither INTREAD nor INTWRITE.                     *)
LEMMA FileIdle ==
    /\ DOMAIN F!Idle = {"pc", "op", "cl", "exp", "hash", "bytes", "size",
                        "old", "new"}
    /\ F!Idle.pc = "idle" /\ F!Idle.op = "read"
  BY DEF F!Idle

(* Nothing is under way when the daemon starts.                            *)
LEMMA GuardStarts == GuardInit => GuardInv
<1> SUFFICES ASSUME GuardInit PROVE GuardInv
  OBVIOUS
<1>1. IInv
  BY TypeInit, SafeInit DEF GuardInit, IInv
<1>2. \A s \in Sessions : fh[s] = F!Idle
  BY DEF GuardInit, F!Init
<1>3. FileTyped
  BY <1>2, FileIdle, GuardAssumption DEF GuardInit, F!Init, FileTyped, Formed
<1>4. FileServed /\ \A s \in Sessions : Agrees(fh[s], fcontent)
  BY <1>2, FileIdle, SMTT(30) DEF FileServed, Agrees
<1>5. NoLostUpdate
  BY DEF GuardInit, F!Init, NoLostUpdate, F!NoLostUpdate
<1> QED  BY <1>1, <1>3, <1>4, <1>5 DEF GuardInv

(* Two handlers of the file would have two holders of the mutex, or one    *)
(* client that waits for two sessions.                                     *)
LEMMA Alone ==
    ASSUME GuardInv, NEW s \in Sessions, NEW t \in Sessions,
           fh[s].pc # "idle", fh[t].pc # "idle"
    PROVE  s = t
<1>1. /\ fh[s].cl \in Clients /\ fpend[fh[s].cl] = s
      /\ fh[t].cl \in Clients /\ fpend[fh[t].cl] = t
      /\ holding[fh[s].cl] /\ holding[fh[t].cl]
  BY DEF GuardInv, FileServed
<1>2. fh[s].cl = fh[t].cl
  BY <1>1, TokAssumption, SMTT(30) DEF GuardInv, IInv, SafeInv, HolderRecorded
<1> QED  BY <1>1, <1>2

(* A step that leaves the mutex alone keeps what is known of it.           *)
LEMMA MutexStays ==
    ASSUME IInv, UNCHANGED vars
    PROVE  IInv'
  BY DEF IInv, SafeInv, vars, TypeOK, NotYetOk, LockHeld, FreeIsFree, FileFits,
     PendServed, RelAwaited, OkRecorded, HolderRecorded

(* A step of the handler that is alone with the file.                      *)
LEMMA FileMoves ==
    ASSUME GuardInv, NEW s \in Sessions, NEW r,
           fh[s].pc # "idle", r.pc # "idle", r.cl = fh[s].cl,
           fh' = [fh EXCEPT ![s] = r], UNCHANGED <<vars, fpend, acked>>,
           Formed(r), fcontent' \in Seq(Bytes), Agrees(r, fcontent')
    PROVE  GuardInv'
<1>1. fh'[s] = r /\ \A t \in Sessions \ {s} : fh'[t] = fh[t]
  BY DEF GuardInv, FileTyped
<1>2. \A t \in Sessions \ {s} : fh[t].pc = "idle"
  BY Alone
<1>3. IInv' /\ NoLostUpdate'
  BY MutexStays, SMTT(30) DEF GuardInv, NoLostUpdate, F!NoLostUpdate
<1>4. FileTyped'
  BY <1>1, SMTT(30) DEF GuardInv, FileTyped, Formed
<1>5. FileServed'
  BY <1>1, <1>2 DEF GuardInv, FileServed, vars
<1>6. ASSUME NEW t \in Sessions PROVE Agrees(fh[t], fcontent)'
  <2>1. CASE t = s
    BY <1>1, <2>1, SMTT(30) DEF Agrees
  <2>2. CASE t # s
    BY <1>1, <1>2, <2>2, SMTT(30) DEF Agrees
  <2> QED  BY <2>1, <2>2, SMTT(30)
<1> QED  BY <1>3, <1>4, <1>5, <1>6, SMTT(30) DEF GuardInv

(* The handler returns, or its process ends.                               *)
LEMMA FileEnds ==
    ASSUME GuardInv, NEW s \in Sessions, fh[s].pc # "idle",
           fh' = [fh EXCEPT ![s] = F!Idle], UNCHANGED vars,
           fpend' = [fpend EXCEPT ![fh[s].cl] = NoProc],
           fcontent' \in Seq(Bytes), NoLostUpdate'
    PROVE  GuardInv'
<1>1. fh'[s] = F!Idle /\ \A t \in Sessions \ {s} : fh'[t] = fh[t]
  BY DEF GuardInv, FileTyped
<1>2. \A t \in Sessions : fh'[t].pc = "idle"
  BY <1>1, Alone, FileIdle
<1>3. IInv'
  BY MutexStays DEF GuardInv
<1>4. FileTyped'
  BY <1>1, FileIdle, Zenon DEF GuardInv, FileTyped, Formed
<1>5. FileServed' /\ \A t \in Sessions : Agrees(fh'[t], fcontent')
  BY <1>2, SMTT(30) DEF FileServed, Agrees
<1> QED  BY <1>3, <1>4, <1>5 DEF GuardInv, Agrees

(* A handler starts, for a client inside its critical section, when no     *)
(* other is at work.                                                       *)
LEMMA FileStarts ==
    ASSUME GuardInv, NEW c \in Clients, NEW s \in Sessions, FileRequest(c, s)
    PROVE  GuardInv'
<1>1. holding[c] /\ fpend[c] = NoProc
  BY DEF FileRequest, Ready
<1>2. ASSUME NEW t \in Sessions, fh[t].pc # "idle" PROVE FALSE
  <2>1. fh[t].cl \in Clients /\ fpend[fh[t].cl] = t /\ holding[fh[t].cl]
    BY <1>2, SMTT(30) DEF GuardInv, FileServed
  <2>2. fh[t].cl = c
    BY <1>1, <2>1, TokAssumption, SMTT(30)
       DEF GuardInv, IInv, SafeInv, HolderRecorded
  <2> QED  BY <1>1, <2>1, <2>2, ConstAssumption, SMTT(30)
<1> DEFINE Starts(g) == /\ fh' = [fh EXCEPT ![s] = g]
                        /\ DOMAIN g = DOMAIN F!Idle /\ g.pc = "opened"
                        /\ g.cl = c
                        /\ g.op = "write" => g.bytes \in Seq(Bytes)
<1>3. PICK r : Starts(r)
  <2>1. CASE F!Read(c, s)
    <3> DEFINE r == [F!Idle EXCEPT !.pc = "opened", !.cl = c]
    <3>1. /\ DOMAIN r = DOMAIN F!Idle /\ r.pc = "opened" /\ r.cl = c
          /\ r.op = "read"
      BY FileIdle
    <3>2. fh' = [fh EXCEPT ![s] = r]
      BY <2>1 DEF F!Read
    <3> HIDE DEF r
    <3> QED  BY <3>1, <3>2, Zenon
  <2>2. ASSUME NEW b \in Payloads, F!Write(c, s, b)
        PROVE  \E g : Starts(g)
    <3> DEFINE r == [F!Idle EXCEPT !.pc = "opened", !.op = "write",
                              !.cl = c, !.exp = seen[c], !.bytes = b]
    <3>1. /\ DOMAIN r = DOMAIN F!Idle /\ r.pc = "opened" /\ r.cl = c
          /\ r.bytes = b
      BY FileIdle
    <3>2. fh' = [fh EXCEPT ![s] = r] /\ b \in Seq(Bytes)
      BY <2>2, GuardAssumption DEF F!Write
    <3> HIDE DEF r
    <3> QED  BY <3>1, <3>2, Zenon
  <2> QED  BY <2>1, <2>2 DEF FileRequest
<1>4. UNCHANGED <<vars, fcontent, acked>> /\ fpend' = [fpend EXCEPT ![c] = s]
  BY Zenon DEF FileRequest, F!Read, F!Write
<1>5. fh'[s] = r /\ \A t \in Sessions \ {s} : fh'[t] = fh[t]
  BY <1>3 DEF GuardInv, FileTyped
<1>6. IInv' /\ NoLostUpdate'
  BY <1>4, MutexStays, SMTT(30) DEF GuardInv, NoLostUpdate, F!NoLostUpdate
<1>7. FileTyped'
  BY <1>3, <1>4, <1>5, SMTT(30) DEF GuardInv, FileTyped, Formed
<1>8. FileServed'
  BY <1>1, <1>2, <1>3, <1>4, <1>5, SMTT(30) DEF GuardInv, FileServed, FileTyped, vars
<1>9. \A t \in Sessions : Agrees(fh'[t], fcontent')
  BY <1>2, <1>3, <1>5 DEF Agrees
<1> QED  BY <1>6, <1>7, <1>8, <1>9, SMTT(30) DEF GuardInv, Agrees

(* The bytes that are read are the whole file when the size is still its   *)
(* length, and the bytes written to an empty file are all it holds then.   *)
LEMMA WholeFile ==
    ASSUME NEW v \in Seq(Bytes), NEW b \in Seq(Bytes)
    PROVE  /\ SubSeq(v, 1, Len(v)) = v
           /\ SubSeq(b, 1, Len(b)) = b
           /\ b \o SubSeq(<< >>, Len(b) + 1, Len(<< >>)) = b
           /\ \A n \in 0 .. Len(b) : SubSeq(b, 1, n) \in Seq(Bytes)
  BY SMTT(30)

(* One step of INTREAD or INTWRITE, or the end of its process.             *)
LEMMA FileSteps ==
    ASSUME GuardInv, NEW s \in Sessions, F!Step(s) \/ F!Kill(s),
           UNCHANGED vars
    PROVE  GuardInv'
<1> DEFINE g == fh[s]
<1>0. /\ Formed(g) /\ Agrees(g, fcontent) /\ fcontent \in Seq(Bytes)
      /\ DOMAIN g = {"pc", "op", "cl", "exp", "hash", "bytes", "size", "old",
                     "new"}
  BY FileIdle DEF GuardInv, FileTyped, Formed
<1>1. CASE F!Lock(s)
  <2> DEFINE r == [g EXCEPT !.pc = "locked"]
  <2>1. /\ g.pc = "opened" /\ fh' = [fh EXCEPT ![s] = r]
        /\ UNCHANGED <<fcontent, fpend, acked>>
    BY <1>1 DEF F!Lock
  <2> HIDE DEF g
  <2>2. /\ DOMAIN r = DOMAIN g /\ r.pc = "locked" /\ r.cl = g.cl /\ r.op = g.op
        /\ r.bytes = g.bytes
    BY <1>0, SMTT(30)
  <2> HIDE DEF r
  <2>3. Formed(r) /\ Agrees(r, fcontent')
    BY <1>0, <2>1, <2>2 DEF Formed, Agrees
  <2> QED  BY <1>0, <2>1, <2>2, <2>3, FileMoves, Zenon DEF g
<1>2. CASE F!Stat(s)
  <2> DEFINE r == [g EXCEPT !.pc = "sized", !.size = Len(fcontent)]
  <2>1. /\ g.pc = "locked" /\ g.op = "read" /\ fh' = [fh EXCEPT ![s] = r]
        /\ UNCHANGED <<fcontent, fpend, acked>>
    BY <1>2, Zenon DEF F!Stat
  <2> HIDE DEF g
  <2>2. /\ DOMAIN r = DOMAIN g /\ r.pc = "sized" /\ r.cl = g.cl /\ r.op = g.op
        /\ r.size = Len(fcontent)
    BY <1>0, SMTT(30)
  <2> HIDE DEF r
  <2>3. Formed(r) /\ Agrees(r, fcontent')
    BY <1>0, <2>1, <2>2 DEF Formed, Agrees
  <2> QED  BY <1>0, <2>1, <2>2, <2>3, FileMoves, Zenon DEF g
<1>3. CASE F!Hash(s)
  <2> DEFINE r == [g EXCEPT !.pc = "hashed", !.hash = fcontent]
  <2>1. /\ g.pc = (IF g.op = "read" THEN "sized" ELSE "locked")
        /\ fh' = [fh EXCEPT ![s] = r] /\ UNCHANGED <<fcontent, fpend, acked>>
    BY <1>3, Zenon DEF F!Hash, F!AtHash
  <2> HIDE DEF g
  <2>2. /\ DOMAIN r = DOMAIN g /\ r.pc = "hashed" /\ r.cl = g.cl /\ r.op = g.op
        /\ r.bytes = g.bytes /\ r.size = g.size /\ r.hash = fcontent
    BY <1>0, SMTT(30)
  <2> HIDE DEF r
  <2>3. Formed(r) /\ Agrees(r, fcontent')
    BY <1>0, <2>1, <2>2 DEF Formed, Agrees
  <2> QED  BY <1>0, <2>1, <2>2, <2>3, FileMoves, Zenon DEF g
<1>4. CASE F!ReadBytes(s)
  <2> DEFINE rc == IF Len(fcontent) < g.size THEN Len(fcontent) ELSE g.size
             r == [g EXCEPT !.pc = "replying",
                            !.bytes = SubSeq(fcontent, 1, rc)]
  <2>1. /\ g.pc = "hashed" /\ g.op = "read" /\ fh' = [fh EXCEPT ![s] = r]
        /\ UNCHANGED <<fcontent, fpend, acked>>
    BY <1>4, Zenon DEF F!ReadBytes
  <2> HIDE DEF g
  <2>2. rc = Len(fcontent)
    BY <1>0, <2>1 DEF Agrees
  <2> HIDE DEF rc
  <2>3. /\ DOMAIN r = DOMAIN g /\ r.pc = "replying" /\ r.cl = g.cl
        /\ r.op = g.op /\ r.hash = g.hash /\ r.bytes = SubSeq(fcontent, 1, rc)
    BY <1>0, Zenon
  <2> HIDE DEF r
  <2>4. Formed(r) /\ Agrees(r, fcontent')
    BY <1>0, <2>1, <2>2, <2>3, WholeFile DEF Formed, Agrees
  <2> QED  BY <1>0, <2>1, <2>3, <2>4, FileMoves, Zenon DEF g
<1>5. CASE F!Check(s) /\ g.exp = g.hash
  <2> DEFINE r == [g EXCEPT !.pc = "checked"]
  <2>1. /\ g.pc = "hashed" /\ g.op = "write" /\ fh' = [fh EXCEPT ![s] = r]
        /\ UNCHANGED <<fcontent, fpend, acked>>
    BY <1>5 DEF F!Check
  <2> HIDE DEF g
  <2>2. /\ DOMAIN r = DOMAIN g /\ r.pc = "checked" /\ r.cl = g.cl
        /\ r.op = g.op /\ r.bytes = g.bytes /\ r.exp = g.exp
    BY <1>0, SMTT(30)
  <2> HIDE DEF r
  <2>3. Formed(r) /\ Agrees(r, fcontent')
    BY <1>0, <1>5, <2>1, <2>2 DEF Formed, Agrees
  <2> QED  BY <1>0, <2>1, <2>2, <2>3, FileMoves, Zenon DEF g
<1>6. CASE F!Truncate(s)
  <2> DEFINE r == [g EXCEPT !.pc = "truncated", !.old = fcontent]
  <2>1. /\ g.pc = "checked" /\ fh' = [fh EXCEPT ![s] = r]
        /\ fcontent' = << >> /\ UNCHANGED <<fpend, acked>>
    BY <1>6, Zenon DEF F!Truncate
  <2> HIDE DEF g
  <2>2. /\ DOMAIN r = DOMAIN g /\ r.pc = "truncated" /\ r.cl = g.cl
        /\ r.op = g.op /\ r.bytes = g.bytes /\ r.exp = g.exp
        /\ r.old = fcontent
    BY <1>0, SMTT(30)
  <2> HIDE DEF r
  <2>3. Formed(r) /\ Agrees(r, fcontent')
    BY <1>0, <2>1, <2>2 DEF Formed, Agrees
  <2>4. fcontent' \in Seq(Bytes)
    BY <2>1, EmptySeq, SMTT(30)
  <2> QED  BY <2>1, <2>2, <2>3, <2>4, FileMoves, Zenon DEF g
<1>7. CASE F!WriteBytes(s)
  <2> DEFINE r == [g EXCEPT !.pc = "written", !.new = fcontent']
  <2>1. /\ g.pc = "truncated" /\ fh' = [fh EXCEPT ![s] = r]
        /\ fcontent' = g.bytes
                         \o SubSeq(fcontent, Len(g.bytes) + 1, Len(fcontent))
        /\ UNCHANGED <<fpend, acked>>
    BY <1>7, Zenon DEF F!WriteBytes, F!Over
  <2> HIDE DEF g
  <2>2. /\ DOMAIN r = DOMAIN g /\ r.pc = "written" /\ r.cl = g.cl
        /\ r.op = g.op /\ r.bytes = g.bytes /\ r.exp = g.exp
        /\ r.old = g.old /\ r.new = fcontent'
    BY <1>0
  <2> HIDE DEF r
  <2>3. fcontent = << >> /\ g.bytes \in Seq(Bytes)
    BY <1>0, <2>1 DEF Formed, Agrees
  <2>4. fcontent' = g.bytes
    BY <2>1, <2>3, WholeFile, Zenon
  <2>5. Formed(r) /\ Agrees(r, fcontent')
    BY <1>0, <2>1, <2>2, <2>4 DEF Formed, Agrees
  <2> QED  BY <2>1, <2>2, <2>3, <2>4, <2>5, FileMoves, Zenon DEF g
<1>8. CASE F!ReadReply(s) \/ (F!Check(s) /\ g.exp # g.hash) \/ F!CallFails(s)
           \/ F!Kill(s)
  <2>1. /\ g.pc # "idle" /\ fh' = [fh EXCEPT ![s] = F!Idle]
        /\ fpend' = [fpend EXCEPT ![g.cl] = NoProc]
        /\ UNCHANGED <<fcontent, acked>>
    BY <1>8, GuardAssumption
       DEF F!ReadReply, F!Check, F!CallFails, F!Kill, F!Return
  <2>2. NoLostUpdate'
    BY <2>1 DEF GuardInv, NoLostUpdate, F!NoLostUpdate
  <2> QED  BY <1>0, <2>1, <2>2, FileEnds, Zenon
<1>9. CASE F!WriteReply(s)
  <2>1. /\ g.pc = "written" /\ fh' = [fh EXCEPT ![s] = F!Idle]
        /\ fpend' = [fpend EXCEPT ![g.cl] = NoProc] /\ UNCHANGED fcontent
        /\ acked' = acked \cup {[exp |-> g.exp, old |-> g.old,
                                 bytes |-> g.bytes, new |-> g.new]}
    BY <1>9 DEF F!WriteReply, F!Return
  <2>2. g.old = g.exp /\ g.new = g.bytes
    BY <1>0, <2>1, Zenon DEF Agrees
  <2> DEFINE a0 == [exp |-> g.exp, old |-> g.old, bytes |-> g.bytes,
                    new |-> g.new]
  <2>3. a0.old = a0.exp /\ a0.new = a0.bytes
    BY <2>2
  <2>4. acked' = acked \cup {a0}
    BY <2>1, SMTT(30)
  <2> HIDE DEF g, a0
  <2>5. NoLostUpdate'
    BY <2>3, <2>4 DEF GuardInv, NoLostUpdate, F!NoLostUpdate
  <2> QED  BY <1>0, <2>1, <2>5, FileEnds, Zenon DEF g
<1>10. CASE F!WriteFails(s)
  <2>1. /\ g.pc = "truncated" /\ fh' = [fh EXCEPT ![s] = F!Idle]
        /\ fpend' = [fpend EXCEPT ![g.cl] = NoProc] /\ UNCHANGED acked
    BY <1>10 DEF F!WriteFails, F!Return
  <2>2. PICK n \in 0 .. Len(g.bytes) :
          fcontent' = SubSeq(g.bytes, 1, n)
                        \o SubSeq(fcontent, Len(SubSeq(g.bytes, 1, n)) + 1,
                                  Len(fcontent))
    BY <1>10, Zenon DEF F!WriteFails, F!Over
  <2> HIDE DEF g
  <2>3. fcontent = << >> /\ g.bytes \in Seq(Bytes)
    BY <1>0, <2>1 DEF Formed, Agrees
  <2>4. SubSeq(g.bytes, 1, n) \in Seq(Bytes)
    BY <2>2, <2>3, WholeFile
  <2>5. fcontent' = SubSeq(g.bytes, 1, n)
    BY <2>2, <2>3, <2>4, WholeFile
  <2>6. NoLostUpdate'
    BY <2>1, SMTT(30) DEF GuardInv, NoLostUpdate, F!NoLostUpdate
  <2> QED  BY <2>1, <2>4, <2>5, <2>6, FileEnds, Zenon DEF g
<1> QED
  BY <1>1, <1>2, <1>3, <1>4, <1>5, <1>6, <1>7, <1>8, <1>9, <1>10, ZenonT(30)
     DEF F!Step

(* Only the NETMUTREL of a client takes it out of its critical section.    *)
LEMMA StaysInside ==
    ASSUME TypeOK, NEW s \in Sessions, Step(s) \/ Kill(s),
           NEW c \in Clients, holding[c]
    PROVE  holding'[c]
<1>1. CASE Reply(s)
  BY <1>1 DEF Reply, TypeOK, Handlers
<1>2. CASE UNCHANGED holding
  BY <1>2
<1> QED
  BY <1>1, <1>2 DEF Step, Kill, Refuse, Lock, Stat, ReadFails, AcqWrite,
     AcqRead, RelFree, RelRead, Done, Unlock

(* Every step of the composition keeps the invariant.                      *)
LEMMA GuardStep ==
    Discipline /\ GuardInv /\ [GuardNext]_<<vars, fvars>> => GuardInv'
<1> SUFFICES ASSUME Discipline, GuardInv, [GuardNext]_<<vars, fvars>>
             PROVE  GuardInv'
  OBVIOUS
<1>1. ASSUME NEW c \in Clients, NEW s \in Sessions, FileRequest(c, s)
      PROVE  GuardInv'
  BY <1>1, FileStarts
<1>2. CASE FileStep
  BY <1>2, FileSteps, SMTT(30) DEF FileStep
<1>3. ASSUME [Next]_vars, UNCHANGED fvars,
             \A t \in Sessions : fh[t].pc # "idle" => holding'[fh[t].cl]
      PROVE  GuardInv'
  <2>1. IInv'
    BY <1>3, TypeStep, NotYetOkStep, SafeStep, SMTT(30) DEF GuardInv, IInv
  <2>2. FileTyped' /\ NoLostUpdate'
    BY <1>3, Zenon
       DEF GuardInv, FileTyped, Formed, fvars, NoLostUpdate, F!NoLostUpdate
  <2>3. FileServed'
    BY <1>3, ZenonT(30) DEF GuardInv, FileServed, fvars
  <2>4. \A t \in Sessions : Agrees(fh'[t], fcontent')
    BY <1>3, SMTT(30) DEF GuardInv, Agrees, fvars
  <2> QED  BY <2>1, <2>2, <2>3, <2>4 DEF GuardInv, Agrees
<1>4. ASSUME NEW c \in Clients, NEW s \in Sessions, NEW o \in Ops,
             MutexRequest(c, s, o)
      PROVE  GuardInv'
  <2>1. Request(c, s, o) /\ UNCHANGED fvars /\ fpend[c] = NoProc
    BY <1>4, SMTT(30) DEF MutexRequest, Ready
  <2>2. ASSUME NEW t \in Sessions, fh[t].pc # "idle"
        PROVE  holding'[fh[t].cl]
    <3>1. /\ fh[t].cl \in Clients /\ fpend[fh[t].cl] = t /\ holding[fh[t].cl]
      BY <2>2 DEF GuardInv, FileServed
    <3>2. fh[t].cl # c
      BY <2>1, <3>1, ConstAssumption, SMTT(30)
    <3> QED  BY <2>1, <3>1, <3>2, SMTT(30) DEF Request, GuardInv, IInv, TypeOK
  <2> QED  BY <1>3, <2>1, <2>2, Zenon DEF Next
<1>5. CASE MutexStep
  <2>1. Next /\ UNCHANGED fvars
    BY <1>5 DEF MutexStep, Next
  <2>2. ASSUME NEW t \in Sessions, fh[t].pc # "idle"
        PROVE  holding'[fh[t].cl]
    <3>1. fh[t].cl \in Clients /\ holding[fh[t].cl]
      BY <2>2, SMTT(30) DEF GuardInv, FileServed
    <3> QED  BY <1>5, <3>1, StaysInside DEF MutexStep, Drop, GuardInv, IInv
  <2> QED  BY <1>3, <2>1, <2>2
<1>6. CASE UNCHANGED <<vars, fvars>>
  BY <1>3, <1>6, Zenon DEF vars, GuardInv, FileServed
<1> QED  BY <1>1, <1>2, <1>4, <1>5, <1>6 DEF GuardNext

(* Clients that send INTREAD and INTWRITE under the network mutex lose no  *)
(* update: an INTWRITE answered 0 replaced the version its client had      *)
(* seen, for any clients, sessions, payloads and faults.                   *)
THEOREM GuardedWrites == Discipline => (GuardSpec => []NoLostUpdate)
<1> SUFFICES ASSUME Discipline PROVE GuardSpec => []NoLostUpdate
  OBVIOUS
<1>1. GuardInv /\ [GuardNext]_<<vars, fvars>> => GuardInv'
  BY GuardStep
<1>2. GuardInv => NoLostUpdate
  BY DEF GuardInv
<1> QED  BY <1>1, <1>2, GuardStarts, PTL DEF GuardSpec

(* And what INTREAD sends them is the version it sends the hash of.        *)
THEOREM GuardedReads == Discipline => (GuardSpec => []ReadConsistent)
<1> SUFFICES ASSUME Discipline PROVE GuardSpec => []ReadConsistent
  OBVIOUS
<1>1. GuardInv /\ [GuardNext]_<<vars, fvars>> => GuardInv'
  BY GuardStep
<1>2. GuardInv => ReadConsistent
  BY DEF GuardInv, Agrees, ReadConsistent, F!ReadConsistent
<1> QED  BY <1>1, <1>2, GuardStarts, PTL DEF GuardSpec

=============================================================================
