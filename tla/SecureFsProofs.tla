--------------------------- MODULE SecureFsProofs ----------------------------------------
(***************************************************************************)
(* Proofs about SecureFs, for any sessions, identities and lines, with     *)
(* every failure and every death of a session that SecureFs has.           *)
(***************************************************************************)
EXTENDS SecureFs, SequenceTheorems, TLAPS

(* The handlers and the owner of the lock file are well formed.            *)
Typed ==
    /\ owner \in [{File} -> Sessions \cup {NoProc}]
    /\ h \in [Sessions -> Handlers]

(* A handler that works on the files owns the lock.                        *)
LockHeld == \A s \in Sessions : h[s].pc \in InFile => owner[File] = s

(* The copy that cmd_setfsperm() edits is meta; the permission it found in *)
(* the copy is in meta when it renames; the copy that is renamed over rd   *)
(* is meta.                                                                *)
CopyIsMeta ==
    \A s \in Sessions :
        /\ h[s].pc = "editing" /\ h[s].op = "set" => swp = meta
        /\ h[s].pc = "swapped" /\ h[s].op = "set" =>
              meta = <<>> \/ "set" \in Perm(meta, h[s].me)
        /\ h[s].pc = "recopied" => swp = meta

FsInv == Typed /\ LockHeld /\ CopyIsMeta /\ OkIsPublished

-----------------------------------------------------------------------------
(* A session that is in no command is well formed.                         *)
LEMMA IdleType == Idle \in Handlers
  BY SecureFsAssumption DEF Idle, Handlers, Lines, Bits

(* No session of a fresh directory works on its files.                     *)
LEMMA FsInit == Init => FsInv
<1> SUFFICES ASSUME Init PROVE FsInv
  OBVIOUS
<1>1. Typed
  BY IdleType DEF Init, Typed
<1>2. \A s \in Sessions : h[s].pc = "idle"
  BY Zenon DEF Init, Idle
<1> QED  BY <1>1, <1>2 DEF FsInv, LockHeld, CopyIsMeta, OkIsPublished, InFile

(* Two handlers that work on the files are the same handler.               *)
LEMMA OneInFile ==
    ASSUME LockHeld, NEW s \in Sessions, NEW t \in Sessions,
           h[s].pc \in InFile, h[t].pc \in InFile
    PROVE  s = t
  BY DEF LockHeld

(* A step of a handler that owns the lock keeps the invariant, if it keeps *)
(* it for that handler and leaves the lock and the others alone.           *)
LEMMA OwnStep ==
    ASSUME FsInv, NEW s \in Sessions, h[s].pc \in InFile, UNCHANGED owner,
           h' \in [Sessions -> Handlers],
           \A t \in Sessions \ {s} :
              h'[t].pc = h[t].pc /\ h'[t].op = h[t].op
              /\ h'[t].ok = h[t].ok /\ h'[t].me = h[t].me,
           h'[s].pc = "editing" /\ h'[s].op = "set" => swp' = meta',
           h'[s].pc = "swapped" /\ h'[s].op = "set" =>
              meta' = <<>> \/ "set" \in Perm(meta', h'[s].me),
           h'[s].pc = "recopied" => swp' = meta',
           h'[s].pc = "done" /\ h'[s].ok => rd' = meta'
    PROVE  FsInv'
<1>1. Typed'
  BY DEF FsInv, Typed
<1>2. owner[File] = s
  BY DEF FsInv, LockHeld
<1>3. \A t \in Sessions \ {s} : h'[t].pc \notin InFile
  BY OneInFile DEF FsInv
<1>4. LockHeld'
  BY <1>2, <1>3 DEF LockHeld
<1>5. CopyIsMeta'
  BY <1>3 DEF CopyIsMeta, InFile
<1>6. OkIsPublished'
  BY <1>3 DEF OkIsPublished, InFile
<1> QED  BY <1>1, <1>4, <1>5, <1>6 DEF FsInv

(* A step to a place outside the files, or to the lock, keeps the          *)
(* invariant: the others find meta and rd as they were, and swp too if one *)
(* of them works on the files.                                             *)
LEMMA OutStep ==
    ASSUME FsInv, NEW s \in Sessions, UNCHANGED <<meta, rd>>,
           UNCHANGED swp \/ h[s].pc \in InFile,
           h' \in [Sessions -> Handlers],
           \A t \in Sessions \ {s} : h'[t] = h[t],
           \/ h'[s].pc \notin InFile /\ UNCHANGED owner
           \/ /\ h'[s].pc = "locked" /\ owner[File] \in {NoProc, s}
              /\ owner' \in [{File} -> Sessions \cup {NoProc}]
              /\ owner'[File] = s
           \/ /\ h'[s].pc \notin InFile
              /\ owner' \in [{File} -> Sessions \cup {NoProc}]
              /\ owner[File] # s => owner'[File] = owner[File]
    PROVE  FsInv'
<1>1. Typed'
  BY DEF FsInv, Typed
<1>2. \A t \in Sessions \ {s} : h[t].pc \in InFile => owner'[File] = t
  BY SecureFsAssumption DEF FsInv, LockHeld
<1>3. LockHeld'
  BY <1>2 DEF LockHeld
<1>4. \A t \in Sessions \ {s} : h[t].pc \in InFile => UNCHANGED swp
  BY OneInFile DEF FsInv
<1>5. CopyIsMeta'
  BY <1>4 DEF FsInv, CopyIsMeta, InFile
<1>6. OkIsPublished'
  BY DEF FsInv, OkIsPublished, InFile
<1> QED  BY <1>1, <1>3, <1>5, <1>6 DEF FsInv

(* A handler that moves on, with or without a result, is a handler, and    *)
(* the others are as they were.                                            *)
LEMMA Moves ==
    ASSUME Typed, NEW s \in Sessions, NEW p \in InFile, NEW r \in BOOLEAN
    PROVE  /\ Goto(s, p) => /\ h' \in [Sessions -> Handlers]
                            /\ h'[s].pc = p /\ h'[s].op = h[s].op
                            /\ h'[s].me = h[s].me /\ h'[s].ok = h[s].ok
                            /\ h'[s].line = h[s].line
                            /\ \A t \in Sessions \ {s} : h'[t] = h[t]
           /\ End(s, r) => /\ h' \in [Sessions -> Handlers]
                           /\ h'[s].pc = "done" /\ h'[s].op = h[s].op
                           /\ h'[s].ok = r /\ h'[s].line = h[s].line
                           /\ \A t \in Sessions \ {s} : h'[t] = h[t]
  BY DEF Typed, Handlers, Goto, End, InFile

(* A handler with one field changed is a handler.                          *)
LEMMA SetFields ==
    ASSUME NEW r \in Handlers
    PROVE  /\ \A c \in SUBSET BOOLEAN : [r EXCEPT !.could = c] \in Handlers
           /\ \A n \in {1, 2} : [r EXCEPT !.chg = n] \in Handlers
           /\ \A i \in Ids : [r EXCEPT !.me = i] \in Handlers
           /\ \A m \in SUBSET Bits : [r EXCEPT !.line.mask = m] \in Handlers
           /\ \A b \in BOOLEAN : [r EXCEPT !.ok = b] \in Handlers
           /\ \A p \in {"checked", "id"} : [r EXCEPT !.pc = p] \in Handlers
  <1>1. \A c \in SUBSET BOOLEAN : [r EXCEPT !.could = c] \in Handlers
    BY DEF Handlers
  <1>2. \A n \in {1, 2} : [r EXCEPT !.chg = n] \in Handlers
    BY DEF Handlers
  <1>3. \A i \in Ids : [r EXCEPT !.me = i] \in Handlers
    BY DEF Handlers
  <1>4. \A m \in SUBSET Bits : [r EXCEPT !.line.mask = m] \in Handlers
    BY DEF Handlers, Lines
  <1>5. \A b \in BOOLEAN : [r EXCEPT !.ok = b] \in Handlers
    BY DEF Handlers
  <1>6. \A p \in {"checked", "id"} : [r EXCEPT !.pc = p] \in Handlers
    BY DEF Handlers
  <1> QED  BY <1>1, <1>2, <1>3, <1>4, <1>5, <1>6

(* So is one whose history of a check is brought up to date.               *)
LEMMA HistoryType ==
    ASSUME NEW r \in Handlers, NEW c \in SUBSET BOOLEAN, NEW n \in {1, 2}
    PROVE  /\ [r EXCEPT !.could = c, !.chg = n] \in Handlers
           /\ [r EXCEPT !.could = c, !.chg = n].pc = r.pc
           /\ [r EXCEPT !.could = c, !.chg = n].op = r.op
           /\ [r EXCEPT !.could = c, !.chg = n].ok = r.ok
           /\ [r EXCEPT !.could = c, !.chg = n].me = r.me
<1> DEFINE q == [r EXCEPT !.could = c]
<1>1. q \in Handlers
  BY SetFields, Zenon
<1>2. [q EXCEPT !.chg = n] \in Handlers
  BY <1>1, SetFields, Zenon
<1>3. [r EXCEPT !.could = c, !.chg = n] = [q EXCEPT !.chg = n]
  OBVIOUS
<1>4. [r EXCEPT !.could = c, !.chg = n].pc = r.pc
  BY DEF Handlers
<1>5. [r EXCEPT !.could = c, !.chg = n].op = r.op
  BY DEF Handlers
<1>6. [r EXCEPT !.could = c, !.chg = n].ok = r.ok
  BY DEF Handlers
<1>7. [r EXCEPT !.could = c, !.chg = n].me = r.me
  BY DEF Handlers
<1> QED  BY <1>2, <1>3, <1>4, <1>5, <1>6, <1>7

(* The handler of a check that starts.                                     *)
Checking(i, m, c, b, p) ==
    [Idle EXCEPT !.me = i, !.line.mask = m, !.could = c, !.ok = b, !.pc = p]

(* It is a handler.                                                        *)
LEMMA CheckType ==
    ASSUME NEW i \in Ids, NEW m \in SUBSET Bits, NEW c \in SUBSET BOOLEAN,
           NEW b \in BOOLEAN, NEW p \in {"checked", "id"}
    PROVE  LET q == Checking(i, m, c, b, p) IN
           /\ q \in Handlers /\ q.pc = p
           /\ q.me = i /\ q.line.mask = m /\ q.could = c /\ q.ok = b /\ q.chg = 0
<1> DEFINE r1 == [Idle EXCEPT !.me = i]
           r2 == [r1 EXCEPT !.line.mask = m]
           r3 == [r2 EXCEPT !.could = c]
           r4 == [r3 EXCEPT !.ok = b]
           r5 == [r4 EXCEPT !.pc = p]
<1>1. r1 \in Handlers /\ r1.me = i /\ r1.chg = 0
  BY IdleType, SetFields, Zenon DEF Idle
<1> HIDE DEF r1
<1>2. r2 \in Handlers /\ r2.me = i /\ r2.chg = 0 /\ r2.line.mask = m
  <2>1. r2 \in Handlers
    BY <1>1, SetFields, Zenon
  <2>2. r2.me = i /\ r2.chg = 0 /\ r2.line.mask = m
    BY <1>1 DEF Handlers, Lines
  <2> QED  BY <2>1, <2>2
<1> HIDE DEF r2
<1>3. /\ r3 \in Handlers /\ r3.me = i /\ r3.chg = 0 /\ r3.line.mask = m
      /\ r3.could = c
  <2>1. r3 \in Handlers
    BY <1>2, SetFields, Zenon
  <2>2. r3.me = i /\ r3.chg = 0 /\ r3.line = r2.line /\ r3.could = c
    BY <1>2 DEF Handlers
  <2> QED  BY <1>2, <2>1, <2>2
<1> HIDE DEF r3
<1>4. /\ r4 \in Handlers /\ r4.me = i /\ r4.chg = 0 /\ r4.line.mask = m
      /\ r4.could = c /\ r4.ok = b
  <2>1. r4 \in Handlers
    BY <1>3, SetFields, Zenon
  <2>2. r4.me = i /\ r4.chg = 0 /\ r4.line = r3.line /\ r4.could = c /\ r4.ok = b
    BY <1>3 DEF Handlers
  <2> QED  BY <1>3, <2>1, <2>2
<1> HIDE DEF r4
<1>5. r5 \in Handlers
  BY <1>4, SetFields, Zenon
<1>6. /\ r5.me = i /\ r5.chg = 0 /\ r5.line.mask = m
      /\ r5.could = c /\ r5.ok = b /\ r5.pc = p
  BY <1>4 DEF Handlers
<1>7. Checking(i, m, c, b, p) = r5
  BY DEF Checking, r1, r2, r3, r4
<1> HIDE DEF r5
<1> QED  BY <1>5, <1>6, <1>7

(* So it is when the session leaves its command, by its end or its death.  *)
LEMMA Leaves ==
    ASSUME Typed, NEW s \in Sessions, h' = [h EXCEPT ![s] = Idle],
           \/ owner' = RL!AfterClose(owner, File, s)
           \/ owner' = RL!AfterExit(owner, s)
    PROVE  /\ h' \in [Sessions -> Handlers] /\ h'[s].pc \notin InFile
           /\ \A t \in Sessions \ {s} : h'[t] = h[t]
           /\ owner' \in [{File} -> Sessions \cup {NoProc}]
           /\ owner[File] # s => owner'[File] = owner[File]
<1>1. h' \in [Sessions -> Handlers] /\ h'[s] = Idle
      /\ \A t \in Sessions \ {s} : h'[t] = h[t]
  BY IdleType DEF Typed
<1>2. Idle.pc \notin InFile
  BY DEF Idle, InFile
<1>3. /\ owner' \in [{File} -> Sessions \cup {NoProc}]
      /\ owner[File] # s => owner'[File] = owner[File]
  BY DEF Typed, RL!AfterClose, RL!Unlocked, RL!AfterExit
<1> QED  BY <1>1, <1>2, <1>3

-----------------------------------------------------------------------------
(* No step of cmd_setfsperm(), cmd_remfsperm() or a check, and no failure  *)
(* or death of a session, breaks the invariant.                            *)
LEMMA FsStep == FsInv /\ [Next]_vars => FsInv'
<1> SUFFICES ASSUME FsInv, [Next]_vars PROVE FsInv'
  OBVIOUS
<1>0. Typed
  BY DEF FsInv
<1>1. ASSUME NEW s \in Sessions, Lock(s) PROVE FsInv'
  <2>1. /\ h' \in [Sessions -> Handlers] /\ h'[s].pc = "locked"
        /\ \A t \in Sessions \ {s} : h'[t] = h[t]
    BY <1>0, <1>1 DEF Lock, Typed, Handlers, InFile
  <2>2. /\ owner[File] \in {NoProc, s} /\ owner'[File] = s
        /\ owner' \in [{File} -> Sessions \cup {NoProc}]
    BY <1>0, <1>1 DEF Lock, Typed, RL!Lockable, RL!Locked
  <2> QED  BY <1>1, <2>1, <2>2, OutStep DEF Lock
<1>2. ASSUME NEW s \in Sessions, OpenMeta(s) \/ CopyOpen(s) PROVE FsInv'
  BY <1>0, <1>2, Moves, OwnStep, ZenonT(40) DEF OpenMeta, CopyOpen, Disk, Rest, InFile
<1>3. ASSUME NEW s \in Sessions, CopyMeta(s) PROVE FsInv'
  BY <1>0, <1>3, Moves, OwnStep, ZenonT(40) DEF CopyMeta, Disk, Rest, InFile
<1>4. ASSUME NEW s \in Sessions, AddLine(s) PROVE FsInv'
  <2>1. swp = meta /\ UNCHANGED owner /\ h[s].pc = "editing"
        /\ h[s].op = "set"
    BY <1>4 DEF AddLine, FsInv, CopyIsMeta
  <2>2. CASE swp = <<>> \/ "set" \in Perm(swp, h[s].me)
    <3>1. Goto(s, "swapped") /\ meta' = meta
      BY <1>4, <2>2, Zenon DEF AddLine, Flush, Disk
    <3> QED  BY <1>0, <2>1, <2>2, <3>1, Moves, OwnStep, ZenonT(40) DEF InFile
  <2>3. CASE ~(swp = <<>> \/ "set" \in Perm(swp, h[s].me))
    BY <1>0, <1>4, <2>1, <2>3, Moves, OwnStep, Zenon DEF AddLine, Disk, InFile
  <2> QED  BY <2>2, <2>3
<1>5. ASSUME NEW s \in Sessions, RemCheck(s) PROVE FsInv'
  <2>1. /\ h[s].pc = "locked" /\ h[s].op = "rem" /\ UNCHANGED owner
        /\ Goto(s, "editing") \/ End(s, FALSE)
    BY <1>5, Zenon DEF RemCheck, Rest
  <2> QED  BY <1>0, <2>1, Moves, OwnStep, Zenon DEF InFile
<1>6. ASSUME NEW s \in Sessions, DropLines(s) PROVE FsInv'
  BY <1>0, <1>6, Moves, OwnStep, Zenon DEF DropLines, InFile
<1>7. ASSUME NEW s \in Sessions, RenameMeta(s) \/ RecopyOpen(s) PROVE FsInv'
  BY <1>0, <1>7, Moves, OwnStep, ZenonT(40) DEF RenameMeta, RecopyOpen, Disk, Rest, InFile
<1>8. ASSUME NEW s \in Sessions, RecopyMeta(s) PROVE FsInv'
  BY <1>0, <1>8, Moves, OwnStep, ZenonT(40) DEF RecopyMeta, Disk, Rest, InFile
<1>9. ASSUME NEW s \in Sessions, RenameRd(s) PROVE FsInv'
  <2>1. swp = meta /\ h[s].pc = "recopied" /\ UNCHANGED owner
        /\ rd' = meta' 
    BY <1>9, Zenon DEF RenameRd, Disk, Rest, FsInv, CopyIsMeta
  <2>2. /\ h' \in [Sessions -> Handlers] /\ h'[s].pc = "done"
        /\ \A t \in Sessions \ {s} :
              h'[t].pc = h[t].pc /\ h'[t].op = h[t].op
              /\ h'[t].ok = h[t].ok /\ h'[t].me = h[t].me
    <3>1. ASSUME NEW t \in Sessions \ {s}
          PROVE  /\ h'[t] \in Handlers /\ h'[t].pc = h[t].pc
                 /\ h'[t].op = h[t].op /\ h'[t].ok = h[t].ok
                 /\ h'[t].me = h[t].me
      <4>1. h[t] \in Handlers
        BY <1>0 DEF Typed
      <4> DEFINE c == h[t].could \cup {Answer(swp, h[t].me, h[t].line.mask)}
                 n == IF h[t].chg = 0 /\ OneEdit(rd, swp) THEN 1 ELSE 2
                 r == [h[t] EXCEPT !.could = c, !.chg = n]
      <4>2. c \in SUBSET BOOLEAN
        BY <4>1, Zenon DEF Handlers, Answer
      <4>3. n \in {1, 2}
        OBVIOUS
      <4>4. h'[t] = h[t] \/ h'[t] = r
        BY <1>9, Zenon DEF RenameRd
      <4> HIDE DEF c, n
      <4>5. /\ r \in Handlers /\ r.pc = h[t].pc /\ r.op = h[t].op
            /\ r.ok = h[t].ok /\ r.me = h[t].me
        <5>1. PICK g \in Handlers : g = h[t]
          BY <4>1, Zenon
        <5> DEFINE q == [g EXCEPT !.could = c, !.chg = n]
        <5>2. /\ q \in Handlers /\ q.pc = g.pc /\ q.op = g.op
              /\ q.ok = g.ok /\ q.me = g.me
          BY <4>2, <4>3, HistoryType, ZenonT(60)
        <5>3. r = q
          BY <5>1, Zenon
        <5> HIDE DEF r, q
        <5> QED  BY <5>1, <5>2, <5>3, Zenon
      <4> HIDE DEF r
      <4> QED  BY <4>1, <4>4, <4>5
    <3>2. h'[s] \in Handlers /\ h'[s].pc = "done"
      <4> DEFINE g == h[s]
      <4>1. g \in Handlers
        BY <1>0 DEF Typed
      <4>2. h'[s] = [g EXCEPT !.pc = "done", !.ok = TRUE]
        BY <1>9, Zenon DEF RenameRd
      <4> HIDE DEF g
      <4>3. /\ [g EXCEPT !.pc = "done", !.ok = TRUE] \in Handlers
            /\ [g EXCEPT !.pc = "done", !.ok = TRUE].pc = "done"
        BY <4>1, Zenon DEF Handlers, InFile
      <4> QED  BY <4>2, <4>3
    <3>3. DOMAIN h' = Sessions /\ h' = [t \in Sessions |-> h'[t]]
      BY <1>9, Zenon DEF RenameRd
    <3> QED  BY <3>1, <3>2, <3>3
  <2> QED  BY <2>1, <2>2, OwnStep DEF InFile
<1>10. ASSUME NEW s \in Sessions, CallFails(s) PROVE FsInv'
  <2>1. h[s].pc \in InFile /\ End(s, FALSE) /\ UNCHANGED owner
    BY <1>10, Zenon DEF CallFails, Rest, InFile
  <2> QED  BY <1>0, <2>1, Moves, OwnStep, Zenon DEF InFile
<1>11. ASSUME NEW s \in Sessions, Close(s) \/ OpenCrash(s) \/ Kill(s)
       PROVE FsInv'
  <2>1. /\ h' = [h EXCEPT ![s] = Idle] /\ UNCHANGED <<meta, rd>>
        /\ \/ owner' = RL!AfterClose(owner, File, s)
           \/ owner' = RL!AfterExit(owner, s)
        /\ UNCHANGED swp \/ h[s].pc \in InFile
    BY <1>11 DEF Close, OpenCrash, Kill, Disk, InFile
  <2> QED  BY <1>0, <2>1, Leaves, OutStep, Zenon
<1>12. ASSUME NEW s \in Sessions, CheckId(s) \/ CheckOther(s) PROVE FsInv'
  <2>1. /\ h' \in [Sessions -> Handlers] /\ h'[s].pc \notin InFile
        /\ \A t \in Sessions \ {s} : h'[t] = h[t]
    BY <1>0, <1>12 DEF CheckId, CheckOther, Typed, Handlers, InFile
  <2> QED  BY <1>12, <2>1, OutStep DEF CheckId, CheckOther
<1>13. ASSUME NEW s \in Sessions, CheckEnd(s) PROVE FsInv'
  <2>1. /\ h' \in [Sessions -> Handlers] /\ h'[s].pc \notin InFile
        /\ \A t \in Sessions \ {s} : h'[t] = h[t]
    BY <1>0, <1>13, IdleType DEF CheckEnd, Typed, Idle, InFile
  <2> QED  BY <1>13, <2>1, OutStep DEF CheckEnd
<1>14. ASSUME NEW s \in Sessions, NEW i \in Ids, NEW o \in {"set", "rem"},
              NEW l \in Lines, Request(s, o, i, l)
       PROVE FsInv'
  <2>1. /\ h' \in [Sessions -> Handlers] /\ h'[s].pc \notin InFile
        /\ \A t \in Sessions \ {s} : h'[t] = h[t]
    <3> DEFINE r == [Idle EXCEPT !.pc = "blocked", !.op = o, !.me = i,
                                 !.line = l]
    <3>1. r \in Handlers /\ r.pc = "blocked"
      BY IdleType, Zenon DEF Handlers
    <3>2. h' = [h EXCEPT ![s] = r]
      BY <1>14 DEF Request
    <3> HIDE DEF r
    <3> QED  BY <1>0, <3>1, <3>2 DEF Typed, InFile
  <2> QED  BY <1>14, <2>1, OutStep DEF Request
<1>15. ASSUME NEW s \in Sessions, NEW i \in Ids, NEW mask \in {{}, {"use"}},
              CheckStart(s, i, mask)
       PROVE FsInv'
  <2>1. /\ h' \in [Sessions -> Handlers] /\ h'[s].pc \notin InFile
        /\ \A t \in Sessions \ {s} : h'[t] = h[t]
    <3> DEFINE p == IF rd = NoFile \/ mask = {} THEN "checked" ELSE "id"
               c == {Answer(rd, i, mask)}
               b == rd = NoFile
               r == Checking(i, mask, c, b, p)
    <3>1. p \in {"checked", "id"} /\ c \in SUBSET BOOLEAN /\ b \in BOOLEAN
      BY DEF Answer
    <3>2. mask \in SUBSET Bits
      BY DEF Bits
    <3>3. h' = [h EXCEPT ![s] = r]
      BY <1>15 DEF CheckStart, Checking
    <3> HIDE DEF p, c, b
    <3>4. r \in Handlers /\ r.pc = p
      BY <3>1, <3>2, CheckType
    <3> HIDE DEF r
    <3> QED  BY <1>0, <3>1, <3>3, <3>4 DEF Typed, InFile
  <2> QED  BY <1>15, <2>1, OutStep, Zenon DEF CheckStart
<1>16. CASE UNCHANGED vars
  <2>1. UNCHANGED <<meta, rd, swp, owner, h>>
    BY <1>16 DEF vars
  <2>2. Typed' /\ LockHeld' /\ OkIsPublished'
    BY <2>1 DEF FsInv, Typed, LockHeld, OkIsPublished
  <2>3. CopyIsMeta'
    BY <2>1 DEF FsInv, CopyIsMeta
  <2> QED  BY <2>2, <2>3 DEF FsInv
<1> QED
  BY <1>1, <1>2, <1>3, <1>4, <1>5, <1>6, <1>7, <1>8, <1>9, <1>10, <1>11,
     <1>12, <1>13, <1>14, <1>15, <1>16 DEF Next, Step

(* The OK of SETFSPERM and REMFSPERM means that rd is the version they     *)
(* made, whichever sessions were ended between their two renames before.   *)
THEOREM Published == Spec => []OkIsPublished
<1>1. FsInv => OkIsPublished
  BY SMTT(30) DEF FsInv
<1> QED  BY <1>1, FsInit, FsStep, PTL DEF Spec

-----------------------------------------------------------------------------
(* What RdIsWhole says of one step.                                        *)
Whole == rd' # rd => rd' = meta

(* Only the rename of the recopied swap file changes rd.                   *)
LEMMA WholeStep == FsInv /\ Next => Whole
<1> SUFFICES ASSUME FsInv, Next PROVE Whole
  OBVIOUS
<1>1. ASSUME NEW s \in Sessions, RenameRd(s) PROVE Whole
  BY <1>1, Zenon DEF RenameRd, Disk, Whole, FsInv, CopyIsMeta
<1>2. CASE UNCHANGED rd
  BY <1>2 DEF Whole
<1>3. ASSUME NEW s \in Sessions, Step(s), ~RenameRd(s) PROVE UNCHANGED rd
  BY <1>3, Zenon DEF Step, Lock, OpenMeta, CopyOpen, CopyMeta, AddLine, Flush,
              RemCheck, DropLines, RenameMeta, RecopyOpen, RecopyMeta,
              CallFails, Close, OpenCrash, CheckId, CheckOther, CheckEnd,
              Disk
<1> QED  BY <1>1, <1>2, <1>3, ZenonT(40) DEF Next, Kill, Request, CheckStart

(* The commands consult whole versions of the permissions only: rd goes    *)
(* from one to the current meta in one step of cmd_setfsperm() or          *)
(* cmd_remfsperm().                                                        *)
THEOREM WholeVersions == Spec => RdIsWhole
<1>1. FsInv /\ [Next]_vars => [Whole]_vars
  BY WholeStep
<1> QED  BY <1>1, FsInit, FsStep, PTL DEF Spec, RdIsWhole, Whole

-----------------------------------------------------------------------------
(* What OnlyGrantersAdd says of one step.                                  *)
Granter ==
    \A s \in Sessions :
        /\ h[s].pc = "swapped" /\ h[s].op = "set" /\ h'[s].pc = "renamed"
        /\ meta # NoFile /\ meta # <<>>
        => "set" \in Perm(meta, h[s].me)

(* The permission that cmd_setfsperm() found in the copy it took is in     *)
(* meta when it renames the copy over it.                                  *)
THEOREM GrantersAdd == Spec => OnlyGrantersAdd
<1>1. FsInv /\ [Next]_vars => [Granter]_vars
  BY DEF FsInv, CopyIsMeta, Granter
<1> QED  BY <1>1, FsInit, FsStep, PTL DEF Spec, OnlyGrantersAdd, Granter

-----------------------------------------------------------------------------
Files == Seq(Lines) \cup {NoFile}

(* The files hold lines, and are there when a handler counts on it.        *)
FilesOk ==
    /\ meta \in Files /\ rd \in Files /\ swp \in Files
    /\ rd # NoFile => meta # NoFile
    /\ \A s \in Sessions :
          /\ h[s].pc \in {"opened", "copying", "editing", "swapped", "renamed",
                          "recopying", "recopied"} => meta # NoFile
          /\ h[s].pc \in {"swapped", "recopied"} => swp # NoFile

(* A file that is there has the line.                                      *)
Has(f, l) == f # NoFile /\ \E k \in DOMAIN f : f[k] = l

(* The file that replaces meta is its edit, and a line that is set is in   *)
(* meta before the reply, unless an fclose() has failed.                   *)
EditOk ==
    ~short =>
        /\ \A l \in granted : Has(meta, l)
        /\ \A s \in Sessions :
              /\ h[s].pc = "swapped" => swp \in
                    IF h[s].op = "set" THEN {Append(meta, h[s].line)}
                    ELSE Without(meta, h[s].line.id)
              /\ /\ h[s].op = "set"
                 /\ \/ h[s].pc \in {"renamed", "recopying", "recopied"}
                    \/ h[s].pc = "done" /\ h[s].ok
                 => Has(meta, h[s].line)

(* A check that goes on has its answer in one of the versions it has seen, *)
(* also when it has found nothing for its identity and rd has changed by   *)
(* one edit since.                                                         *)
CheckOk(r, f) ==
    /\ r.pc \in {"id", "other"} => f # NoFile /\ r.line.mask # {}
    /\ r.pc = "id" => Answer(f, r.me, r.line.mask) \in r.could
    /\ r.pc = "other" /\ r.chg = 0 =>
          Perm(f, r.me) = {} /\ Answer(f, r.me, r.line.mask) \in r.could
    /\ r.pc = "other" /\ r.chg = 1 =>
          (r.line.mask \subseteq Perm(f, Other)) \in r.could
    /\ r.pc = "checked" /\ r.chg <= 1 => r.ok \in r.could

LinesInv == FilesOk /\ EditOk /\ \A s \in Sessions : CheckOk(h[s], rd)

-----------------------------------------------------------------------------
(* What a copy without the lines of an identity is.                        *)
LEMMA Kept ==
    ASSUME NEW f \in Seq(Lines), NEW i, NEW g \in Without(f, i)
    PROVE  /\ g \in Seq(Lines)
           /\ \E p \in [DOMAIN g -> DOMAIN f] :
                 /\ \A a \in DOMAIN g : g[a] = f[p[a]] /\ f[p[a]].id # i
                 /\ \A a, b \in DOMAIN g : a < b => p[a] < p[b]
                 /\ \A k \in DOMAIN f : f[k].id # i =>
                       \E a \in DOMAIN g : p[a] = k
<1> DEFINE K == {k \in DOMAIN f : f[k].id # i}
<1>0. PICK n \in 0 .. Len(f) : \E p \in [1 .. n -> K] :
         /\ g = [a \in DOMAIN p |-> f[p[a]]]
         /\ \A a, b \in DOMAIN p : a < b => p[a] < p[b]
         /\ \A k \in K : \E a \in DOMAIN p : p[a] = k
  BY ZenonT(40) DEF Without
<1>1. PICK p \in [1 .. n -> K] :
         /\ g = [a \in DOMAIN p |-> f[p[a]]]
         /\ \A a, b \in DOMAIN p : a < b => p[a] < p[b]
         /\ \A k \in K : \E a \in DOMAIN p : p[a] = k
  BY <1>0, Zenon
<1>2. n \in Nat /\ DOMAIN g = 1 .. n /\ DOMAIN p = 1 .. n
  BY <1>1
<1>3. \A a \in 1 .. n : p[a] \in DOMAIN f /\ f[p[a]].id # i /\ g[a] = f[p[a]]
  BY <1>1, <1>2
<1>4. \A k \in DOMAIN f : f[k] \in Lines
  OBVIOUS
<1>5. g = [a \in 1 .. n |-> f[p[a]]]
  BY <1>1, <1>2
<1>6. g \in [1 .. n -> Lines]
  BY <1>3, <1>4, <1>5
<1>7. g \in Seq(Lines)
  BY <1>2, <1>6
<1>8. p \in [DOMAIN g -> DOMAIN f]
  BY <1>1, <1>2, <1>3
<1> QED  BY <1>1, <1>2, <1>3, <1>7, <1>8, ZenonT(40)

(* It has the lines of all the others.                                     *)
LEMMA KeptLines ==
    ASSUME NEW f \in Seq(Lines), NEW i, NEW g \in Without(f, i), NEW l,
           Has(f, l), l.id # i, g # NoFile
    PROVE  Has(g, l)
<1>1. PICK k \in DOMAIN f : f[k] = l
  BY DEF Has
<1>2. PICK a \in DOMAIN g : g[a] = l
  BY <1>1, Kept
<1> QED  BY <1>2 DEF Has

(* An edit that leaves everything for an identity as it was but for the    *)
(* identity itself, ...                                                    *)
LEMMA Appended ==
    ASSUME NEW f \in Seq(Lines), NEW l \in Lines, NEW i
    PROVE  LET g == Append(f, l) IN
           /\ First(g, i) \subseteq First(f, i) \cup {Len(f) + 1}
           /\ First(f, i) \subseteq First(g, i)
           /\ Len(f) + 1 \in First(g, i) => l.id = i
           /\ \A k \in DOMAIN f : g[k] = f[k]
<1> DEFINE g == Append(f, l)
<1>1. /\ Len(f) \in Nat /\ DOMAIN f = 1 .. Len(f) /\ DOMAIN g = 1 .. Len(f) + 1
      /\ g[Len(f) + 1] = l /\ \A k \in 1 .. Len(f) : g[k] = f[k]
  OBVIOUS
<1> HIDE DEF g
<1>2. ASSUME NEW k \in First(g, i), k # Len(f) + 1  PROVE k \in First(f, i)
  <2>1. k \in 1 .. Len(f) /\ g[k].id = i /\ \A j \in 1 .. k - 1 : g[j].id # i
    BY <1>1, <1>2 DEF First
  <2>2. \A j \in 1 .. k - 1 : j \in 1 .. Len(f)
    BY <1>1, <2>1
  <2> QED  BY <1>1, <2>1, <2>2 DEF First
<1>3. ASSUME NEW k \in First(f, i)  PROVE k \in First(g, i)
  <2>1. k \in 1 .. Len(f) /\ f[k].id = i /\ \A j \in 1 .. k - 1 : f[j].id # i
    BY <1>1, <1>3 DEF First
  <2>2. k \in DOMAIN g /\ \A j \in 1 .. k - 1 : j \in 1 .. Len(f)
    BY <1>1, <2>1
  <2> QED  BY <1>1, <2>1, <2>2 DEF First
<1>4. Len(f) + 1 \in First(g, i) => l.id = i
  BY <1>1 DEF First
<1> QED  BY <1>1, <1>2, <1>3, <1>4 DEF g

(* ... and one that takes no more from an identity than its own lines.     *)
LEMMA Filtered ==
    ASSUME NEW f \in Seq(Lines), NEW i, NEW g \in Without(f, i), NEW j,
           f # NoFile, g # NoFile
    PROVE  Perm(g, j) \subseteq Perm(f, j)
<1>1. PICK p \in [DOMAIN g -> DOMAIN f] :
         /\ \A a \in DOMAIN g : g[a] = f[p[a]] /\ f[p[a]].id # i
         /\ \A a, b \in DOMAIN g : a < b => p[a] < p[b]
         /\ \A k \in DOMAIN f : f[k].id # i => \E a \in DOMAIN g : p[a] = k
  BY Kept
<1>0. /\ g \in Seq(Lines) /\ Len(g) \in Nat /\ DOMAIN g = 1 .. Len(g)
      /\ Len(f) \in Nat /\ DOMAIN f = 1 .. Len(f)
  BY Kept
<1>2. ASSUME NEW a \in First(g, j)  PROVE p[a] \in First(f, j) /\ f[p[a]] = g[a]
  <2>1. /\ a \in DOMAIN g /\ g[a].id = j /\ p[a] \in DOMAIN f /\ f[p[a]] = g[a]
        /\ f[p[a]].id # i /\ \A b \in 1 .. a - 1 : g[b].id # j
    BY <1>1, <1>2 DEF First
  <2>2. ASSUME NEW k \in 1 .. p[a] - 1, f[k].id = j  PROVE FALSE
    <3>1. k \in DOMAIN f /\ f[k].id # i /\ k < p[a] /\ k \in Nat /\ p[a] \in Nat
      BY <1>0, <2>1, <2>2
    <3>2. PICK b \in DOMAIN g : p[b] = k
      BY <1>1, <3>1
    <3>3. b # a /\ ~(a < b)
      BY <1>1, <2>1, <3>1, <3>2
    <3>4. b \in 1 .. a - 1
      BY <1>0, <2>1, <3>2, <3>3
    <3> QED  BY <1>1, <2>1, <2>2, <3>2, <3>4
  <2> QED  BY <2>1, <2>2 DEF First
<1> QED  BY <1>2 DEF Perm

(* A check that found nothing for its identity in the version f, and reads *)
(* for everybody else in the next, g, answers as one of them does.         *)
LEMMA OneEditAnswers ==
    ASSUME NEW f \in Seq(Lines), NEW g \in Seq(Lines), f # NoFile, g # NoFile,
           OneEdit(f, g), NEW i, NEW m, m # {}, Perm(f, i) = {}
    PROVE  \/ (m \subseteq Perm(g, Other)) <=> Answer(f, i, m)
           \/ (m \subseteq Perm(g, Other)) <=> Answer(g, i, m)
<1>1. CASE Perm(g, i) = {}
  BY <1>1 DEF Answer
<1>2. CASE Perm(g, i) # {}
  <2>1. PICK l \in Lines : g = Append(f, l)
    BY <1>2, Filtered DEF OneEdit
  <2>2. /\ First(g, i) \subseteq First(f, i) \cup {Len(f) + 1}
        /\ Len(f) + 1 \in First(g, i) => l.id = i
        /\ \A k \in DOMAIN f : g[k] = f[k]
    BY <2>1, Appended
  <2>3. l.id = i
    <3>1. PICK k \in First(g, i) : g[k].mask # {}
      BY <1>2 DEF Perm
    <3>2. k \notin First(f, i)
      <4>1. k \in First(f, i) => k \in DOMAIN f
        BY DEF First
      <4> QED  BY <2>2, <3>1, <4>1 DEF Perm
    <3> QED  BY <2>2, <3>1, <3>2
  <2>4. CASE i = Other
    BY <1>2, <2>4 DEF Answer
  <2>5. CASE i # Other
    <3>1. First(g, Other) = First(f, Other) /\ \A k \in DOMAIN f : g[k] = f[k]
      <4>1. /\ First(g, Other) \subseteq First(f, Other) \cup {Len(f) + 1}
            /\ First(f, Other) \subseteq First(g, Other)
            /\ Len(f) + 1 \in First(g, Other) => l.id = Other
        BY <2>1, Appended
      <4> QED  BY <2>2, <2>3, <2>5, <4>1
    <3>2. \A k \in First(f, Other) : k \in DOMAIN f
      BY DEF First
    <3>3. Perm(g, Other) = Perm(f, Other)
      BY <3>1, <3>2 DEF Perm
    <3> QED  BY <3>3 DEF Answer
  <2> QED  BY <2>4, <2>5
<1> QED  BY <1>1, <1>2

-----------------------------------------------------------------------------
(* A step of the handler that owns the lock: nobody else counts on the     *)
(* files but the checks, on rd.                                            *)
LEMMA OwnLines ==
    ASSUME FsInv, LinesInv, NEW s \in Sessions, h[s].pc \in InFile,
           h'[s].pc \in InFile,
           \A t \in Sessions \ {s} : h'[t].pc = h[t].pc /\ CheckOk(h'[t], rd'),
           meta' \in Files, rd' \in Files, swp' \in Files,
           rd' # NoFile => meta' # NoFile,
           h'[s].pc \in {"opened", "copying", "editing", "swapped", "renamed",
                         "recopying", "recopied"} => meta' # NoFile,
           h'[s].pc \in {"swapped", "recopied"} => swp' # NoFile,
           ~short' => \A l \in granted' : Has(meta', l),
           ~short' /\ h'[s].pc = "swapped" =>
              swp' \in IF h'[s].op = "set" THEN {Append(meta', h'[s].line)}
                       ELSE Without(meta', h'[s].line.id),
           /\ ~short' /\ h'[s].op = "set"
           /\ \/ h'[s].pc \in {"renamed", "recopying", "recopied"}
              \/ h'[s].pc = "done" /\ h'[s].ok
           => Has(meta', h'[s].line)
    PROVE  LinesInv'
<1>1. \A t \in Sessions \ {s} : h'[t].pc \notin InFile
  BY OneInFile DEF FsInv
<1>2. FilesOk'
  BY <1>1, Zenon DEF FilesOk, Files, InFile
<1>3. EditOk'
  BY <1>1, SMTT(30) DEF EditOk, InFile
<1>4. CheckOk(h'[s], rd')
  BY SMTT(30) DEF CheckOk, InFile
<1> QED  BY <1>2, <1>3, <1>4 DEF LinesInv

(* A step to a place outside the files, or to the lock.                    *)
LEMMA OutLines ==
    ASSUME FsInv, LinesInv, NEW s \in Sessions, UNCHANGED <<meta, rd, short>>,
           UNCHANGED swp \/ (h[s].pc \in InFile /\ swp' \in Files),
           h'[s].pc \notin InFile \/ h'[s].pc = "locked",
           \A t \in Sessions \ {s} : h'[t] = h[t],
           CheckOk(h'[s], rd),
           \A l \in granted' : l \in granted \/ (~short => Has(meta, l))
    PROVE  LinesInv'
<1>1. \A t \in Sessions \ {s} : h[t].pc \in InFile => UNCHANGED swp
  BY OneInFile DEF FsInv
<1>0. FilesOk /\ EditOk /\ \A t \in Sessions : CheckOk(h[t], rd)
  BY DEF LinesInv
<1>2. FilesOk'
  BY <1>0, <1>1, SMTT(30) DEF FilesOk, Files, InFile
<1>3. EditOk'
  BY <1>0, <1>1 DEF EditOk, InFile
<1>4. \A t \in Sessions : CheckOk(h'[t], rd')
  BY <1>0
<1> QED  BY <1>2, <1>3, <1>4 DEF LinesInv

(* What the steps of the owner of the lock find.                           *)
LEMMA OwnFiles ==
    ASSUME FsInv, LinesInv, NEW s \in Sessions, h[s].pc \in InFile
    PROVE  /\ Typed /\ meta \in Files /\ rd \in Files /\ swp \in Files
           /\ rd # NoFile => meta # NoFile
           /\ h[s].pc \in {"opened", "copying", "editing", "swapped", "renamed",
                           "recopying", "recopied"} =>
                 meta # NoFile /\ meta \in Seq(Lines)
           /\ h[s].pc \in {"swapped", "recopied"} =>
                 swp # NoFile /\ swp \in Seq(Lines)
           /\ h[s].line \in Lines
           /\ \A t \in Sessions : CheckOk(h[t], rd)
           /\ ~short => \A l \in granted : Has(meta, l)
           /\ NoFile \notin Seq(Lines) /\ <<>> \in Seq(Lines)
<1>1. /\ Typed /\ FilesOk /\ EditOk /\ \A t \in Sessions : CheckOk(h[t], rd)
  BY DEF FsInv, LinesInv
<1>2. h[s].line \in Lines
  BY <1>1 DEF Typed, Handlers
<1>3. NoFile \notin Seq(Lines) /\ <<>> \in Seq(Lines)
  BY SecureFsAssumption, EmptySeq DEF Lines
<1> QED  BY <1>1, <1>2, <1>3, Zenon DEF FilesOk, EditOk, Files

(* The copies that are no edits: what meta and rd hold stays, and so does  *)
(* what was set.                                                           *)
LEMMA CopyLines ==
    ASSUME FsInv, LinesInv, NEW s \in Sessions, h[s].pc \in InFile,
           NEW p \in {"opened", "copying", "editing", "recopying", "recopied"},
           Goto(s, p),
           meta' = meta \/ (meta = NoFile /\ meta' = <<>>), rd' = rd,
           swp' \in Files, UNCHANGED <<granted, short>>,
           meta' # NoFile, p = "recopied" => swp' # NoFile,
           p \in {"recopying", "recopied"} =>
              h[s].pc \in {"renamed", "recopying"}
    PROVE  LinesInv'
<1>1. /\ Typed /\ meta \in Files /\ rd \in Files
      /\ \A t \in Sessions : CheckOk(h[t], rd)
      /\ ~short => \A l \in granted : Has(meta, l)
      /\ <<>> \in Seq(Lines)
  BY OwnFiles
<1>2. /\ h'[s].pc = p /\ h'[s].op = h[s].op /\ h'[s].line = h[s].line
      /\ h'[s].ok = h[s].ok /\ \A t \in Sessions \ {s} : h'[t] = h[t]
      /\ p \in InFile
  <2>1. p \in InFile
    BY DEF InFile
  <2> QED  BY <1>1, <2>1, Moves, Zenon
<1>3. meta' \in Files /\ rd' \in Files
  BY <1>1, Zenon DEF Files
<1>4. ~short' => \A l \in granted' : Has(meta', l)
  BY <1>1 DEF Has
<1>5. /\ ~short' /\ h'[s].op = "set" /\ h'[s].pc \in {"recopying", "recopied"}
      => Has(meta', h'[s].line)
  BY <1>2, Zenon DEF LinesInv, EditOk, Has
<1>6. \A t \in Sessions \ {s} : h'[t].pc = h[t].pc /\ CheckOk(h'[t], rd')
  BY <1>1, <1>2
<1> HIDE DEF Goto
<1> QED  BY <1>2, <1>3, <1>4, <1>5, <1>6, OwnLines, SMTT(30)

(* A handler that ends with a failure.                                     *)
LEMMA FailLines ==
    ASSUME FsInv, LinesInv, NEW s \in Sessions, h[s].pc \in InFile,
           End(s, FALSE), UNCHANGED <<meta, rd, granted, short>>, swp' \in Files
    PROVE  LinesInv'
<1>1. /\ Typed /\ meta \in Files /\ rd \in Files
      /\ \A t \in Sessions : CheckOk(h[t], rd)
      /\ ~short => \A l \in granted : Has(meta, l)
      /\ rd # NoFile => meta # NoFile
  BY OwnFiles
<1>2. /\ h'[s].pc = "done" /\ h'[s].ok = FALSE
      /\ \A t \in Sessions \ {s} : h'[t] = h[t]
      /\ "done" \in InFile
  <2>1. "done" \in InFile
    BY DEF InFile
  <2> QED  BY <1>1, <2>1, Moves, Zenon
<1>3. \A t \in Sessions \ {s} : h'[t].pc = h[t].pc /\ CheckOk(h'[t], rd')
  BY <1>1, <1>2
<1> QED  BY <1>1, <1>2, <1>3, OwnLines

(* fclose() leaves a part of what the swap file should hold.               *)
LEMMA Flushed ==
    ASSUME NEW f \in Seq(Lines), NEW n \in Nat, Flush(f, n)
    PROVE  /\ UNCHANGED <<meta, rd>> /\ swp' \in Seq(Lines)
           /\ (swp' = f /\ short' = short) \/ short' = TRUE
<1>1. CASE Disk(meta, rd, f) /\ UNCHANGED short
  BY <1>1 DEF Disk
<1>2. ASSUME NEW k \in n .. Len(f) - 1, short' = TRUE,
             Disk(meta, rd, SubSeq(f, 1, k))
      PROVE  /\ UNCHANGED <<meta, rd>> /\ swp' \in Seq(Lines)
  <2>1. SubSeq(f, 1, k) \in Seq(Lines)
    <3>1. k \in Nat /\ k <= Len(f) /\ Len(f) \in Nat
      BY <1>2
    <3>2. \A i \in 1 .. k : f[i] \in Lines
      BY <3>1
    <3> QED  BY <3>1, <3>2
  <2> QED  BY <1>2, <2>1 DEF Disk
<1> QED  BY <1>1, <1>2, Zenon DEF Flush

(* cmd_setfsperm() and cmd_remfsperm() write the edit of meta.             *)
LEMMA EditLines ==
    ASSUME FsInv, LinesInv, NEW s \in Sessions, AddLine(s) \/ DropLines(s)
    PROVE  LinesInv'
<1>0. h[s].pc \in InFile /\ h[s].pc = "editing"
  BY Zenon DEF AddLine, DropLines, InFile
<1>1. /\ Typed /\ rd \in Files /\ meta \in Seq(Lines) /\ h[s].line \in Lines
      /\ \A t \in Sessions : CheckOk(h[t], rd)
      /\ ~short => \A l \in granted : Has(meta, l)
      /\ NoFile \notin Seq(Lines)
  BY <1>0, OwnFiles
<1>2. CASE End(s, FALSE)
  <2>1. UNCHANGED <<meta, rd, granted, short>> /\ swp' \in Files
    <3>1. ~Goto(s, "swapped")
      <4>1. "swapped" \in InFile /\ FALSE \in BOOLEAN
        BY DEF InFile
      <4> QED  BY <1>1, <1>2, <4>1, Moves, Zenon
    <3> QED  BY <3>1, Zenon DEF AddLine, DropLines, Disk, Files
  <2> QED  BY <1>0, <1>2, <2>1, FailLines, Zenon
<1>3. CASE ~End(s, FALSE)
  <2>1. PICK f \in Seq(Lines), n \in Nat :
           /\ Flush(f, n) /\ Goto(s, "swapped") /\ UNCHANGED granted
           /\ f \in IF h[s].op = "set" THEN {Append(meta, h[s].line)}
                    ELSE Without(meta, h[s].line.id)
    <3>1. CASE AddLine(s)
      <4>1. swp = meta
        BY <3>1 DEF AddLine, FsInv, CopyIsMeta
      <4>2. Append(meta, h[s].line) \in Seq(Lines) /\ Len(meta) \in Nat
        BY <1>1
      <4>3. /\ Flush(Append(meta, h[s].line), Len(meta)) /\ Goto(s, "swapped")
            /\ UNCHANGED granted /\ h[s].op = "set"
        BY <1>3, <3>1, <4>1, Zenon DEF AddLine
      <4> QED  BY <4>2, <4>3, Zenon
    <3>2. CASE DropLines(s)
      <4>1. PICK f \in Without(meta, h[s].line.id) : Flush(f, 0)
        BY <3>2 DEF DropLines
      <4>2. f \in Seq(Lines) /\ 0 \in Nat
        BY <1>1, Kept
      <4> QED  BY <3>2, <4>1, <4>2 DEF DropLines
    <3> QED  BY <3>1, <3>2
  <2>2. /\ UNCHANGED <<meta, rd>> /\ swp' \in Seq(Lines)
        /\ (swp' = f /\ short' = short) \/ short' = TRUE
    BY <2>1, Flushed, Zenon
  <2>3. /\ h'[s].pc = "swapped" /\ h'[s].op = h[s].op /\ h'[s].line = h[s].line
        /\ \A t \in Sessions \ {s} : h'[t] = h[t]
        /\ "swapped" \in InFile
    <3>1. "swapped" \in InFile
      BY SMTT(30) DEF InFile
    <3> QED  BY <1>1, <2>1, <3>1, Moves, Zenon
  <2>4. \A t \in Sessions \ {s} : h'[t].pc = h[t].pc /\ CheckOk(h'[t], rd')
    BY <1>1, <2>2, <2>3
  <2>5. /\ meta' \in Files /\ rd' \in Files /\ swp' \in Files
        /\ meta' # NoFile /\ swp' # NoFile
    BY <1>1, <2>2 DEF Files
  <2>6. ~short' => \A l \in granted' : Has(meta', l)
    BY <1>1, <2>1, <2>2, SMTT(30)
  <2>7. ~short' => swp' \in IF h'[s].op = "set" THEN {Append(meta', h'[s].line)}
                            ELSE Without(meta', h'[s].line.id)
    BY <2>1, <2>2, <2>3, SMTT(30)
  <2> QED  BY <1>0, <2>3, <2>4, <2>5, <2>6, <2>7, OwnLines, SMTT(30)
<1> QED  BY <1>2, <1>3, Zenon

(* The rename over meta: the lines of the others are in the edit.          *)
LEMMA RenameLines ==
    ASSUME FsInv, LinesInv, NEW s \in Sessions, RenameMeta(s)
    PROVE  LinesInv'
<1>0. h[s].pc \in InFile /\ h[s].pc = "swapped"
  BY SMTT(30) DEF RenameMeta, InFile
<1>1. /\ Typed /\ rd \in Files /\ meta \in Seq(Lines) /\ h[s].line \in Lines
      /\ swp \in Seq(Lines) /\ swp # NoFile /\ meta # NoFile
      /\ \A t \in Sessions : CheckOk(h[t], rd)
      /\ ~short => \A l \in granted : Has(meta, l)
  BY <1>0, OwnFiles
<1>2. /\ meta' = swp /\ rd' = rd /\ swp' = NoFile /\ short' = short
      /\ Goto(s, "renamed")
      /\ granted' = IF h[s].op = "set" THEN granted
                    ELSE {l \in granted : l.id # h[s].line.id}
  BY DEF RenameMeta, Disk
<1>3. /\ h'[s].pc = "renamed" /\ h'[s].op = h[s].op /\ h'[s].line = h[s].line
      /\ \A t \in Sessions \ {s} : h'[t] = h[t]
      /\ "renamed" \in InFile
  <2>1. "renamed" \in InFile
    BY DEF InFile
  <2> QED  BY <1>1, <1>2, <2>1, Moves, Zenon
<1>4. \A t \in Sessions \ {s} : h'[t].pc = h[t].pc /\ CheckOk(h'[t], rd')
  BY <1>1, <1>2, <1>3, SMTT(30)
<1>5. ~short => swp \in IF h[s].op = "set" THEN {Append(meta, h[s].line)}
                        ELSE Without(meta, h[s].line.id)
  BY <1>0 DEF LinesInv, EditOk
<1>6. ASSUME ~short', NEW l \in granted'  PROVE Has(meta', l)
  <2>1. Has(meta, l) /\ ~short
    BY <1>1, <1>2, <1>6
  <2>2. CASE h[s].op = "set"
    <3>1. PICK k \in DOMAIN meta : meta[k] = l
      BY <2>1 DEF Has
    <3>2. swp = Append(meta, h[s].line)
      BY <1>5, <2>1, <2>2
    <3>3. k \in DOMAIN swp /\ swp[k] = l
      BY <1>1, <3>1, <3>2, SMTT(30)
    <3> QED  BY <1>1, <1>2, <3>3 DEF Has
  <2>3. CASE h[s].op # "set"
    <3>1. swp \in Without(meta, h[s].line.id) /\ l.id # h[s].line.id
      BY <1>2, <1>5, <1>6, <2>1, <2>3
    <3> QED  BY <1>1, <1>2, <2>1, <3>1, KeptLines, SMTT(30)
  <2> QED  BY <2>2, <2>3, SMTT(30)
<1>7. ~short' /\ h'[s].op = "set" => Has(meta', h'[s].line)
  <2> SUFFICES ASSUME ~short, h[s].op = "set" PROVE Has(swp, h[s].line)
    BY <1>2, <1>3
  <2>1. swp = Append(meta, h[s].line)
    BY <1>5
  <2>2. Len(meta) + 1 \in DOMAIN swp /\ swp[Len(meta) + 1] = h[s].line
    BY <1>1, <2>1
  <2> QED  BY <1>1, <2>2 DEF Has
<1>8. meta' \in Files /\ rd' \in Files /\ swp' \in Files /\ meta' # NoFile
  BY <1>1, <1>2, SMTT(30) DEF Files
<1> QED  BY <1>0, <1>3, <1>4, <1>6, <1>7, <1>8, OwnLines, SMTT(30)

(* A check while a version is published.                                   *)
LEMMA CheckGoesOn ==
    ASSUME NEW r \in Handlers, NEW q, NEW f \in Files, NEW g \in Seq(Lines),
           g # NoFile, CheckOk(r, f), r.pc \in {"id", "other"},
           q.pc = r.pc, q.me = r.me, q.line = r.line,
           q.could = r.could \cup {Answer(g, r.me, r.line.mask)},
           q.chg = IF r.chg = 0 /\ OneEdit(f, g) THEN 1 ELSE 2
    PROVE  CheckOk(q, g)
<1>1. f # NoFile /\ f \in Seq(Lines) /\ r.line.mask # {}
  BY DEF CheckOk, Files
<1>2. Answer(g, q.me, q.line.mask) \in q.could
  OBVIOUS
<1>3. q.chg # 0
  BY SMTT(30)
<1>4. ASSUME q.pc = "other", q.chg = 1
      PROVE  (q.line.mask \subseteq Perm(g, Other)) \in q.could
  <2>1. /\ r.chg = 0 /\ OneEdit(f, g) /\ Perm(f, r.me) = {}
        /\ Answer(f, r.me, r.line.mask) \in r.could
    BY <1>4, SMTT(30) DEF CheckOk
  <2>2. \/ (r.line.mask \subseteq Perm(g, Other)) <=> Answer(f, r.me, r.line.mask)
        \/ (r.line.mask \subseteq Perm(g, Other)) <=> Answer(g, r.me, r.line.mask)
    BY <1>1, <2>1, OneEditAnswers
  <2>3. \/ (r.line.mask \subseteq Perm(g, Other)) = Answer(f, r.me, r.line.mask)
        \/ (r.line.mask \subseteq Perm(g, Other)) = Answer(g, r.me, r.line.mask)
    BY <2>2, Zenon DEF Answer
  <2> QED  BY <2>1, <2>3
<1> QED  BY <1>1, <1>2, <1>3, <1>4, SMTT(30) DEF CheckOk

(* The rename over rd: meta stays, and the checks that go on see it.       *)
LEMMA PublishLines ==
    ASSUME FsInv, LinesInv, NEW s \in Sessions, RenameRd(s)
    PROVE  LinesInv'
<1>0. h[s].pc \in InFile /\ h[s].pc = "recopied"
  BY ZenonT(30) DEF RenameRd, InFile
<1>1. /\ Typed /\ rd \in Files /\ meta \in Files
      /\ swp \in Seq(Lines) /\ swp # NoFile /\ meta # NoFile
      /\ \A t \in Sessions : CheckOk(h[t], rd)
      /\ ~short => \A l \in granted : Has(meta, l)
  BY <1>0, OwnFiles, SMTT(30)
<1>2. meta' = meta /\ rd' = swp /\ swp' = NoFile /\ UNCHANGED <<granted, short>>
  BY Zenon DEF RenameRd, Disk, Rest
<1>3. /\ h'[s].pc = "done" /\ h'[s].op = h[s].op /\ h'[s].line = h[s].line
      /\ "done" \in InFile
  <2> DEFINE g == h[s]
  <2>1. g \in Handlers
    BY <1>1, SMTT(30) DEF Typed
  <2>2. h'[s] = [g EXCEPT !.pc = "done", !.ok = TRUE]
    BY Zenon DEF RenameRd
  <2>3. g = h[s]
    OBVIOUS
  <2> HIDE DEF g
  <2>4. /\ [g EXCEPT !.pc = "done", !.ok = TRUE].pc = "done"
        /\ [g EXCEPT !.pc = "done", !.ok = TRUE].op = g.op
        /\ [g EXCEPT !.pc = "done", !.ok = TRUE].line = g.line
    BY <2>1 DEF Handlers
  <2> QED  BY <2>2, <2>3, <2>4 DEF InFile
<1>4. ASSUME NEW t \in Sessions \ {s}
      PROVE  h'[t].pc = h[t].pc /\ CheckOk(h'[t], rd')
  <2>1. h[t] \in Handlers /\ CheckOk(h[t], rd)
    BY <1>1 DEF Typed
  <2>2. CASE h[t].pc \in {"id", "other"}
    <3> DEFINE g == h[t]
               c == g.could \cup {Answer(swp, g.me, g.line.mask)}
               n == IF g.chg = 0 /\ OneEdit(rd, swp) THEN 1 ELSE 2
               r == [g EXCEPT !.could = c, !.chg = n]
    <3>1. c \in SUBSET BOOLEAN
      BY <2>1, Zenon DEF Handlers, Answer
    <3>2. n \in {1, 2} /\ n = IF h[t].chg = 0 /\ OneEdit(rd, swp) THEN 1 ELSE 2
      OBVIOUS
    <3>3. h'[t] = r
      BY <2>2, Zenon DEF RenameRd
    <3>4. c = h[t].could \cup {Answer(swp, h[t].me, h[t].line.mask)}
      OBVIOUS
    <3>0. g \in Handlers /\ g = h[t]
      BY <2>1
    <3> HIDE DEF c, n, g
    <3>5. /\ r.pc = g.pc /\ r.me = g.me /\ r.line = g.line
          /\ r.could = c /\ r.chg = n
      BY <3>0, <3>1, <3>2, SMTT(30) DEF Handlers
    <3> HIDE DEF r
    <3>6. CheckOk(r, swp)
      BY <1>1, <2>1, <2>2, <3>0, <3>2, <3>4, <3>5, CheckGoesOn, SMTT(30)
    <3> QED  BY <1>2, <3>0, <3>3, <3>5, <3>6
  <2>3. CASE h[t].pc \notin {"id", "other"}
    <3>1. h'[t] = h[t]
      BY <2>3, ZenonT(40) DEF RenameRd
    <3> QED  BY <2>1, <2>3, <3>1, SMTT(30) DEF CheckOk
  <2> QED  BY <2>2, <2>3
<1>5. ~short' /\ h'[s].op = "set" => Has(meta', h'[s].line)
  BY <1>0, <1>2, <1>3, Zenon DEF LinesInv, EditOk
<1>6. meta' \in Files /\ rd' \in Files /\ swp' \in Files /\ meta' # NoFile
  BY <1>1, <1>2 DEF Files
<1> QED  BY <1>0, <1>1, <1>2, <1>3, <1>4, <1>5, <1>6, OwnLines

(* secfs_proc() reads for the identity, and for everybody else.            *)
LEMMA ReadLines ==
    ASSUME FsInv, LinesInv, NEW s \in Sessions, CheckId(s) \/ CheckOther(s)
    PROVE  LinesInv'
<1> DEFINE r == h[s]
           m == r.line.mask
           j == IF r.pc = "id" THEN r.me ELSE Other
           b == m \subseteq Perm(rd, j)
           p == IF r.pc = "id" /\ Perm(rd, r.me) = {} THEN "other" ELSE "checked"
<1>1. /\ r.pc \in {"id", "other"} /\ UNCHANGED <<meta, rd, swp, granted, short>>
      /\ h' = [h EXCEPT ![s].ok = b, ![s].pc = p]
  BY DEF CheckId, CheckOther
<1>2. r \in Handlers /\ h \in [Sessions -> Handlers] /\ CheckOk(r, rd)
  BY DEF FsInv, Typed, LinesInv
<1> DEFINE q == [r EXCEPT !.ok = b, !.pc = p]
<1>3. h'[s] = q /\ \A t \in Sessions \ {s} : h'[t] = h[t]
  BY <1>1, <1>2
<1> HIDE DEF r
<1>4. b \in BOOLEAN /\ p \in {"other", "checked"}
  OBVIOUS
<1>5. /\ b <=> m \subseteq Perm(rd, j)
      /\ p = IF r.pc = "id" /\ Perm(rd, r.me) = {} THEN "other" ELSE "checked"
      /\ j = IF r.pc = "id" THEN r.me ELSE Other
  OBVIOUS
<1> HIDE DEF b, p
<1>6. /\ q.pc = p /\ q.me = r.me /\ q.line = r.line /\ q.could = r.could
      /\ q.chg = r.chg /\ q.ok = b
  BY <1>2 DEF Handlers
<1> HIDE DEF q
<1>7. rd # NoFile /\ m # {}
  BY <1>1, <1>2 DEF CheckOk, r
<1>8. r.chg \in 0 .. 2 /\ r.could \in SUBSET BOOLEAN
  BY <1>2 DEF Handlers
<1>9. CheckOk(q, rd)
  <2>1. CASE r.pc = "id"
    <3>1. Answer(rd, r.me, m) \in r.could
      BY <1>2, <2>1, SMTT(30) DEF CheckOk
    <3>2. CASE Perm(rd, r.me) = {}
      <4>1. Answer(rd, r.me, m) = (m \subseteq Perm(rd, Other))
        BY <1>7, <3>2, Zenon DEF Answer
      <4>2. q.pc = "other"
        BY <1>5, <1>6, <2>1, <3>2, SMTT(30)
      <4> QED  BY <1>6, <1>7, <3>1, <3>2, <4>1, <4>2 DEF CheckOk
    <3>3. CASE Perm(rd, r.me) # {}
      <4>1. Answer(rd, r.me, m) = (m \subseteq Perm(rd, r.me))
        BY <1>7, <3>3, ZenonT(40) DEF Answer
      <4>2. q.pc = "checked" /\ q.ok = (m \subseteq Perm(rd, r.me))
        BY <1>4, <1>5, <1>6, <2>1, <3>3, SMTT(30)
      <4> QED  BY <1>6, <3>1, <4>1, <4>2 DEF CheckOk
    <3> QED  BY <3>2, <3>3, SMTT(30)
  <2>2. CASE r.pc = "other"
    <3>1. q.pc = "checked" /\ q.ok = (m \subseteq Perm(rd, Other))
      BY <1>4, <1>5, <1>6, <2>2
    <3>2. r.chg = 0 => Answer(rd, r.me, m) = (m \subseteq Perm(rd, Other))
      BY <1>2, <1>7, <2>2, Zenon DEF CheckOk, Answer
    <3>3. r.chg \in {0, 1} => (m \subseteq Perm(rd, Other)) \in r.could
      BY <1>2, <2>2, <3>2 DEF CheckOk
    <3> QED  BY <1>6, <1>8, <3>1, <3>3, SMTT(30) DEF CheckOk
  <2> QED  BY <1>1, <2>1, <2>2 DEF r
<1>10. h'[s].pc \notin InFile
  BY <1>3, <1>4, <1>6 DEF InFile
<1> QED  BY <1>1, <1>3, <1>9, <1>10, OutLines, Zenon

(* A check starts, of which the version it finds is the first.             *)
LEMMA StartLines ==
    ASSUME FsInv, LinesInv, NEW s \in Sessions, NEW i \in Ids,
           NEW mask \in {{}, {"use"}}, CheckStart(s, i, mask)
    PROVE  LinesInv'
<1> DEFINE p == IF rd = NoFile \/ mask = {} THEN "checked" ELSE "id"
           c == {Answer(rd, i, mask)}
           b == rd = NoFile
           r == Checking(i, mask, c, b, p)
<1>1. p \in {"checked", "id"} /\ c \in SUBSET BOOLEAN /\ b \in BOOLEAN
  BY DEF Answer
<1>2. mask \in SUBSET Bits
  BY DEF Bits
<1>3. h' = [h EXCEPT ![s] = r] /\ UNCHANGED <<meta, rd, swp, granted, short>>
  BY DEF CheckStart, Checking
<1>4. /\ b = (rd = NoFile) /\ c = {Answer(rd, i, mask)}
      /\ p = IF rd = NoFile \/ mask = {} THEN "checked" ELSE "id"
  BY SMTT(30)
<1> HIDE DEF p, c, b
<1>5. /\ r.pc = p /\ r.me = i /\ r.line.mask = mask /\ r.could = c
      /\ r.ok = b /\ r.chg = 0
  BY <1>1, <1>2, CheckType
<1> HIDE DEF r
<1>6. CheckOk(r, rd)
  <2>1. CASE rd = NoFile \/ mask = {}
    <3>1. Answer(rd, i, mask) = (rd = NoFile)
      BY <2>1, Zenon DEF Answer
    <3> QED  BY <1>4, <1>5, <2>1, <3>1 DEF CheckOk
  <2>2. CASE ~(rd = NoFile \/ mask = {})
    BY <1>4, <1>5, <2>2, SMTT(30) DEF CheckOk
  <2> QED  BY <2>1, <2>2, SMTT(30)
<1>7. h'[s] = r /\ (\A t \in Sessions \ {s} : h'[t] = h[t]) /\ r.pc \notin InFile
  BY <1>1, <1>3, <1>5, SMTT(30) DEF FsInv, Typed, InFile
<1> QED  BY <1>3, <1>6, <1>7, OutLines

(* Every step keeps the invariant.                                         *)
LEMMA LinesStep == FsInv /\ LinesInv /\ [Next]_vars => LinesInv'
<1> SUFFICES ASSUME FsInv, LinesInv, [Next]_vars PROVE LinesInv'
  BY SMTT(30)
<1>0. Typed /\ <<>> \in Files /\ NoFile \in Files /\ FilesOk
  BY EmptySeq DEF FsInv, Files, LinesInv
<1>1. ASSUME NEW s \in Sessions, Lock(s) PROVE LinesInv'
  <2>1. /\ h'[s].pc = "locked" /\ \A t \in Sessions \ {s} : h'[t] = h[t]
        /\ UNCHANGED <<meta, rd, swp, granted, short>>
    BY <1>0, <1>1, SMTT(30) DEF Lock, Typed, Handlers, InFile
  <2>2. CheckOk(h'[s], rd)
    BY <2>1 DEF CheckOk
  <2> QED  BY <2>1, <2>2, OutLines
<1>2. ASSUME NEW s \in Sessions,
             \/ OpenMeta(s) \/ CopyOpen(s) \/ CopyMeta(s)
             \/ RecopyOpen(s) \/ RecopyMeta(s)
             \/ (RemCheck(s) /\ Goto(s, "editing") /\ Disk(meta, rd, <<>>))
      PROVE  LinesInv'
  <2>0. h[s].pc \in InFile /\ UNCHANGED <<granted, short>>
    BY <1>2, Zenon DEF OpenMeta, CopyOpen, CopyMeta, RecopyOpen, RecopyMeta, RemCheck,
                Rest, InFile
  <2>1. /\ rd # NoFile => meta # NoFile
        /\ h[s].pc \in {"opened", "copying", "editing", "renamed", "recopying"}
              => meta # NoFile
        /\ meta \in Files /\ <<>> # NoFile
    <3>1. <<>> \in Seq(Lines) /\ NoFile \notin Seq(Lines)
      BY <2>0, OwnFiles
    <3> QED  BY <1>0, <3>1, ZenonT(40) DEF FilesOk
  <2>2. PICK p \in {"opened", "copying", "editing", "recopying", "recopied"} :
           /\ Goto(s, p) /\ rd' = rd /\ swp' \in Files
           /\ meta' = meta \/ (meta = NoFile /\ meta' = <<>>)
           /\ meta' # NoFile /\ (p = "recopied" => swp' # NoFile)
           /\ p \in {"recopying", "recopied"} =>
                 h[s].pc \in {"renamed", "recopying"}
    <3>1. CASE OpenMeta(s)
      BY <1>0, <2>1, <3>1, SMTT(30) DEF OpenMeta, Disk, FilesOk
    <3>2. CASE CopyOpen(s)
      BY <1>0, <2>1, <3>2 DEF CopyOpen, Disk
    <3>3. CASE CopyMeta(s)
      BY <1>0, <2>1, <3>3 DEF CopyMeta, Disk
    <3>4. CASE RecopyOpen(s)
      BY <1>0, <2>1, <3>4 DEF RecopyOpen, Disk
    <3>5. CASE RecopyMeta(s)
      BY <1>0, <2>1, <3>5 DEF RecopyMeta, Disk
    <3>6. CASE RemCheck(s) /\ Goto(s, "editing") /\ Disk(meta, rd, <<>>)
      <4>1. h[s].pc # "done"
        BY <3>6 DEF RemCheck
      <4>2. rd # NoFile
        <5>1. ~End(s, FALSE)
          <6>1. "editing" \in InFile /\ FALSE \in BOOLEAN
            BY DEF InFile
          <6> QED  BY <1>0, <3>6, <6>1, Moves, Zenon
        <5> QED  BY <3>6, <5>1, Zenon DEF RemCheck, Perm
      <4> QED  BY <1>0, <2>1, <3>6, <4>2, SMTT(30) DEF Disk
    <3> QED  BY <1>2, <3>1, <3>2, <3>3, <3>4, <3>5, <3>6, ZenonT(40)
  <2> QED  BY <2>0, <2>2, CopyLines
<1>3. ASSUME NEW s \in Sessions,
             (RemCheck(s) /\ End(s, FALSE) /\ Disk(meta, rd, swp)) \/ CallFails(s)
      PROVE  LinesInv'
  <2>1. /\ h[s].pc \in InFile /\ End(s, FALSE) /\ swp' \in Files
        /\ UNCHANGED <<meta, rd, granted, short>>
    BY <1>0, <1>3, Zenon DEF RemCheck, CallFails, Disk, Rest, InFile, FilesOk
  <2> QED  BY <2>1, FailLines, Zenon
<1>4. ASSUME NEW s \in Sessions, Close(s) \/ OpenCrash(s) \/ Kill(s) \/ CheckEnd(s)
      PROVE  LinesInv'
  <2>1. /\ h' = [h EXCEPT ![s] = Idle] /\ UNCHANGED <<meta, rd, short>>
        /\ UNCHANGED swp \/ (h[s].pc \in InFile /\ swp' \in Files)
    BY <1>0, <1>4 DEF Close, OpenCrash, Kill, CheckEnd, Disk, InFile, FilesOk
  <2>2. h'[s] = Idle /\ \A t \in Sessions \ {s} : h'[t] = h[t]
    BY <1>0, <2>1, SMTT(30) DEF Typed
  <2>3. Idle.pc \notin InFile /\ CheckOk(Idle, rd)
    BY DEF Idle, InFile, CheckOk
  <2>4. \A l \in granted' : l \in granted \/ (~short => Has(meta, l))
    <3>1. CASE Close(s)
      BY <3>1 DEF Close, LinesInv, EditOk
    <3>2. CASE ~Close(s)
      BY <1>4, <3>2 DEF OpenCrash, Kill, CheckEnd
    <3> QED  BY <3>1, <3>2, SMTT(30)
  <2> HIDE DEF Idle
  <2> QED  BY <2>1, <2>2, <2>3, <2>4, OutLines, SMTT(30)
<1>5. ASSUME NEW s \in Sessions, NEW i \in Ids, NEW o \in {"set", "rem"},
             NEW l \in Lines, Request(s, o, i, l)
      PROVE LinesInv'
  <2> DEFINE r == [Idle EXCEPT !.pc = "blocked", !.op = o, !.me = i, !.line = l]
  <2>1. r.pc = "blocked"
    BY IdleType DEF Handlers
  <2>2. h' = [h EXCEPT ![s] = r] /\ UNCHANGED <<meta, rd, swp, granted, short>>
    BY <1>5 DEF Request
  <2> HIDE DEF r
  <2>3. h'[s] = r /\ (\A t \in Sessions \ {s} : h'[t] = h[t]) /\ r.pc \notin InFile
    BY <1>0, <2>1, <2>2, SMTT(30) DEF Typed, InFile
  <2>4. CheckOk(r, rd)
    BY <2>1, SMTT(30) DEF CheckOk
  <2> QED  BY <2>2, <2>3, <2>4, OutLines
<1>6. CASE UNCHANGED vars
  <2>1. UNCHANGED <<meta, rd, swp, h, granted, short>>
    BY <1>6 DEF vars
  <2> QED  BY <2>1 DEF LinesInv, FilesOk, EditOk
<1>7. ASSUME NEW s \in Sessions, RemCheck(s)
      PROVE  \/ Goto(s, "editing") /\ Disk(meta, rd, <<>>)
             \/ End(s, FALSE) /\ Disk(meta, rd, swp)
  BY <1>7, Zenon DEF RemCheck
<1>8. ASSUME NEW s \in Sessions, Step(s) PROVE LinesInv'
  BY <1>1, <1>2, <1>3, <1>4, <1>7, <1>8, EditLines, RenameLines, PublishLines,
     ReadLines, ZenonT(60) DEF Step
<1> QED  BY <1>4, <1>5, <1>6, <1>8, StartLines DEF Next

(* At first there are no files, no lines and no checks.                    *)
LEMMA LinesInit == Init => LinesInv
<1> SUFFICES ASSUME Init PROVE LinesInv
  OBVIOUS
<1>1. \A s \in Sessions : h[s].pc = "idle"
  BY Zenon DEF Init, Idle
<1> QED  BY <1>1 DEF Init, LinesInv, FilesOk, Files, EditOk, CheckOk

(* A line that SETFSPERM was answered OK for stays until a REMFSPERM of    *)
(* its identity, whichever sessions set, remove, fail or die meanwhile.    *)
THEOREM LinesStay == Spec => []NoLostLine
<1>1. LinesInv => NoLostLine
  BY SMTT(30) DEF LinesInv, EditOk, Has, NoLostLine
<1> QED  BY <1>1, FsInit, FsStep, LinesInit, LinesStep, PTL DEF Spec

(* A check of secfs_proc() during which one edit at most is published      *)
(* answers as one of the versions does, with any lines and identities.     *)
THEOREM OneChange == Spec => []CheckOneChange
<1>1. LinesInv => CheckOneChange
  BY DEF LinesInv, CheckOk, CheckOneChange
<1> QED  BY <1>1, FsInit, FsStep, LinesInit, LinesStep, PTL DEF Spec
=============================================================================
