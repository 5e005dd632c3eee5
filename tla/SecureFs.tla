------------------------------ MODULE SecureFs ------------------------------
(***************************************************************************)
(* The secure filesystem of one directory (src/src/cmd.c, cmd_setfsperm(), *)
(* cmd_remfsperm(); src/src/tfproto.c, secfs_proc(), getfsidperm()).       *)
(*                                                                         *)
(* The directory's permissions are lines identity:mask of the file meta    *)
(* (.securefs_metadata).  SETFSPERM and REMFSPERM build the next version   *)
(* in a swap file, rename it over meta, copy meta into the swap file once  *)
(* more and rename that over rd (.securefs_metadata.rd), all of it under   *)
(* the record lock of a third file.  Every other command consults rd,      *)
(* without a lock.  A session may die and a call may fail at every step.   *)
(***************************************************************************)
EXTENDS Naturals, Sequences

CONSTANTS
    Sessions,    \* the server's processes
    NoProc,      \* no process
    NoFile,      \* what a file that does not exist holds
    Ids,         \* the identities, Other among them
    Other,       \* the identity of everybody else, the empty string
    Grants,      \* the lines a client may ask for with SETFSPERM
    MaxLines,    \* no SETFSPERM is sent when meta is that long
    Checks,      \* whether other commands consult rd meanwhile
    Kills,       \* whether sessions may die
    Faults       \* whether calls of the operating system may fail

Bits == {"set", "rem", "use"}

ASSUME SecureFsAssumption ==
    /\ Other \in Ids
    /\ Grants \subseteq [id : Ids, mask : SUBSET Bits]
    /\ MaxLines \in Nat
    /\ Checks \in BOOLEAN /\ Kills \in BOOLEAN
    /\ Faults \in BOOLEAN
    /\ NoProc \notin Sessions
    /\ NoFile \notin Seq([id : Ids, mask : SUBSET Bits])

VARIABLES
    meta,       \* .securefs_metadata
    rd,         \* .securefs_metadata.rd
    swp,        \* the swap file
    owner,      \* the process that has the record lock of each file
    h,          \* the handler each session is in
    granted,    \* the lines whose SETFSPERM was answered OK
    short       \* an fclose() wrote less than it was given

vars == <<meta, rd, swp, owner, h, granted, short>>

RL == INSTANCE RecordLock

File == "lck"
Lines == [id : Ids, mask : SUBSET Bits]

(* Between crtlock(lck, BLK) and close(lck).                               *)
InFile == {"locked", "opened", "copying", "editing", "swapped", "renamed",
           "recopying", "recopied", "done"}

(* A handler: where it is, its command, the identity set with SETFSID, the *)
(* line of the command, the reply, and for a check the answers that the    *)
(* versions of rd since its start give and how often rd changed by one     *)
(* edit (2: more than once, or by more).                                   *)
Handlers == [pc : InFile \cup {"idle", "blocked", "id", "other", "checked"},
             op : {"set", "rem", "check"}, me : Ids, line : Lines,
             ok : BOOLEAN, could : SUBSET BOOLEAN, chg : 0 .. 2]

Idle == [pc |-> "idle", op |-> "check", me |-> Other,
         line |-> [id |-> Other, mask |-> {}], ok |-> FALSE, could |-> {},
         chg |-> 0]

(* getfsidperm(): the mask of the first line of the identity, 0 without.   *)
First(f, i) == {k \in DOMAIN f : f[k].id = i /\ \A j \in 1 .. k - 1 : f[j].id # i}
Perm(f, i) == IF f = NoFile THEN {} ELSE UNION {f[k].mask : k \in First(f, i)}

(* The copies of f without the lines of an identity: there is one, of the  *)
(* other lines in their order.                                             *)
Without(f, i) ==
    LET Kept == {k \in DOMAIN f : f[k].id # i}
        Orders == {p \in UNION {[1 .. n -> Kept] : n \in 0 .. Len(f)} :
                      /\ \A a, b \in DOMAIN p : a < b => p[a] < p[b]
                      /\ \A k \in Kept : \E a \in DOMAIN p : p[a] = k}
    IN  {[a \in DOMAIN p |-> f[p[a]]] : p \in Orders}

(* secfs_proc() on one content of rd.  A command that knows nothing of the *)
(* secure filesystem asks for the empty mask.                              *)
Answer(f, i, mask) ==
    \/ f = NoFile
    \/ /\ mask # {}
       /\ mask \subseteq IF Perm(f, i) # {} THEN Perm(f, i)
                         ELSE Perm(f, Other)

Init ==
    /\ meta = NoFile /\ rd = NoFile /\ swp = NoFile
    /\ owner = [f \in {File} |-> NoProc]
    /\ h = [s \in Sessions |-> Idle]
    /\ granted = {} /\ short = FALSE

-----------------------------------------------------------------------------
Full(f) == IF f = NoFile THEN FALSE ELSE Len(f) >= MaxLines

(* SETFSPERM or REMFSPERM is parsed, its directory found and its lock file *)
(* opened.                                                                 *)
Request(s, o, i, l) ==
    /\ h[s].pc = "idle"
    /\ o = "rem" => l.mask = {}
    /\ o = "set" => l \in Grants /\ ~Full(meta)
    /\ h' = [h EXCEPT ![s] = [Idle EXCEPT !.pc = "blocked", !.op = o,
                                          !.me = i, !.line = l]]
    /\ UNCHANGED <<meta, rd, swp, owner, granted, short>>

(* Mutant of Lock: the result of crtlock() is not looked at.               *)
BugLock(s) ==
    /\ h[s].pc = "blocked"
    /\ owner' = RL!Locked(owner, File, s)
    /\ h' = [h EXCEPT ![s].pc = "locked"]
    /\ UNCHANGED <<meta, rd, swp, granted, short>>

(* crtlock(lck, BLK) returns.                                              *)
Lock(s) ==
    /\ h[s].pc = "blocked"
    /\ RL!Lockable(owner, File, s)
    /\ owner' = RL!Locked(owner, File, s)
    /\ h' = [h EXCEPT ![s].pc = "locked"]
    /\ UNCHANGED <<meta, rd, swp, granted, short>>

Goto(s, p) == h' = [h EXCEPT ![s].pc = p]
End(s, r) == h' = [h EXCEPT ![s].pc = "done", ![s].ok = r]
Disk(m, r, w) == meta' = m /\ rd' = r /\ swp' = w
Rest == UNCHANGED <<owner, granted, short>>

(* fclose() of the swap file, which should hold f: it may write the first  *)
(* lines only, n at least, and nobody notices.                             *)
Flush(f, n) ==
    \/ Disk(meta, rd, f) /\ UNCHANGED short
    \/ /\ Faults /\ short' = TRUE
       /\ \E k \in n .. Len(f) - 1 : Disk(meta, rd, SubSeq(f, 1, k))

(* SETFSPERM: open(path, O_CREAT).                                         *)
OpenMeta(s) ==
    /\ h[s].pc = "locked" /\ h[s].op = "set"
    /\ Goto(s, "opened")
    /\ Disk(IF meta = NoFile THEN <<>> ELSE meta, rd, swp)
    /\ Rest

(* SETFSPERM: cpfile(path, swpfile), first the O_TRUNC and then the bytes. *)
CopyOpen(s) ==
    /\ h[s].pc = "opened"
    /\ Goto(s, "copying") /\ Disk(meta, rd, <<>>) /\ Rest

CopyMeta(s) ==
    /\ h[s].pc = "copying"
    /\ Goto(s, "editing") /\ Disk(meta, rd, meta) /\ Rest

(* Mutant of AddLine: the permission of the identity is not looked at.     *)
BugAddLine(s) ==
    /\ h[s].pc = "editing" /\ h[s].op = "set"
    /\ Goto(s, "swapped") /\ Disk(meta, rd, Append(swp, h[s].line))
    /\ Rest

(* SETFSPERM: the first identity of the directory needs no permission, the *)
(* others need "set" in their own first line.  The new line is appended.   *)
AddLine(s) ==
    /\ h[s].pc = "editing" /\ h[s].op = "set"
    /\ IF swp = <<>> \/ "set" \in Perm(swp, h[s].me)
       THEN Goto(s, "swapped") /\ Flush(Append(swp, h[s].line), Len(swp))
       ELSE End(s, FALSE) /\ Disk(meta, rd, NoFile) /\ UNCHANGED short
    /\ UNCHANGED <<owner, granted>>

(* REMFSPERM: the permission is looked up in rd, then meta is opened and   *)
(* the swap file truncated.                                                *)
RemCheck(s) ==
    /\ h[s].pc = "locked" /\ h[s].op = "rem"
    /\ IF "rem" \in Perm(rd, h[s].me)
       THEN Goto(s, "editing") /\ Disk(meta, rd, <<>>)
       ELSE End(s, FALSE) /\ Disk(meta, rd, swp)
    /\ Rest

(* REMFSPERM: every line of the identity is left out of the copy.          *)
DropLines(s) ==
    /\ h[s].pc = "editing" /\ h[s].op = "rem"
    /\ Goto(s, "swapped")
    /\ \E f \in Without(meta, h[s].line.id) : Flush(f, 0)
    /\ UNCHANGED <<owner, granted>>

(* rename(swpfile, path)                                                   *)
RenameMeta(s) ==
    /\ h[s].pc = "swapped"
    /\ Goto(s, "renamed") /\ Disk(swp, rd, NoFile)
    /\ granted' = IF h[s].op = "set" THEN granted
                  ELSE {l \in granted : l.id # h[s].line.id}
    /\ UNCHANGED <<owner, short>>

(* Mutant of RecopyOpen: meta is copied to rd itself.                      *)
BugRecopyOpen(s) ==
    /\ h[s].pc = "renamed"
    /\ Goto(s, "recopying") /\ Disk(meta, <<>>, swp) /\ Rest

(* cpfile(path, rdswp) and rename(rdswp, rdfile).                          *)
RecopyOpen(s) ==
    /\ h[s].pc = "renamed"
    /\ Goto(s, "recopying") /\ Disk(meta, rd, <<>>) /\ Rest

RecopyMeta(s) ==
    /\ h[s].pc = "recopying"
    /\ Goto(s, "recopied") /\ Disk(meta, rd, meta) /\ Rest

(* Mutant of RenameRd: rd is not replaced.                                 *)
BugRenameRd(s) ==
    /\ h[s].pc = "recopied"
    /\ h' = [h EXCEPT ![s].pc = "done", ![s].ok = TRUE]
    /\ Disk(meta, rd, NoFile) /\ Rest

(* A line is added, or the lines of an identity are removed.               *)
OneEdit(f, g) ==
    LET old == IF f = NoFile THEN <<>> ELSE f
    IN  \/ \E l \in Lines : g = Append(old, l)
        \/ \E i \in Ids : g \in Without(old, i)

(* A check that goes on meanwhile could give the new version's answer.     *)
RenameRd(s) ==
    /\ h[s].pc = "recopied"
    /\ h' = [t \in Sessions |->
               IF t = s THEN [h[s] EXCEPT !.pc = "done", !.ok = TRUE]
               ELSE IF h[t].pc \in {"id", "other"}
               THEN [h[t] EXCEPT !.could =
                       @ \cup {Answer(swp, h[t].me, h[t].line.mask)},
                                 !.chg = IF @ = 0 /\ OneEdit(rd, swp) THEN 1
                                         ELSE 2]
               ELSE h[t]]
    /\ Disk(meta, swp, NoFile) /\ Rest

(* A call fails and the handler answers a failure.  The swap file is       *)
(* unlinked, but not where open(path) or an open() of cpfile() is what     *)
(* failed: if it is the one of meta, the swap file has been truncated.     *)
CallFails(s) ==
    /\ Faults
    /\ \/ h[s].pc \in {"copying", "editing", "swapped", "recopying",
                       "recopied"} /\ Disk(meta, rd, NoFile)
       \/ h[s].pc \in {"opened", "renamed"}
             /\ \E w \in {swp, <<>>} : Disk(meta, rd, w)
       \/ h[s].pc = "locked" /\ h[s].op = "set" /\ Disk(meta, rd, swp)
    /\ End(s, FALSE)
    /\ Rest

(* close(lck) and the reply.                                               *)
Close(s) ==
    /\ h[s].pc = "done"
    /\ h' = [h EXCEPT ![s] = Idle]
    /\ owner' = RL!AfterClose(owner, File, s)
    /\ granted' = IF h[s].op = "set" /\ h[s].ok
                  THEN granted \cup {h[s].line} ELSE granted
    /\ UNCHANGED <<meta, rd, swp, short>>

(* REMFSPERM: fopen() fails, and fclose() of the null stream ends the      *)
(* process.                                                                *)
OpenCrash(s) ==
    /\ Faults
    /\ h[s].pc = "locked" /\ h[s].op = "rem"
    /\ "rem" \in Perm(rd, h[s].me)
    /\ h' = [h EXCEPT ![s] = Idle]
    /\ owner' = RL!AfterExit(owner, s)
    /\ \E w \in {swp, <<>>} : Disk(meta, rd, w)
    /\ UNCHANGED <<granted, short>>

(* The process ends inside the handler.                                    *)
Kill(s) ==
    /\ Kills
    /\ h[s].pc # "idle"
    /\ h' = [h EXCEPT ![s] = Idle]
    /\ owner' = RL!AfterExit(owner, s)
    /\ UNCHANGED <<meta, rd, swp, granted, short>>

-----------------------------------------------------------------------------
(* secfs_proc() in any other command: access(rd) and then up to two reads  *)
(* of the file, one for the identity and one for everybody else.           *)
CheckStart(s, i, mask) ==
    /\ Checks
    /\ h[s].pc = "idle"
    /\ h' = [h EXCEPT ![s] =
               [Idle EXCEPT !.me = i, !.line.mask = mask,
                            !.could = {Answer(rd, i, mask)},
                            !.ok = rd = NoFile,
                            !.pc = IF rd = NoFile \/ mask = {} THEN "checked"
                                   ELSE "id"]]
    /\ UNCHANGED <<meta, rd, swp, owner, granted, short>>

(* Mutant of CheckId: an identity is served whatever its mask.             *)
BugCheckId(s) ==
    /\ h[s].pc = "id"
    /\ h' = [h EXCEPT ![s].ok = TRUE, ![s].pc = "checked"]
    /\ UNCHANGED <<meta, rd, swp, owner, granted, short>>

CheckId(s) ==
    /\ h[s].pc = "id"
    /\ LET p == Perm(rd, h[s].me)
       IN  h' = [h EXCEPT ![s].ok = h[s].line.mask \subseteq p,
                          ![s].pc = IF p = {} THEN "other" ELSE "checked"]
    /\ UNCHANGED <<meta, rd, swp, owner, granted, short>>

CheckOther(s) ==
    /\ h[s].pc = "other"
    /\ h' = [h EXCEPT ![s].ok = h[s].line.mask \subseteq Perm(rd, Other),
                      ![s].pc = "checked"]
    /\ UNCHANGED <<meta, rd, swp, owner, granted, short>>

CheckEnd(s) ==
    /\ h[s].pc = "checked"
    /\ h' = [h EXCEPT ![s] = Idle]
    /\ UNCHANGED <<meta, rd, swp, owner, granted, short>>

-----------------------------------------------------------------------------
Step(s) ==
    \/ Lock(s) \/ OpenMeta(s) \/ CopyOpen(s) \/ CopyMeta(s) \/ AddLine(s)
    \/ RemCheck(s) \/ DropLines(s) \/ RenameMeta(s) \/ RecopyOpen(s)
    \/ RecopyMeta(s) \/ RenameRd(s) \/ CallFails(s) \/ Close(s)
    \/ OpenCrash(s) \/ CheckId(s) \/ CheckOther(s) \/ CheckEnd(s)

Next ==
    \E s \in Sessions :
        \/ Step(s) \/ Kill(s)
        \/ \E i \in Ids :
              \/ \E o \in {"set", "rem"}, l \in Lines : Request(s, o, i, l)
              \/ \E mask \in {{}, {"use"}} : CheckStart(s, i, mask)

Spec == Init /\ [][Next]_vars

-----------------------------------------------------------------------------
(* What the commands consult changes in one step from one whole version of *)
(* the permissions to the current one, although cmd_setfsperm() and        *)
(* cmd_remfsperm() may be ended or fail anywhere and readers take no lock. *)
RdIsWhole == [][rd' # rd => rd' = meta]_vars

(* A line that a client was told is set stays in meta until a REMFSPERM of *)
(* its identity, whatever other sessions set, and however they end; unless *)
(* an fclose() fails, which cmd_setfsperm() and cmd_remfsperm() do not     *)
(* look at.                                                                *)
NoLostLine ==
    ~short => \A l \in granted : meta # NoFile /\ \E k \in DOMAIN meta : meta[k] = l

(* Lines are added to a directory that has some only for an identity that  *)
(* may set permissions at the moment of the rename, not only when          *)
(* cmd_setfsperm() looked.                                                 *)
OnlyGrantersAdd ==
    [][\A s \in Sessions :
         /\ h[s].pc = "swapped" /\ h[s].op = "set" /\ h'[s].pc = "renamed"
         /\ meta # NoFile /\ meta # <<>>
         => "set" \in Perm(meta, h[s].me)]_vars

(* The OK of SETFSPERM and REMFSPERM means that the commands consult the   *)
(* version it made, also when earlier handlers were ended between their    *)
(* two renames.                                                            *)
OkIsPublished ==
    \A s \in Sessions : h[s].pc = "done" /\ h[s].op # "check" /\ h[s].ok =>
        rd = meta

(* At least it does when no more than one edit, of one SETFSPERM or one    *)
(* REMFSPERM, is published during the check.                               *)
CheckOneChange ==
    \A s \in Sessions :
        h[s].pc = "checked" /\ h[s].chg <= 1 => h[s].ok \in h[s].could
=============================================================================
