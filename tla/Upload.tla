------------------------------- MODULE Upload -------------------------------
(***************************************************************************)
(* The transfers from the client to the session: PUT (cmd_put(),           *)
(* putstream()), PUTCAN (cmd_putcan(), putstream_can()), SUP (cmd_sup())   *)
(* and SNDFILE (cmd_rcvfile(), rcvfile()) of src/src/cmd.c, with the       *)
(* client that the documentation describes.                                *)
(***************************************************************************)
EXTENDS Wire

Hole == <<0, -1>>

(* Block p of f becomes b; the file may grow, over a hole.                 *)
Store(f, p, b) ==
    [i \in 1 .. Max({p, Len(f)}) |->
        IF i = p THEN b ELSE IF i <= Len(f) THEN f[i] ELSE Hole]

(* What writechunk() does with a block: it is written at once; or in       *)
(* pieces, which returns the length of the last one; or it fails after a   *)
(* part of it, or with nothing written.                                    *)
Outcomes == IF Faults THEN {"whole", "pieces", "torn", "none"} ELSE {"whole"}

Stored(w, b) ==
    CASE w \in {"whole", "pieces"} -> Store(file, job.pos + 1, b)
      [] w = "torn" -> Store(file, job.pos + 1, Torn)
      [] w = "none" -> file

Starts(cmd) ==
    /\ srv = "loop" /\ Reads("req") /\ Head(up).b.cmd = cmd
    /\ orig' = file

-----------------------------------------------------------------------------
(* PUT and PUTCAN: open() creates the file, before lseek() and malloc()    *)
(* and the answer, which all may fail.                                     *)
PutStart(cmd) ==
    /\ Starts(cmd)
    /\ \/ Faults /\ Answers(Code("failed"), FALSE)
       \/ /\ file' = Content(file)
          /\ \/ /\ Writes(Code("ok"))
                /\ srv' = cmd /\ job' = Job(Head(up).b, FALSE)
             \/ /\ Faults /\ Writes(Code("failed"))
                /\ srv' = "loop" /\ UNCHANGED job
             \/ WriteFails /\ srv' = "ended" /\ UNCHANGED job
    /\ UNCHANGED <<there, thvars, clivars>>

(* The first loop of putstream().  A block that is not written in one call *)
(* makes the session cancel.                                               *)
PutRead ==
    /\ srv = "PUT"
    /\ \/ (Reads("end") \/ Reads("stop")) /\ Goes("putfin")
       \/ /\ Reads("cancel") /\ srv' = "putfin"
          /\ job' = [job EXCEPT !.del = TRUE] /\ UNCHANGED file
       \/ /\ Reads("block")
          /\ \E w \in Outcomes :
                /\ file' = Stored(w, Head(up).b)
                /\ job' = [job EXCEPT !.pos = @ + 1]
                /\ srv' = IF w = "whole" THEN "PUT" ELSE "putcancel"
       \/ ReadFails /\ Leave("ended", TRUE)
    /\ UNCHANGED <<down, there, orig, thvars, clivars>>

PutCancel ==
    /\ srv = "putcancel"
    /\ \/ Writes(Code("cancel")) /\ Goes("putfin")
       \/ WriteFails /\ Leave("ended", TRUE)
    /\ UNCHANGED <<up, there, orig, thvars, clivars>>

PutFin ==
    /\ srv = "putfin"
    /\ \/ Writes(Code("fin")) /\ Goes("putdrain")
       \/ WriteFails /\ Leave("ended", job.del)
    /\ UNCHANGED <<up, there, orig, thvars, clivars>>

(* What the client sent before it saw the end is skipped, up to its FIN.   *)
PutDrain ==
    /\ srv = "putdrain"
    /\ \/ \E t \in {"cancel", "end", "stop", "block"} :
             Reads(t) /\ Goes("putdrain")
       \/ Reads("fin") /\ Leave("loop", job.del)
       \/ ReadFails /\ Leave("ended", job.del)
    /\ UNCHANGED <<down, there, orig, thvars, clivars>>

(* Mutant of PutCanRead: a failed write is forgotten at the next block.    *)
BugPutCanRead ==
    /\ srv = "PUTCAN"
    /\ \/ (Reads("end") \/ Reads("stop")) /\ Leave("loop", FALSE)
       \/ Reads("cancel") /\ Leave("loop", TRUE)
       \/ /\ Reads("block")
          /\ \E w \in Outcomes :
                /\ file' = Stored(w, Head(up).b)
                /\ job' = [job EXCEPT !.pos = @ + 1, !.bad = w # "whole",
                                      !.step = @ + 1]
                /\ srv' = IF job'.step = job.r.canpt THEN "point" ELSE "PUTCAN"
       \/ ReadFails /\ Leave("ended", TRUE)
    /\ UNCHANGED <<down, there, orig, thvars, clivars>>

(* putstream_can(): after a failed write the blocks are read and dropped,  *)
(* until the next cancellation point.                                      *)
PutCanRead ==
    /\ srv = "PUTCAN"
    /\ \/ (Reads("end") \/ Reads("stop")) /\ Leave("loop", FALSE)
       \/ Reads("cancel") /\ Leave("loop", TRUE)
       \/ /\ Reads("block")
          /\ \E w \in IF job.bad THEN {"none"} ELSE Outcomes :
                /\ file' = Stored(w, Head(up).b)
                /\ job' = [job EXCEPT !.pos = @ + 1, !.bad = w # "whole",
                                      !.step = @ + 1]
                /\ srv' = IF job'.step = job.r.canpt THEN "point" ELSE "PUTCAN"
       \/ ReadFails /\ Leave("ended", TRUE)
    /\ UNCHANGED <<down, there, orig, thvars, clivars>>

(* A cancellation point of PUTCAN.                                         *)
PutPoint ==
    /\ srv = "point"
    /\ \/ /\ Writes(Code(IF job.bad THEN "cancel" ELSE "cont"))
          /\ IF job.bad THEN Leave("loop", FALSE)
             ELSE /\ srv' = "PUTCAN" /\ UNCHANGED file
                  /\ job' = [job EXCEPT !.step = 0]
       \/ WriteFails /\ Leave("ended", TRUE)
    /\ UNCHANGED <<up, there, orig, thvars, clivars>>

-----------------------------------------------------------------------------
(* SUP: a file that cannot be opened is replaced by /dev/null.  rc is not  *)
(* initialized: job.bad starts with any value.                             *)
SupStart ==
    /\ Starts("SUP")
    /\ \/ /\ srv' = "SUP" /\ file' = <<>>
          /\ \E rc \in BOOLEAN : job' = Job(Head(up).b, rc)
       \/ Faults /\ Goes("supnull")
    /\ UNCHANGED <<down, there, thvars, clivars>>

SupBlock ==
    /\ srv \in {"SUP", "supnull"} /\ Reads("block")
    /\ IF srv = "supnull" THEN Goes("supnull")
       ELSE \E w \in Outcomes :
               /\ file' = Stored(w, Head(up).b) /\ UNCHANGED srv
               /\ job' = [job EXCEPT !.pos = IF w = "none" THEN @ ELSE @ + 1,
                                     !.bad = @ \/ w \in {"torn", "none"}]
    /\ UNCHANGED <<down, there, orig, thvars, clivars>>

(* Mutant of SupEnd: the header -1 does not remove what was uploaded.      *)
BugSupEnd ==
    /\ srv \in {"SUP", "supnull"}
    /\ \/ /\ Reads("end")
          /\ IF srv = "supnull" THEN Answers(Code("failed"), FALSE)
             ELSE Answers(Code(IF job.bad THEN "failed" ELSE "ok"), job.bad)
       \/ /\ Reads("cancel") /\ UNCHANGED down
          /\ Leave("loop", srv = "SUP" /\ job.bad)
       \/ ReadFails /\ Leave("ended", FALSE) /\ UNCHANGED down
    /\ UNCHANGED <<there, orig, thvars, clivars>>

(* The header 0 is answered, the header -1 is not; a client that is gone   *)
(* leaves what it sent.                                                    *)
SupEnd ==
    /\ srv \in {"SUP", "supnull"}
    /\ \/ /\ Reads("end")
          /\ IF srv = "supnull" THEN Answers(Code("failed"), FALSE)
             ELSE Answers(Code(IF job.bad THEN "failed" ELSE "ok"), job.bad)
       \/ /\ Reads("cancel") /\ UNCHANGED down
          /\ Leave("loop", srv = "SUP")
       \/ ReadFails /\ Leave("ended", FALSE) /\ UNCHANGED down
    /\ UNCHANGED <<there, orig, thvars, clivars>>

-----------------------------------------------------------------------------
(* SNDFILE: fapinit() refuses a file that is there, or truncates it.       *)
SndStart ==
    /\ Starts("SNDFILE")
    /\ \/ /\ Faults \/ (file # NoFile /\ ~Head(up).b.flag)
          /\ Answers(Code("failed"), FALSE)
       \/ /\ file = NoFile \/ Head(up).b.flag
          /\ srv' = "sndcont" /\ file' = <<>>
          /\ job' = Job(Head(up).b, FALSE) /\ UNCHANGED down
    /\ UNCHANGED <<there, thvars, clivars>>

SndCont ==
    /\ srv = "sndcont"
    /\ \/ Writes(Code("cont")) /\ Goes("SNDFILE")
       \/ WriteFails /\ Leave("ended", FALSE)
    /\ UNCHANGED <<up, there, orig, thvars, clivars>>

(* fapiwrite() is one write(): a block that is cut short passes for        *)
(* written.                                                                *)
SndRead ==
    /\ srv = "SNDFILE"
    /\ \/ Reads("cancel") /\ Answers(Code("ok"), TRUE)
       \/ Reads("end") /\ Answers(Code("ok"), FALSE)
       \/ /\ Reads("block")
          /\ \/ \E w \in Outcomes \cap {"whole", "torn"} :
                   /\ file' = Stored(w, Head(up).b) /\ srv' = "sndcont"
                   /\ job' = [job EXCEPT !.pos = @ + 1] /\ UNCHANGED down
             \/ Faults /\ Answers(Code("failed"), TRUE)
             \/ Faults /\ Leave("ended", FALSE) /\ UNCHANGED down
       \/ ReadFails /\ Leave("ended", FALSE) /\ UNCHANGED down
    /\ UNCHANGED <<there, orig, thvars, clivars>>

-----------------------------------------------------------------------------
(* The client of an upload.                                                *)

SendBlock ==
    /\ Sends(Msg("block", Block(me.n, me.sent + 1)))
    /\ me' = [me EXCEPT !.sent = @ + 1]
    /\ UNCHANGED down

AtPoint == me.r.canpt > 0 /\ me.sent - me.acked = me.r.canpt

(* It is told to go on: OK, the CONT of SNDFILE, or the CONT at a point.   *)
HearGo ==
    /\ \/ me.r.cmd \in {"PUT", "PUTCAN"} /\ cli = "wait" /\ Hears("ok")
       \/ me.r.cmd = "SNDFILE" /\ cli = "wait" /\ Hears("cont")
       \/ me.r.cmd = "PUTCAN" /\ cli = "send" /\ AtPoint /\ Hears("cont")
    /\ cli' = "send"
    /\ me' = [me EXCEPT !.acked = me.sent]
    /\ UNCHANGED up

ClientBlock ==
    /\ cli = "send" /\ me.sent < MaxBlocks
    /\ me.r.cmd = "PUTCAN" => ~AtPoint
    /\ SendBlock
    /\ cli' = IF me.r.cmd = "SNDFILE" THEN "wait" ELSE "send"

(* It ends, stops or cancels the upload.                                   *)
ClientEnd ==
    /\ cli = "send"
    /\ me.r.cmd = "PUTCAN" => ~AtPoint
    /\ \E t \in {"end", "stop", "cancel"} :
          /\ t = "stop" => me.r.cmd \in {"PUT", "PUTCAN"}
          /\ Sends(Code(t))
          /\ me' = [me EXCEPT !.res = IF t = "cancel" THEN "cancelled"
                                                      ELSE "ok"]
          /\ cli' = CASE me.r.cmd = "PUTCAN" -> "idle"
                      [] me.r.cmd = "PUT" -> "fin"
                      [] me.r.cmd = "SUP" /\ t = "cancel" -> "idle"
                      [] OTHER -> "reply"
    /\ UNCHANGED down

(* The session cancels: PUT at any time, PUTCAN at a point.                *)
HearCancel ==
    /\ Hears("cancel")
    /\ \/ me.r.cmd = "PUT" /\ cli \in {"send", "fin"} /\ cli' = "fin"
       \/ me.r.cmd = "PUTCAN" /\ cli = "send" /\ AtPoint /\ cli' = "idle"
    /\ me' = [me EXCEPT !.res = "stopped"]
    /\ UNCHANGED up

HearFin ==
    /\ me.r.cmd = "PUT" /\ cli = "fin" /\ Hears("fin")
    /\ Sends(Code("fin"))
    /\ cli' = "idle" /\ UNCHANGED me

HearOk ==
    /\ me.r.cmd \in {"SUP", "SNDFILE"} /\ cli = "reply" /\ Hears("ok")
    /\ cli' = "idle" /\ UNCHANGED <<up, me>>

UploadClient ==
    /\ me.r.cmd \in Uploads
    /\ HearGo \/ ClientBlock \/ ClientEnd \/ HearCancel \/ HearFin \/ HearOk
    /\ UNCHANGED <<there, file, srvvars>>

UploadServer ==
    \/ \E cmd \in {"PUT", "PUTCAN"} : PutStart(cmd)
    \/ PutRead \/ PutCancel \/ PutFin \/ PutDrain
    \/ PutCanRead \/ PutPoint
    \/ SupStart \/ SupBlock \/ SupEnd
    \/ SndStart \/ SndCont \/ SndRead
=============================================================================
