------------------------------ MODULE Download ------------------------------
(***************************************************************************)
(* The transfers from the session to the client: GET (cmd_get(),           *)
(* getstream() and its thread getstream_cancelth()), GETCAN (cmd_getcan(), *)
(* getstream_can()), SDOWN (cmd_sdown()) and RCVFILE (cmd_sendfile(),      *)
(* sendfile()) of src/src/cmd.c, with the client that the documentation    *)
(* describes.                                                              *)
(***************************************************************************)
EXTENDS Wire

(* What readchunk() or fapiread() returns: the next block, the end of the  *)
(* file, or an error.                                                      *)
NextBlock == Msg("block", file[job.pos + 1])
AtEnd == job.pos >= Len(file)

Begins(cmd) ==
    /\ srv = "loop" /\ Reads("req") /\ Head(up).b.cmd = cmd
    /\ orig' = file

(* The session sends the next block and goes on at the given place; it     *)
(* ends if it cannot.                                                      *)
SendsBlock(to) ==
    /\ ~AtEnd
    /\ \/ /\ Writes(NextBlock)
          /\ srv' = to /\ UNCHANGED file
          /\ job' = [job EXCEPT !.pos = @ + 1, !.step = @ + 1]
       \/ WriteFails /\ Leave("ended", FALSE)

-----------------------------------------------------------------------------
(* Mutant of GetStart: hpfcont keeps its value from an earlier GET.        *)
BugGetStart(cmd) ==
    /\ Begins(cmd)
    /\ \/ (Faults \/ file = NoFile) /\ Answers(Code("failed"), FALSE)
                                    /\ UNCHANGED thvars
       \/ /\ file # NoFile
          /\ \/ /\ Writes(Code("ok")) /\ UNCHANGED <<file, hpfcont>>
                /\ srv' = cmd /\ job' = Job(Head(up).b, FALSE)
                /\ th' = IF cmd = "GET" THEN "reads" ELSE th
             \/ WriteFails /\ Leave("ended", FALSE) /\ UNCHANGED thvars
    /\ UNCHANGED <<there, clivars>>

(* GET and GETCAN.  GET starts a thread that reads the client's codes.     *)
GetStart(cmd) ==
    /\ Begins(cmd)
    /\ \/ (Faults \/ file = NoFile) /\ Answers(Code("failed"), FALSE)
                                    /\ UNCHANGED thvars
       \/ /\ file # NoFile
          /\ \/ /\ Writes(Code("ok")) /\ UNCHANGED file
                /\ srv' = cmd /\ job' = Job(Head(up).b, FALSE)
                /\ IF cmd = "GET" THEN th' = "reads" /\ hpfcont' = TRUE
                                  ELSE UNCHANGED thvars
             \/ WriteFails /\ Leave("ended", FALSE) /\ UNCHANGED thvars
    /\ UNCHANGED <<there, clivars>>

(* Mutant of GetSend: an error of read() passes for the end of the file.   *)
BugGetSend ==
    /\ srv = "GET"
    /\ \/ ~hpfcont /\ Goes("getjoin") /\ UNCHANGED down
       \/ hpfcont /\ SendsBlock("GET")
       \/ /\ hpfcont
          /\ (AtEnd \/ Faults)
          /\ \/ Writes(Code("end")) /\ Goes("getjoin")
             \/ WriteFails /\ Leave("ended", FALSE)
    /\ UNCHANGED <<up, there, orig, thvars, clivars>>

(* The loop of getstream(), which ends when the thread has cleared hpfcont.*)
GetSend ==
    /\ srv = "GET"
    /\ \/ ~hpfcont /\ Goes("getjoin") /\ UNCHANGED down
       \/ hpfcont /\ SendsBlock("GET")
       \/ /\ hpfcont
          /\ \E t \in {"end", "cancel"} :
                /\ IF t = "end" THEN AtEnd ELSE Faults
                /\ \/ Writes(Code(t)) /\ Goes("getjoin")
                   \/ WriteFails /\ Leave("ended", FALSE)
    /\ UNCHANGED <<up, there, orig, thvars, clivars>>

(* getstream_cancelth().  It does not look at the result of its read: when *)
(* the client is gone it reads for ever.                                   *)
GetThread ==
    /\ th = "reads" /\ srv # "ended"
    /\ \/ Reads("cancel") /\ hpfcont' = FALSE /\ UNCHANGED th
       \/ Reads("fin") /\ th' = "over" /\ UNCHANGED hpfcont
    /\ UNCHANGED <<down, there, file, srv, job, orig, clivars>>

(* Mutant of GetFin: the session does not join the thread.                 *)
BugGetFin ==
    /\ srv = "getjoin"
    /\ \/ Writes(Code("fin")) /\ Leave("loop", FALSE)
       \/ WriteFails /\ Leave("ended", FALSE)
    /\ th' = "off" /\ UNCHANGED <<up, there, orig, hpfcont, clivars>>

(* pthread_join(), then the FIN.                                           *)
GetFin ==
    /\ srv = "getjoin" /\ th = "over"
    /\ \/ Writes(Code("fin")) /\ Leave("loop", FALSE)
       \/ WriteFails /\ Leave("ended", FALSE)
    /\ th' = "off" /\ UNCHANGED <<up, there, orig, hpfcont, clivars>>

(* The loop of getstream_can().                                            *)
GetCanSend ==
    /\ srv = "GETCAN"
    /\ \/ SendsBlock(IF job.step + 1 = job.r.canpt THEN "getpoint"
                                                    ELSE "GETCAN")
       \/ AtEnd /\ Answers(Code("end"), FALSE)
       \/ Faults /\ Answers(Code("cancel"), FALSE)
    /\ UNCHANGED <<up, there, orig, thvars, clivars>>

GetCanPoint ==
    /\ srv = "getpoint"
    /\ \/ /\ Reads("cont")
          /\ srv' = "GETCAN" /\ UNCHANGED file
          /\ job' = [job EXCEPT !.step = 0]
       \/ Reads("cancel") /\ Leave("loop", FALSE)
       \/ ReadFails /\ Leave("ended", FALSE)
    /\ UNCHANGED <<down, there, orig, thvars, clivars>>

-----------------------------------------------------------------------------
(* SDOWN: blocks, then the header 0, or -1 at any time.                    *)
SDown ==
    /\ \/ /\ Begins("SDOWN")
          /\ \/ (Faults \/ file = NoFile) /\ Answers(Code("failed"), FALSE)
             \/ /\ file # NoFile /\ srv' = "SDOWN"
                /\ job' = Job(Head(up).b, FALSE) /\ UNCHANGED <<file, down>>
       \/ /\ srv = "SDOWN" /\ UNCHANGED <<up, orig>>
          /\ \/ SendsBlock("SDOWN")
             \/ AtEnd /\ Answers(Code("end"), FALSE)
             \/ Faults /\ Answers(Code("failed"), FALSE)
    /\ UNCHANGED <<there, thvars, clivars>>

(* RCVFILE: each block awaits the client's CONT.                           *)
RcvStart ==
    /\ Begins("RCVFILE")
    /\ \/ (Faults \/ file = NoFile) /\ Answers(Code("failed"), FALSE)
       \/ /\ file # NoFile /\ srv' = "RCVFILE"
          /\ job' = Job(Head(up).b, FALSE) /\ UNCHANGED <<file, down>>
    /\ UNCHANGED <<there, thvars, clivars>>

(* At the end of the file it is removed if the client asked for that, and  *)
(* then the client is answered.                                            *)
RcvSend ==
    /\ srv = "RCVFILE"
    /\ \/ SendsBlock("rcvack")
       \/ AtEnd /\ Answers(Code("ok"), job.r.flag)
       \/ Faults /\ Answers(Code("failed"), FALSE)
    /\ UNCHANGED <<up, there, orig, thvars, clivars>>

(* Mutant of RcvAck: BREAK leaves the loop and not the handler.            *)
BugRcvAck ==
    /\ srv = "rcvack"
    /\ \/ Reads("cont") /\ Goes("RCVFILE") /\ UNCHANGED down
       \/ Reads("cancel") /\ Answers(Code("ok"), job.r.flag)
       \/ ReadFails /\ Leave("ended", FALSE) /\ UNCHANGED down
    /\ UNCHANGED <<there, orig, thvars, clivars>>

RcvAck ==
    /\ srv = "rcvack"
    /\ \/ Reads("cont") /\ Goes("RCVFILE") /\ UNCHANGED down
       \/ Reads("cancel") /\ Answers(Code("ok"), FALSE)
       \/ ReadFails /\ Leave("ended", FALSE) /\ UNCHANGED down
    /\ UNCHANGED <<there, orig, thvars, clivars>>

DownloadServer ==
    \/ \E cmd \in {"GET", "GETCAN"} : GetStart(cmd)
    \/ GetSend \/ GetThread \/ GetFin \/ GetCanSend \/ GetCanPoint
    \/ SDown \/ RcvStart \/ RcvSend \/ RcvAck

-----------------------------------------------------------------------------
(* The client of a download.  acked counts the blocks up to the last point *)
(* of GETCAN.                                                              *)

HearStart ==
    /\ me.r.cmd \in {"GET", "GETCAN"} /\ cli = "wait" /\ Hears("ok")
    /\ cli' = "recv" /\ UNCHANGED <<up, me>>

HearBlock ==
    /\ cli = "recv" /\ Hears("block")
    /\ me' = [me EXCEPT !.got = Append(@, Head(down).b)]
    /\ cli' = IF \/ me.r.cmd = "RCVFILE"
                 \/ me.r.cmd = "GETCAN"
                    /\ Len(me.got) + 1 - me.acked = me.r.canpt
              THEN "ack" ELSE "recv"
    /\ UNCHANGED up

(* CONT, or the code that ends the transfer: GETCAN is over then, RCVFILE  *)
(* is answered.                                                            *)
SendAck ==
    /\ cli = "ack" /\ UNCHANGED down
    /\ \/ /\ Sends(Code("cont")) /\ cli' = "recv"
          /\ me' = [me EXCEPT !.acked = Len(me.got)]
       \/ /\ Sends(Code("cancel"))
          /\ me' = [me EXCEPT !.res = "cancelled"]
          /\ cli' = IF me.r.cmd = "GETCAN" THEN "idle" ELSE "reply"

(* The end of the file, or the session's CANCEL; GET answers with FIN.     *)
HearEnd ==
    /\ cli = "recv"
    /\ \E t \in {"end", "cancel", "ok"} :
          /\ Hears(t)
          /\ me' = [me EXCEPT !.res = IF t = "cancel" THEN "failed" ELSE "ok"]
    /\ IF me.r.cmd = "GET" THEN cli' = "fin" /\ Sends(Code("fin"))
                           ELSE cli' = "idle" /\ UNCHANGED up

HearReply ==
    /\ cli = "reply" /\ Hears("ok")
    /\ cli' = "idle" /\ UNCHANGED <<up, me>>

(* GET is cancelled: CANCEL, and FIN some time later; what still comes is  *)
(* dropped, up to the session's FIN.                                       *)
CancelGet ==
    /\ me.r.cmd = "GET" /\ cli = "recv"
    /\ Sends(Code("cancel")) /\ cli' = "drop"
    /\ me' = [me EXCEPT !.res = "cancelled"]
    /\ UNCHANGED <<down, there, file, srvvars>>

FinGet ==
    /\ cli = "drop" /\ Sends(Code("fin")) /\ cli' = "fin"
    /\ UNCHANGED <<down, me>>

DropGet ==
    /\ me.r.cmd = "GET" /\ cli \in {"drop", "fin"}
    /\ \/ \E t \in {"block", "end", "cancel"} : Hears(t) /\ UNCHANGED cli
       \/ cli = "fin" /\ Hears("fin") /\ cli' = "idle"
    /\ UNCHANGED <<up, me>>

DownloadClient ==
    /\ me.r.cmd \in Downloads
    /\ \/ HearStart \/ HearBlock \/ SendAck \/ HearEnd \/ HearReply
       \/ FinGet \/ DropGet
    /\ UNCHANGED <<there, file, srvvars>>
=============================================================================
