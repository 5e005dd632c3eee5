------------------------------ MODULE Streams -------------------------------
(***************************************************************************)
(* A session that serves uploads and downloads of one file, one after the  *)
(* other, over one connection: modules Upload and Download composed on the *)
(* wire they share.                                                        *)
(***************************************************************************)
EXTENDS Upload, Download

Client ==
    \/ \E r \in Requests : Issue(r)
    \/ HearFailed
    \/ UploadClient
    \/ DownloadClient
    \/ CancelGet

Server == LoopEnds \/ UploadServer \/ DownloadServer

Next == Client \/ Server \/ Vanish

(* A session that can go on does, and so does its thread; a client that is *)
(* there ends what it has begun, but need not begin anything, need not     *)
(* cancel a GET, and may vanish.                                           *)
Fairness ==
    /\ WF_vars(LoopEnds \/ UploadServer)
    /\ WF_vars(DownloadServer) /\ WF_vars(GetThread)
    /\ WF_vars(HearFailed \/ UploadClient \/ DownloadClient)

Spec == WireInit /\ [][Next]_vars /\ Fairness

-----------------------------------------------------------------------------
(* The two sides agree on where the stream ends: what the main loop        *)
(* (cmdifce()) reads is a command, never a code or a block left over from  *)
(* a transfer, and a client that is done with a command finds nothing of   *)
(* it in front of the answer to the next.  The handshake of FINs, the join *)
(* of the thread of GET and the cancellation points are there for this.    *)
InStep ==
    /\ srv = "loop" /\ up # <<>> => Head(up).t = "req"
    /\ cli = "idle" => down = <<>>

(* What the session vouches for is in the file: all the blocks of a PUT    *)
(* that the client ended or stopped and the session did not cancel, of a   *)
(* SUP or SNDFILE that was answered OK, and the blocks of a PUTCAN up to   *)
(* the last point at which it was told to continue.  The one exception is  *)
(* a block of SNDFILE that write() cut short: fapiwrite() writes once and  *)
(* rcvfile() looks for -1 only.                                            *)
StoredIsSent ==
    cli = "idle" /\ me.r.cmd \in Uploads
    /\ (me.res = "ok" \/ (me.res = "stopped" /\ me.r.cmd = "PUTCAN")) =>
        \A i \in 1 .. IF me.r.cmd = "PUTCAN" THEN me.acked ELSE me.sent :
            /\ me.r.off + i <= Len(Content(file))
            /\ \/ file[me.r.off + i] = Block(me.n, i)
               \/ me.r.cmd = "SNDFILE" /\ file[me.r.off + i] = Torn

(* An upload that the client cancelled, or that failed, leaves nothing of  *)
(* what was sent, once the session is done with it: putstream(),           *)
(* putstream_can(), cmd_sup() and rcvfile() unlink the file.  Not so if    *)
(* the session itself cancelled first (res is "stopped" for those).        *)
NothingLeft ==
    srv = "loop" /\ up = <<>> /\ cli = "idle" /\ me.r.cmd \in Uploads
    /\ me.res \in {"cancelled", "failed"} =>
        \A i \in DOMAIN Content(file) :
            file[i] \notin {Block(me.n, k) : k \in 1 .. MaxBlocks}

(* A client that was told of the end of a download has got every block     *)
(* from its offset to the end, although it could cancel at any time.       *)
GotWhole ==
    cli = "idle" /\ me.r.cmd \in Downloads /\ me.res = "ok" =>
        me.got = SubSeq(orig, me.r.off + 1, Len(orig))

(* RCVFILE removes the file only if it was asked to and the client, there  *)
(* or gone by now, has got all of it: sendfile() unlinks it after the last *)
(* CONT and before the OK.                                                 *)
MovedIsDelivered ==
    [][job.r.cmd = "RCVFILE" /\ file' = NoFile =>
            me.r.flag /\ me.got = file]_vars

(* Whatever the client has begun comes to an end: it is answered, or it is *)
(* gone and the session ends, with the socket full in either direction or  *)
(* not.  The exception is a GET whose client is gone before its FIN: the   *)
(* thread reads for ever and pthread_join() waits for it.                  *)
Spins == ~there /\ srv = "getjoin" /\ th = "reads" /\ up = <<>>

EveryTransferEnds ==
    (cli # "idle") ~> (cli = "idle" \/ srv = "ended" \/ Spins)

=============================================================================
