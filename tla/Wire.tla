-------------------------------- MODULE Wire --------------------------------
(***************************************************************************)
(* What the file transfers of src/src/cmd.c have in common: the session    *)
(* process and its client on the two ends of a connection, one sequence of *)
(* messages per direction, and the file the transfers are about.  A header *)
(* and its payload are one message.  The socket holds Cap messages; a      *)
(* client that is gone takes what it has not read with it, and what it has *)
(* sent reaches the session or is lost (src/src/tfproto.c, rdfd(),         *)
(* wrfd()).  The client is external: it does what the protocol's           *)
(* documentation asks of it, in any order that allows.                     *)
(***************************************************************************)
EXTENDS Integers, Sequences, SequencesExt, FiniteSetsExt

CONSTANTS
    MaxCmds,     \* commands a client sends
    MaxBlocks,   \* blocks of an upload, and of the file at the start
    MaxPoint,    \* largest distance of two cancellation points
    Cap,         \* messages that fit into the socket, in each direction
    Faults,      \* whether calls of the operating system may fail
    NoFile       \* the path names no file

ASSUME WireAssumption ==
    /\ MaxCmds \in Nat \ {0} /\ MaxBlocks \in Nat /\ MaxPoint \in Nat
    /\ Cap \in Nat \ {0} /\ Faults \in BOOLEAN

Uploads == {"PUT", "PUTCAN", "SUP", "SNDFILE"}
Downloads == {"GET", "GETCAN", "SDOWN", "RCVFILE"}

(* A command: the offset of PUT, GET and the like, canpt, and the flag of  *)
(* SNDFILE (overwrite) and RCVFILE (delete afterwards).                    *)
Requests ==
    [cmd : {"PUT", "GET"}, off : 0 .. 1, canpt : {0}, flag : {FALSE}]
    \cup [cmd : {"PUTCAN", "GETCAN"}, off : 0 .. 1, canpt : 0 .. MaxPoint,
          flag : {FALSE}]
    \cup [cmd : {"SUP", "SDOWN"}, off : {0}, canpt : {0}, flag : {FALSE}]
    \cup [cmd : {"SNDFILE", "RCVFILE"}, off : {0}, canpt : {0},
          flag : BOOLEAN]

VARIABLES
    up, down,    \* messages to the session, and to the client
    there,       \* the client is there
    file,        \* the file: NoFile or a sequence of blocks
    srv,         \* where the session is
    job,         \* the session's variables: see Job
    orig,        \* the file when the session began the command
    th, hpfcont, \* the thread of GET, and the flag it shares with the session
    cli,         \* where the client is
    me           \* the client's variables: see Mine

thvars == <<th, hpfcont>>
clivars == <<cli, me>>
srvvars == <<srv, job, orig, th, hpfcont>>
vars == <<up, down, there, file, srv, job, orig, th, hpfcont, cli, me>>

(* Block i of the n-th command; a block of the file at the start; a block  *)
(* of which only a part was written.                                       *)
Block(n, i) == <<n, i>>
Old(i) == <<0, i>>
Torn == <<0, 0>>

Msg(t, b) == [t |-> t, b |-> b]
Code(t) == Msg(t, <<>>)

NoRequest == [cmd |-> "none", off |-> 0, canpt |-> 0, flag |-> FALSE]

(* pos: blocks written or read; del, bad: the flags of the handlers (bad   *)
(* stands for end of putstream_can() and for rc and err of cmd_sup());     *)
(* step: canstep.                                                          *)
Job(r, bad) ==
    [r |-> r, pos |-> r.off, del |-> FALSE, bad |-> bad, step |-> 0]

(* n: commands sent; sent, acked, got: blocks; res: how it ended.          *)
Mine(n, r) ==
    [n |-> n, r |-> r, sent |-> 0, acked |-> 0, got |-> <<>>, res |-> "none"]

WireInit ==
    /\ up = <<>> /\ down = <<>> /\ there = TRUE
    /\ file \in {NoFile, [i \in 1 .. MaxBlocks |-> Old(i)]}
    /\ orig = file
    /\ srv = "loop" /\ job = Job(NoRequest, FALSE)
    /\ th = "off" /\ hpfcont = TRUE
    /\ cli = "idle" /\ me = Mine(0, NoRequest)

-----------------------------------------------------------------------------
(* The session's side of the socket.                                       *)

Content(f) == IF f = NoFile THEN <<>> ELSE f

(* writebuf(), writebuf_ex(): they wait for room.  To a client that is     *)
(* gone they write into the void or fail.                                  *)
Writes(m) ==
    IF there THEN Len(down) < Cap /\ down' = Append(down, m)
             ELSE UNCHANGED down
WriteFails == ~there /\ UNCHANGED down

(* readbuf(), readbuf_ex(): they wait for a message, and fail at the end   *)
(* of what the client sent.                                                *)
Reads(t) == up # <<>> /\ Head(up).t = t /\ up' = Tail(up)
ReadFails == ~there /\ up = <<>> /\ UNCHANGED up

(* The handler returns, after endcomm() if the session is to end; the file *)
(* is removed if del says so.                                              *)
Leave(to, del) ==
    /\ srv' = to
    /\ file' = IF del THEN NoFile ELSE file
    /\ job' = Job(NoRequest, FALSE)

(* The last message of a handler: cmd_ok(), cmd_fail() or a code.          *)
Answers(m, del) ==
    \/ Writes(m) /\ Leave("loop", del)
    \/ WriteFails /\ Leave("ended", del)

Goes(to) == srv' = to /\ UNCHANGED <<file, job>>

(* getcmd() of the main loop fails: the session ends.                      *)
LoopEnds ==
    /\ srv = "loop" /\ ReadFails /\ Leave("ended", FALSE)
    /\ UNCHANGED <<down, there, orig, thvars, clivars>>

-----------------------------------------------------------------------------
(* The client's side.                                                      *)

Sends(m) == Len(up) < Cap /\ up' = Append(up, m)
Hears(t) == down # <<>> /\ Head(down).t = t /\ down' = Tail(down)

Ends(res) == cli' = "idle" /\ me' = [me EXCEPT !.res = res]

Issue(r) ==
    /\ cli = "idle" /\ me.n < MaxCmds
    /\ Sends(Msg("req", r))
    /\ me' = Mine(me.n + 1, r)
    /\ cli' = CASE r.cmd = "SUP" -> "send"
                [] r.cmd \in {"SDOWN", "RCVFILE"} -> "recv"
                [] OTHER -> "wait"
    /\ UNCHANGED <<down, there, file, srvvars>>

(* FAILED, or the header -1 of SDOWN and SUP.                              *)
HearFailed ==
    /\ Hears("failed") /\ Ends("failed")
    /\ UNCHANGED <<up, there, file, srvvars>>

(* The client closes the connection or dies, at any time.                  *)
Vanish ==
    /\ there
    /\ there' = FALSE /\ cli' = "gone" /\ down' = <<>>
    /\ up' \in {up, <<>>}
    /\ UNCHANGED <<me, file, srvvars>>
=============================================================================
