-------------------------------- MODULE Ace ---------------------------------
(***************************************************************************)
(* RUN_NL and RUN_BUF of the subsystem ACE (src/src/xs_ace/xs_ace.c): a    *)
(* module runs as a child of the session, with two pipes; runnl_rdth() or  *)
(* runbuf_rdth() takes lines and signals from the client to the module,    *)
(* runnl_wrth() or runbuf_wrth() takes its output to the client, and       *)
(* xs_ace_runnl() or xs_ace_runbuf() starts them and joins them.  A line   *)
(* to the module is one message; the header and the payload of its output  *)
(* are two, since two threads write to the socket.                         *)
(***************************************************************************)
EXTENDS Naturals, Sequences

CONSTANTS
    MaxRuns,   \* modules a client runs
    MaxLines,  \* lines it sends to a module
    MaxOut,    \* lines a module writes
    PipeCap,   \* lines that fit into a pipe
    Cap        \* messages that fit into the socket, in each direction

ASSUME AceAssumption ==
    /\ MaxRuns \in Nat /\ MaxLines \in Nat /\ MaxOut \in Nat
    /\ PipeCap \in Nat \ {0} /\ Cap \in Nat \ {0}

VARIABLES
    main,        \* "loop" of xs_ace(), "spawn", "ok", "join", "es", "ended"
    rd,          \* the reading thread: "off", "read", "write", "reap", "done"
    wr,          \* the writing thread: "off", "read", "pay", "end", "done"
    exitmod,     \* set by the threads when the client is gone
    child,       \* the module: "none", "run", "zombie", "reaped"
    pdin, pdout, \* lines in the pipes
    wrote,       \* lines the module wrote
    shut,        \* it has closed its output, though it runs
    up, down,    \* messages to the session, and to the client
    cli,         \* "idle", "wait", "running", "confirmed", "gone"
    pay,         \* the client has read a header and awaits the payload
    me           \* its counters: runs, lines, got, and whether it sent SIGKILL

srvvars == <<main, rd, wr, exitmod>>
modvars == <<child, pdin, pdout, wrote, shut>>
clivars == <<cli, pay, me>>
vars == <<srvvars, modvars, up, down, clivars>>

Init ==
    /\ main = "loop" /\ rd = "off" /\ wr = "off" /\ exitmod = FALSE
    /\ child = "none" /\ pdin = 0 /\ pdout = 0 /\ wrote = 0 /\ shut = FALSE
    /\ up = <<>> /\ down = <<>>
    /\ cli = "idle" /\ pay = FALSE
    /\ me = [runs |-> 0, lines |-> 0, got |-> 0, kill |-> FALSE]

-----------------------------------------------------------------------------
Gone == cli = "gone"

(* writebuf_ex() waits for room; to a client that is gone it writes into   *)
(* the void or fails.  readbuf_ex() fails at the end of what was sent.     *)
Writes(m) == IF Gone THEN UNCHANGED down
                     ELSE Len(down) < Cap /\ down' = Append(down, m)
WriteFails == Gone /\ UNCHANGED down
Reads(m) == up # <<>> /\ Head(up) = m /\ up' = Tail(up)
ReadFails == Gone /\ up = <<>> /\ UNCHANGED up

(* A command arrives.  It is refused, or pipe() or fork() fails; or the    *)
(* module and the writing thread are started.                              *)
MainRun ==
    /\ main = "loop" /\ Reads("run")
    /\ \/ /\ Writes("error") \/ WriteFails
          /\ UNCHANGED <<srvvars, modvars>>
       \/ /\ main' = "spawn" /\ wr' = "read" /\ rd' = "off"
          /\ child' = "run" /\ pdin' = 0 /\ pdout' = 0 /\ wrote' = 0
          /\ shut' = FALSE
          /\ UNCHANGED <<down, exitmod>>
    /\ UNCHANGED clivars

MainSpawn ==
    /\ main = "spawn" /\ main' = "ok" /\ rd' = "read"
    /\ UNCHANGED <<wr, exitmod, modvars, up, down, clivars>>

(* writecode(XS_ACE_OK), while the threads already run.  It takes a failed *)
(* write for a good one: it compares with 1.                               *)
MainOk ==
    /\ main = "ok" /\ (Writes("ok") \/ WriteFails) /\ main' = "join"
    /\ UNCHANGED <<rd, wr, exitmod, modvars, up, clivars>>

(* Mutant of MainJoin: the module is waited for before the threads.        *)
BugMainJoin ==
    /\ main = "join"
    /\ \/ child = "zombie" /\ child' = "reaped" /\ UNCHANGED main
       \/ /\ child = "reaped" /\ rd = "done" /\ wr = "done"
          /\ main' = (IF exitmod THEN "ended" ELSE "es") /\ UNCHANGED child
    /\ UNCHANGED <<rd, wr, exitmod, pdin, pdout, wrote, shut, up, down, clivars>>

(* pthread_join() of both, then waitpid(), unless the session is to end.   *)
MainJoin ==
    /\ main = "join" /\ rd = "done" /\ wr = "done"
    /\ \/ exitmod /\ main' = "ended" /\ UNCHANGED child
       \/ /\ ~exitmod /\ child = "zombie"
          /\ child' = "reaped" /\ main' = "es"
    /\ UNCHANGED <<rd, wr, exitmod, pdin, pdout, wrote, shut, up, down, clivars>>

(* sendes()                                                                *)
MainEs ==
    /\ main = "es"
    /\ \/ Writes("es") /\ main' = "loop"
       \/ WriteFails /\ main' = "ended"
    /\ UNCHANGED <<rd, wr, exitmod, modvars, up, clivars>>

(* getcmd() of xs_ace() fails.                                             *)
MainEnds ==
    /\ main = "loop" /\ ReadFails /\ main' = "ended"
    /\ UNCHANGED <<rd, wr, exitmod, modvars, down, clivars>>

-----------------------------------------------------------------------------
(* kill() ends a module that runs.                                         *)
Kill == child' = IF child = "run" THEN "zombie" ELSE child

(* Mutant of ReadThread: it takes SIGKILL for the end of the run.          *)
BugReadThread ==
    /\ rd = "read"
    /\ \/ Reads("ok") /\ rd' = "done" /\ UNCHANGED <<child, exitmod>>
       \/ Reads("kill") /\ Kill /\ rd' = "done" /\ UNCHANGED exitmod
       \/ Reads("term") /\ (Kill \/ UNCHANGED child) /\ UNCHANGED <<rd, exitmod>>
       \/ Reads("line") /\ rd' = "write" /\ UNCHANGED <<child, exitmod>>
       \/ ReadFails /\ exitmod' = TRUE /\ Kill /\ rd' = "reap"
    /\ UNCHANGED <<main, wr, pdin, pdout, wrote, shut, down, clivars>>

(* The reading thread: lines for the module, its signals, and the client's *)
(* confirmation.  When the client is gone it kills the module and waits.   *)
ReadThread ==
    /\ rd = "read"
    /\ \/ Reads("ok") /\ rd' = "done" /\ UNCHANGED <<child, exitmod>>
       \/ Reads("kill") /\ Kill /\ UNCHANGED <<rd, exitmod>>
       \/ Reads("term") /\ (Kill \/ UNCHANGED child) /\ UNCHANGED <<rd, exitmod>>
       \/ Reads("line") /\ rd' = "write" /\ UNCHANGED <<child, exitmod>>
       \/ ReadFails /\ exitmod' = TRUE /\ Kill /\ rd' = "reap"
    /\ UNCHANGED <<main, wr, pdin, pdout, wrote, shut, down, clivars>>

(* fprintf() or writechunk() to the pipe: it waits for room, and fails     *)
(* when the module is gone.                                                *)
WriteLine ==
    /\ rd = "write" /\ rd' = "read"
    /\ \/ child = "run" /\ pdin < PipeCap /\ pdin' = pdin + 1
       \/ child # "run" /\ UNCHANGED pdin
    /\ UNCHANGED <<main, wr, exitmod, child, pdout, wrote, shut, up, down, clivars>>

(* Mutant of ReapThread: the module is left to the main thread.            *)
BugReapThread ==
    /\ rd = "reap" /\ rd' = "done"
    /\ UNCHANGED <<main, wr, exitmod, modvars, up, down, clivars>>

(* sec_waitpid()                                                           *)
ReapThread ==
    /\ rd = "reap" /\ child = "zombie" /\ child' = "reaped" /\ rd' = "done"
    /\ UNCHANGED <<main, wr, exitmod, pdin, pdout, wrote, shut, up, down, clivars>>

(* Mutant of WriteThread: it ends as soon as the module has.               *)
BugWriteThread ==
    /\ wr = "read"
    /\ \/ /\ pdout > 0 /\ child = "run" /\ pdout' = pdout - 1
          /\ \/ Writes("hdr") /\ wr' = "pay" /\ UNCHANGED exitmod
             \/ WriteFails /\ wr' = "done" /\ exitmod' = TRUE
       \/ child # "run" /\ wr' = "end" /\ UNCHANGED <<pdout, exitmod, down>>
    /\ UNCHANGED <<main, rd, child, pdin, wrote, shut, up, clivars>>

(* The writing thread: a line of the module, or the end of its output.     *)
WriteThread ==
    /\ wr = "read"
    /\ \/ /\ pdout > 0 /\ pdout' = pdout - 1
          /\ \/ Writes("hdr") /\ wr' = "pay" /\ UNCHANGED exitmod
             \/ WriteFails /\ wr' = "done" /\ exitmod' = TRUE
       \/ /\ pdout = 0 /\ (child # "run" \/ shut) /\ wr' = "end"
          /\ UNCHANGED <<pdout, exitmod, down>>
    /\ UNCHANGED <<main, rd, child, pdin, wrote, shut, up, clivars>>

WritePayload ==
    /\ wr = "pay"
    /\ \/ Writes("pay") /\ wr' = "read" /\ UNCHANGED exitmod
       \/ WriteFails /\ wr' = "done" /\ exitmod' = TRUE
    /\ UNCHANGED <<main, rd, modvars, up, clivars>>

(* writecode(XS_ACE_RUNEND)                                                *)
WriteEnd ==
    /\ wr = "end" /\ (Writes("runend") \/ WriteFails) /\ wr' = "done"
    /\ UNCHANGED <<main, rd, exitmod, modvars, up, clivars>>

-----------------------------------------------------------------------------
(* The module, external: it reads, writes, closes its output and exits as  *)
(* it likes.                                                               *)
Module ==
    /\ child = "run"
    /\ \/ pdin > 0 /\ pdin' = pdin - 1 /\ UNCHANGED <<child, pdout, wrote, shut>>
       \/ /\ ~shut /\ pdout < PipeCap /\ wrote < MaxOut
          /\ pdout' = pdout + 1 /\ wrote' = wrote + 1
          /\ UNCHANGED <<child, pdin, shut>>
       \/ ~shut /\ shut' = TRUE /\ UNCHANGED <<child, pdin, pdout, wrote>>
       \/ child' = "zombie" /\ UNCHANGED <<pdin, pdout, wrote, shut>>
    /\ UNCHANGED <<srvvars, up, down, clivars>>

(* The client, external: it runs a module, sends it lines and signals, and *)
(* confirms its end.                                                       *)
Sends(m) == Len(up) < Cap /\ up' = Append(up, m)

ClientRun ==
    /\ cli = "idle" /\ me.runs < MaxRuns /\ Sends("run")
    /\ cli' = "wait"
    /\ me' = [runs |-> me.runs + 1, lines |-> 0, got |-> 0, kill |-> FALSE]
    /\ UNCHANGED <<srvvars, modvars, down, pay>>

ClientSends ==
    /\ cli = "running"
    /\ \/ /\ me.lines < MaxLines /\ (Sends("line") \/ Sends("term"))
          /\ me' = [me EXCEPT !.lines = @ + 1]
       \/ /\ ~me.kill /\ Sends("kill")
          /\ me' = [me EXCEPT !.kill = TRUE]
    /\ UNCHANGED <<srvvars, modvars, down, cli, pay>>

Hears(m) == down # <<>> /\ Head(down) = m /\ down' = Tail(down)

ClientHears ==
    /\ cli # "gone"
    /\ \/ ~pay /\ Hears("hdr") /\ pay' = TRUE /\ UNCHANGED <<up, cli, me>>
       \/ /\ pay /\ Hears("pay") /\ pay' = FALSE
          /\ me' = [me EXCEPT !.got = @ + 1] /\ UNCHANGED <<up, cli>>
       \/ /\ ~pay /\ Hears("ok") /\ UNCHANGED <<up, pay, me>>
          /\ cli' = IF cli = "wait" THEN "running" ELSE cli
       \/ /\ ~pay /\ Hears("runend") /\ Sends("ok")
          /\ cli' = "confirmed" /\ UNCHANGED <<pay, me>>
       \/ /\ ~pay /\ (Hears("es") \/ Hears("error"))
          /\ cli' = "idle" /\ UNCHANGED <<up, pay, me>>
    /\ UNCHANGED <<srvvars, modvars>>

(* The client dies, closes the connection, or gives up because it found    *)
(* something else where a payload should be.                               *)
ClientLeaves ==
    /\ cli' = "gone" /\ down' = <<>> /\ up' \in {up, <<>>}
    /\ UNCHANGED <<srvvars, modvars, pay, me>>

Vanish == cli # "gone" /\ ClientLeaves
GiveUp == cli # "gone" /\ pay /\ down # <<>> /\ Head(down) # "pay" /\ ClientLeaves

Main == MainRun \/ MainSpawn \/ MainOk \/ MainJoin \/ MainEs \/ MainEnds
Reader == ReadThread \/ WriteLine \/ ReapThread
Writer == WriteThread \/ WritePayload \/ WriteEnd

Next ==
    \/ Main \/ Reader \/ Writer \/ Module
    \/ ClientRun \/ ClientSends \/ ClientHears \/ Vanish \/ GiveUp

(* The threads run and a client that is there reads what it is sent.  The  *)
(* module need not do anything, and the client need not send anything.     *)
Fairness ==
    /\ WF_vars(Main) /\ WF_vars(Reader) /\ WF_vars(Writer)
    /\ WF_vars(ClientHears \/ GiveUp)

Spec == Init /\ [][Next]_vars /\ Fairness

-----------------------------------------------------------------------------
(* The session and the client agree on where a run ends, whatever lines    *)
(* and signals cross the end of the module: the loop of xs_ace() reads     *)
(* commands only, and a client with an exit status has nothing left to     *)
(* read of that run.                                                       *)
RunInStep ==
    /\ main = "loop" /\ up # <<>> => Head(up) = "run"
    /\ cli = "idle" => down = <<>>

(* kill() and waitpid() of the reading thread are for a module that nobody *)
(* has waited for: its process id has not gone to another process.         *)
SignalHitsModule ==
    rd \in {"read", "write", "reap"} => child \in {"run", "zombie"}

(* A client that confirms the end of a module has got all that it wrote,   *)
(* though RUNEND, the output and the start code come from two threads.     *)
OutputIsWhole == cli = "confirmed" => (child # "run" \/ shut) /\ me.got = wrote

(* Nobody reads the socket while the module runs: the reading thread       *)
(* writes to a module that does not read, or the client has confirmed the  *)
(* end of the output of a module that goes on.                             *)
Deaf ==
    /\ child = "run"
    /\ \/ rd = "write" /\ pdin = PipeCap
       \/ rd = "done"

(* A run comes to an end.  Once the module has exited it is waited for,    *)
(* with the session back in its loop or ended.  Once the client is gone    *)
(* the session ends and leaves no module behind, and once the client sent  *)
(* SIGKILL the module ends, however many lines are under way, unless the   *)
(* session is deaf to it.                                                  *)
RunIsOver ==
    /\ child = "zombie" ~> child = "reaped" /\ main \in {"loop", "ended"}
    /\ Gone ~> (main = "ended" /\ child \in {"none", "reaped"}) \/ Deaf
    /\ me.kill ~> child # "run" \/ Deaf

=============================================================================
