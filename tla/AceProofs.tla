----------------------------- MODULE AceProofs ------------------------------
(***************************************************************************)
(* Proofs about Ace, for any number of runs and lines and any capacity of  *)
(* the pipes and the socket.                                               *)
(***************************************************************************)
EXTENDS Ace, SequenceTheorems, TLAPS

(* The reading thread is not there before pthread_create() and after       *)
(* pthread_join(), and a module that was just forked is waited for by      *)
(* nobody.                                                                 *)
ThreadLife ==
    /\ main = "spawn" => rd = "off" /\ child \in {"run", "zombie"}
    /\ main \in {"loop", "es", "ended"} => rd \in {"off", "done"}

PidInv == ThreadLife /\ SignalHitsModule

(* No module runs in a session that enters xs_ace().                       *)
LEMMA PidInit == Init => PidInv
  BY DEF Init, PidInv, ThreadLife, SignalHitsModule

(* Only the two joins and the wait of the reading thread make a module     *)
(* reaped, and then that thread signals no more.                           *)
LEMMA PidStep == PidInv /\ [Next]_vars => PidInv'
<1> SUFFICES ASSUME PidInv, [Next]_vars PROVE PidInv'
  OBVIOUS
<1> USE DEF PidInv, ThreadLife, SignalHitsModule, srvvars, modvars, clivars
<1>1. CASE MainRun
  BY <1>1 DEF MainRun
<1>2. CASE MainSpawn
  BY <1>2 DEF MainSpawn
<1>3. CASE MainOk
  BY <1>3 DEF MainOk
<1>4. CASE MainJoin
  BY <1>4 DEF MainJoin
<1>5. CASE MainEs
  BY <1>5 DEF MainEs
<1>6. CASE MainEnds
  BY <1>6 DEF MainEnds
<1>7. CASE ReadThread
  BY <1>7 DEF ReadThread, Kill
<1>8. CASE WriteLine
  BY <1>8 DEF WriteLine
<1>9. CASE ReapThread
  BY <1>9 DEF ReapThread
<1>10. CASE WriteThread \/ WritePayload \/ WriteEnd
  BY <1>10 DEF WriteThread, WritePayload, WriteEnd
<1>11. CASE Module
  BY <1>11 DEF Module
<1>12. CASE ClientRun \/ ClientSends \/ ClientHears \/ Vanish \/ GiveUp
  BY <1>12 DEF ClientRun, ClientSends, ClientHears, Vanish, GiveUp,
               ClientLeaves
<1>13. CASE UNCHANGED vars
  BY <1>13 DEF vars
<1> QED
  BY <1>1, <1>2, <1>3, <1>4, <1>5, <1>6, <1>7, <1>8, <1>9, <1>10, <1>11,
     <1>12, <1>13 DEF Next, Main, Reader, Writer

(* kill() and waitpid() in runnl_rdth() and runbuf_rdth() are for a        *)
(* process that is still the module's, in every run of every session.      *)
THEOREM SignalsHit == Spec => []SignalHitsModule
<1>1. PidInv => SignalHitsModule
  BY DEF PidInv
<1> QED  BY <1>1, PidInit, PidStep, PTL DEF Spec

-----------------------------------------------------------------------------
(* What goes through the socket, to the session and to the client.         *)
UpMsgs == {"run", "line", "term", "kill", "ok"}
DownMsgs == {"hdr", "pay", "ok", "runend", "es", "error"}

(* A run is under way in the session.                                      *)
InRun == main \in {"spawn", "ok", "join", "es"}

(* The types of what the runs of a module count and exchange.              *)
Typed ==
    /\ main \in {"loop", "spawn", "ok", "join", "es", "ended"}
    /\ cli \in {"idle", "wait", "running", "confirmed", "gone"}
    /\ up \in Seq(UpMsgs) /\ down \in Seq(DownMsgs)
    /\ pdout \in Nat /\ wrote \in Nat
    /\ me \in [runs : Nat, lines : Nat, got : Nat, kill : BOOLEAN]

(* Where the threads are while xs_ace_runnl() starts and joins them, and   *)
(* that only the end of the client ends the session.                       *)
Threads ==
    /\ main \in {"loop", "es"} => wr \in {"off", "done"}
    /\ main \in {"loop", "ended"} => rd \in {"off", "done"}
    /\ main = "spawn" => rd = "off"
    /\ main = "es" => rd = "done"
    /\ exitmod \/ main = "ended" => Gone
    /\ Gone => down = <<>>

(* What is on the way to the session: a command for the loop, or lines and *)
(* signals for a run, of which the confirmation is the last.               *)
UpWay ==
    /\ main = "loop" => up \in {<<>>, <<"run">>}
    /\ InRun =>
          /\ \A i \in 1 .. Len(up) :
                up[i] # "run" /\ (up[i] = "ok" => i = Len(up))
          /\ rd = "done" => up = <<>> /\ cli \in {"confirmed", "gone"}
          /\ rd = "reap" => up = <<>> /\ Gone

(* The client in each of its states.                                       *)
ClientWay ==
    /\ cli = "idle" => main = "loop" /\ up = <<>> /\ down = <<>>
    /\ cli = "wait" /\ main = "loop" =>
          \/ up = <<"run">> /\ down = <<>> /\ me.got = 0
          \/ up = <<>> /\ down = <<"error">>
    /\ cli = "wait" /\ main # "loop" => up = <<>>
    /\ cli = "running" =>
          /\ main = "join"
          /\ \A i \in 1 .. Len(up) : up[i] # "ok"
    /\ cli = "confirmed" =>
          /\ wr = "done" /\ (child # "run" \/ shut) /\ me.got = wrote
          /\ \A i \in 1 .. Len(down) :
                down[i] = "ok" \/ (down[i] = "es" /\ main = "loop" /\ i = Len(down))
          /\ main = "loop" => up = <<>>

(* The output of a module is at its end when the writing thread says so.   *)
OutputEnds ==
    InRun /\ ~Gone /\ wr \in {"end", "done"} =>
        pdout = 0 /\ (child # "run" \/ shut)

(* f[i] is what the client will have got of the output when it comes to    *)
(* the i-th message on its way, of n in all; at RUNEND it has got all.     *)
Counts(f, d, n) ==
    /\ f \in [1 .. Len(d) + 1 -> Nat]
    /\ \A i \in 1 .. Len(d) :
          /\ f[i + 1] = f[i] + (IF d[i] = "pay" THEN 1 ELSE 0)
          /\ d[i] = "runend" => f[i] = n

(* Of the n lines of a module the client has got some and rest are not yet *)
(* on their way.                                                           *)
Tally(d, got, rest, n) ==
    \E f \in [1 .. Len(d) + 1 -> Nat] :
        Counts(f, d, n) /\ f[1] = got /\ f[Len(d) + 1] + rest = n

(* What is on the way to a client that awaits the end of the output.       *)
DownWay ==
    InRun /\ cli \in {"wait", "running"} =>
        \A i \in 1 .. Len(down) :
            /\ down[i] \in {"hdr", "pay", "ok", "runend"}
            /\ down[i] = "ok" => main = "join"
            /\ down[i] = "runend" =>
                  /\ wr = "done"
                  /\ \A j \in i + 1 .. Len(down) : down[j] = "ok"

(* Lines of the module of which the payload is not yet sent.               *)
Unsent == IF wr = "pay" THEN pdout + 1 ELSE pdout

(* And no line is lost on that way.                                        *)
DownTally ==
    InRun /\ cli \in {"wait", "running"} =>
        Tally(down, me.got, Unsent, wrote)

RunInv ==
    /\ Typed /\ Threads /\ UpWay /\ ClientWay /\ OutputEnds
    /\ DownWay /\ DownTally

-----------------------------------------------------------------------------
(* A message is sent.                                                      *)
LEMMA Sent ==
    ASSUME NEW S, NEW q \in Seq(S), NEW m \in S
    PROVE  /\ Append(q, m) \in Seq(S) /\ Len(Append(q, m)) = Len(q) + 1
           /\ \A i \in 1 .. Len(q) : Append(q, m)[i] = q[i]
           /\ Append(q, m)[Len(q) + 1] = m
  OBVIOUS

(* A message is received.                                                  *)
LEMMA Received ==
    ASSUME NEW S, NEW q \in Seq(S), q # <<>>
    PROVE  /\ Len(q) \in Nat \ {0} /\ Head(q) = q[1] /\ q[1] \in S
           /\ Tail(q) \in Seq(S) /\ Len(Tail(q)) = Len(q) - 1
           /\ \A i \in 1 .. Len(q) - 1 : Tail(q)[i] = q[i + 1]
           /\ Len(q) = 1 => Tail(q) = <<>>
<1>1. Len(q) \in Nat \ {0} /\ Head(q) = q[1] /\ q[1] \in S
  OBVIOUS
<1>2. Tail(q) \in Seq(S) /\ Len(Tail(q)) = Len(q) - 1
  OBVIOUS
<1>3. \A i \in 1 .. Len(q) - 1 : Tail(q)[i] = q[i + 1]
  OBVIOUS
<1>4. Len(q) = 1 => Tail(q) = <<>>
  <2> DEFINE t == Tail(q)
  <2>1. t \in Seq(S) /\ Len(t) = Len(q) - 1
    BY <1>2
  <2> HIDE DEF t
  <2>2. Len(q) = 1 => t = <<>>
    BY <2>1, EmptySeq
  <2> QED  BY <2>2 DEF t
<1> QED  BY <1>1, <1>2, <1>3, <1>4

(* The tally of an empty socket.                                           *)
LEMMA TallyNone == Tally(<<>>, 0, 0, 0)
<1> DEFINE f == [i \in 1 .. 1 |-> 0]
<1>1. /\ f \in [1 .. Len(<<>>) + 1 -> Nat] /\ Counts(f, <<>>, 0)
      /\ f[1] = 0 /\ f[Len(<<>>) + 1] + 0 = 0
  BY DEF Counts
<1> QED  BY <1>1 DEF Tally

(* The tally when the session sends a message.                             *)
LEMMA TallySent ==
    ASSUME NEW S, NEW d \in Seq(S), NEW m \in S, NEW got \in Nat,
           NEW rest \in Nat, NEW n \in Nat, Tally(d, got, rest, n),
           m = "runend" => rest = 0, m = "pay" => rest > 0
    PROVE  Tally(Append(d, m), got, IF m = "pay" THEN rest - 1 ELSE rest, n)
<1>1. PICK f \in [1 .. Len(d) + 1 -> Nat] :
         Counts(f, d, n) /\ f[1] = got /\ f[Len(d) + 1] + rest = n
  BY DEF Tally
<1> DEFINE e == Append(d, m)
           k == IF m = "pay" THEN 1 ELSE 0
           g == [i \in 1 .. Len(e) + 1 |->
                   IF i <= Len(d) + 1 THEN f[i] ELSE f[Len(d) + 1] + k]
<1>2. /\ Len(e) = Len(d) + 1 /\ Len(d) \in Nat
      /\ \A i \in 1 .. Len(d) : e[i] = d[i]
      /\ e[Len(d) + 1] = m
  BY Sent
<1> HIDE DEF e
<1>3. /\ g \in [1 .. Len(e) + 1 -> Nat]
      /\ \A i \in 1 .. Len(d) + 1 : g[i] = f[i]
      /\ g[Len(e) + 1] = f[Len(d) + 1] + k
  BY <1>2, SMTT(30)
<1> HIDE DEF g
<1>4. Counts(g, e, n)
  <2> SUFFICES ASSUME NEW i \in 1 .. Len(e)
               PROVE  /\ g[i + 1] = g[i] + (IF e[i] = "pay" THEN 1 ELSE 0)
                      /\ e[i] = "runend" => g[i] = n
    BY <1>3 DEF Counts
  <2>1. CASE i \in 1 .. Len(d)
    <3>1. i + 1 \in 1 .. Len(d) + 1 /\ i \in 1 .. Len(d) + 1
      BY <1>2, <2>1
    <3> QED  BY <1>1, <1>2, <1>3, <2>1, <3>1, Zenon DEF Counts
  <2>2. CASE i = Len(d) + 1
    <3>1. i \in 1 .. Len(d) + 1 /\ i + 1 = Len(e) + 1
      BY <1>2, <2>2
    <3> QED  BY <1>1, <1>2, <1>3, <2>2, <3>1
  <2> QED  BY <1>2, <2>1, <2>2
<1>5. g[1] = got /\ g[Len(e) + 1] + (IF m = "pay" THEN rest - 1 ELSE rest) = n
  <2>1. 1 \in 1 .. Len(d) + 1 /\ f[Len(d) + 1] \in Nat
    BY <1>1, <1>2
  <2> QED  BY <1>1, <1>3, <2>1
<1> QED  BY <1>3, <1>4, <1>5, SMTT(30) DEF Tally, e

(* The tally when the client receives one.                                 *)
LEMMA TallyReceived ==
    ASSUME NEW S, NEW d \in Seq(S), d # <<>>, NEW got \in Nat,
           NEW rest \in Nat, NEW n \in Nat, Tally(d, got, rest, n)
    PROVE  /\ Tally(Tail(d), IF Head(d) = "pay" THEN got + 1 ELSE got, rest, n)
           /\ Head(d) = "runend" => got = n
<1>1. PICK f \in [1 .. Len(d) + 1 -> Nat] :
         Counts(f, d, n) /\ f[1] = got /\ f[Len(d) + 1] + rest = n
  BY DEF Tally
<1> DEFINE e == Tail(d)
           g == [i \in 1 .. Len(e) + 1 |-> f[i + 1]]
<1>2. /\ Len(e) = Len(d) - 1 /\ Len(d) \in Nat \ {0}
      /\ \A i \in 1 .. Len(d) - 1 : e[i] = d[i + 1]
      /\ Head(d) = d[1]
  BY Received
<1> HIDE DEF e
<1>3. /\ g \in [1 .. Len(e) + 1 -> Nat]
      /\ \A i \in 1 .. Len(d) : g[i] = f[i + 1]
  BY <1>2
<1> HIDE DEF g
<1>4. Counts(g, e, n)
  <2> SUFFICES ASSUME NEW i \in 1 .. Len(e)
               PROVE  /\ g[i + 1] = g[i] + (IF e[i] = "pay" THEN 1 ELSE 0)
                      /\ e[i] = "runend" => g[i] = n
    BY <1>3 DEF Counts
  <2>1. i \in 1 .. Len(d) /\ i + 1 \in 1 .. Len(d) /\ i \in 1 .. Len(d) - 1
    BY <1>2
  <2>2. g[i] = f[i + 1] /\ g[i + 1] = f[i + 1 + 1] /\ e[i] = d[i + 1]
    BY <1>2, <1>3, <2>1
  <2> QED  BY <1>1, <2>1, <2>2 DEF Counts
<1>5. /\ f[2] = f[1] + (IF d[1] = "pay" THEN 1 ELSE 0)
      /\ d[1] = "runend" => f[1] = n
  <2>1. 1 \in 1 .. Len(d) /\ 1 + 1 = 2
    BY <1>2
  <2> QED  BY <1>1, <2>1 DEF Counts
<1>6. /\ g[1] = (IF Head(d) = "pay" THEN got + 1 ELSE got)
      /\ g[Len(e) + 1] + rest = n
      /\ Head(d) = "runend" => got = n
  BY <1>1, <1>2, <1>3, <1>5
<1> QED  BY <1>3, <1>4, <1>6, Zenon DEF Tally, e

(* The tally when the module writes a line, before RUNEND.                 *)
LEMMA TallyMore ==
    ASSUME NEW S, NEW d \in Seq(S), NEW got \in Nat, NEW rest \in Nat,
           NEW n \in Nat, Tally(d, got, rest, n),
           \A i \in 1 .. Len(d) : d[i] # "runend"
    PROVE  Tally(d, got, rest + 1, n + 1)
<1>1. PICK f \in [1 .. Len(d) + 1 -> Nat] :
         Counts(f, d, n) /\ f[1] = got /\ f[Len(d) + 1] + rest = n
  BY DEF Tally
<1>2. Counts(f, d, n + 1)
  BY <1>1 DEF Counts
<1>3. f[Len(d) + 1] \in Nat
  BY <1>1
<1> QED  BY <1>1, <1>2, <1>3, SMTT(30) DEF Tally

-----------------------------------------------------------------------------
(* The session enters xs_ace() with nothing on the way.                    *)
LEMMA RunStarts == Init => RunInv
<1> SUFFICES ASSUME Init PROVE RunInv
  OBVIOUS
<1>1. Typed
  BY EmptySeq DEF Init, Typed
<1> QED
  BY <1>1 DEF Init, RunInv, Threads, UpWay, ClientWay, OutputEnds, DownWay,
     DownTally, InRun, Gone

(* xs_ace_runnl() and xs_ace_runbuf().                                     *)
LEMMA MainSteps == ASSUME RunInv, Main PROVE RunInv'
<1> USE DEF RunInv
<1>1. CASE MainRun
  <2>1. /\ main = "loop" /\ up = <<"run">> /\ up' = Tail(up)
        /\ cli \in {"wait", "gone"} /\ down = <<>> /\ UNCHANGED clivars
    BY <1>1 DEF MainRun, Reads, UpWay, ClientWay, Typed, Threads, Gone
  <2>2. up' = <<>> /\ up' \in Seq(UpMsgs)
    BY <2>1, EmptySeq
  <2>3. CASE UNCHANGED <<srvvars, modvars>> /\ (Writes("error") \/ WriteFails)
    <3>1. down' = IF Gone THEN <<>> ELSE <<"error">>
      BY <2>1, <2>3 DEF Writes, WriteFails
    <3>2. down' \in Seq(DownMsgs)
      <4>1. <<"error">> \in Seq(DownMsgs)
        BY DEF DownMsgs
      <4> QED  BY <3>1, <4>1, EmptySeq
    <3>3. Typed'
      BY <2>1, <2>2, <2>3, <3>2
         DEF Typed, UpMsgs, DownMsgs, srvvars, modvars, clivars
    <3> QED
      BY <2>1, <2>2, <2>3, <3>1, <3>3
         DEF Threads, UpWay, ClientWay, OutputEnds, DownWay, DownTally, InRun,
             Gone, srvvars, modvars, clivars
  <2>4. CASE /\ main' = "spawn" /\ wr' = "read" /\ rd' = "off" /\ pdout' = 0
             /\ wrote' = 0 /\ UNCHANGED <<down, exitmod>>
    <3>1. Typed'
      BY <2>1, <2>2, <2>4 DEF Typed, UpMsgs, clivars
    <3>2. DownTally'
      BY <2>1, <2>4, TallyNone DEF DownTally, Unsent, ClientWay, clivars
    <3> QED
      BY <2>1, <2>2, <2>4, <3>1, <3>2
         DEF Threads, UpWay, ClientWay, OutputEnds, DownWay, InRun, Gone,
             clivars
  <2> QED  BY <1>1, <2>3, <2>4 DEF MainRun
<1>2. CASE MainSpawn
  <2>1. /\ main = "spawn" /\ main' = "ok" /\ rd' = "read"
        /\ UNCHANGED <<wr, exitmod, modvars, up, down, clivars>>
    BY <1>2 DEF MainSpawn
  <2> QED
    BY <2>1 DEF Typed, Threads, UpWay, ClientWay, OutputEnds, DownWay,
         DownTally, Unsent, InRun, Gone, modvars, clivars
<1>3. CASE MainOk
  <2>1. /\ main = "ok" /\ main' = "join"
        /\ UNCHANGED <<rd, wr, exitmod, modvars, up, clivars>>
        /\ UNCHANGED down \/ (~Gone /\ down' = Append(down, "ok"))
    BY <1>3 DEF MainOk, Writes, WriteFails
  <2>2. CASE UNCHANGED down
    BY <2>1, <2>2 DEF Typed, Threads, UpWay, ClientWay, OutputEnds, DownWay,
         DownTally, Unsent, InRun, Gone, modvars, clivars
  <2>3. CASE ~Gone /\ down' = Append(down, "ok")
    <3>1. /\ down' \in Seq(DownMsgs) /\ Len(down') = Len(down) + 1
          /\ \A i \in 1 .. Len(down) : down'[i] = down[i]
          /\ down'[Len(down) + 1] = "ok" /\ Len(down) \in Nat
      BY <2>3, Sent DEF Typed, DownMsgs
    <3>2. Typed' /\ Threads' /\ UpWay' /\ OutputEnds'
      BY <2>1, <2>3, <3>1 DEF Typed, DownMsgs, Threads, UpWay, OutputEnds,
         InRun, Gone, modvars, clivars
    <3>3. ClientWay'
      BY <2>1, <3>1 DEF ClientWay, modvars, clivars
    <3>4. DownWay'
      BY <2>1, <3>1 DEF DownWay, InRun, clivars
    <3>5. DownTally'
      <4> SUFFICES ASSUME cli \in {"wait", "running"}
                   PROVE  Tally(Append(down, "ok"), me.got, Unsent, wrote)
        BY <2>1, <2>3 DEF DownTally, Unsent, InRun, clivars, modvars
      <4>1. /\ Tally(down, me.got, Unsent, wrote) /\ down \in Seq(DownMsgs)
            /\ me.got \in Nat /\ Unsent \in Nat /\ wrote \in Nat
            /\ "ok" \in DownMsgs
        BY <2>1 DEF DownTally, InRun, Typed, DownMsgs, Unsent
      <4> HIDE DEF RunInv
      <4> QED  BY <4>1, TallySent
    <3> QED  BY <3>2, <3>3, <3>4, <3>5
  <2> QED  BY <2>1, <2>2, <2>3
<1>4. CASE MainJoin
  <2>1. /\ main = "join" /\ rd = "done" /\ wr = "done"
        /\ \/ exitmod /\ main' = "ended" /\ UNCHANGED child
           \/ main' = "es" /\ child' = "reaped"
        /\ UNCHANGED <<rd, wr, exitmod, pdin, pdout, wrote, shut, up, down,
                       clivars>>
    BY <1>4 DEF MainJoin
  <2>2. cli \in {"confirmed", "gone"}
    BY <2>1 DEF UpWay, InRun
  <2> QED
    BY <2>1, <2>2 DEF Typed, Threads, UpWay, ClientWay, OutputEnds, DownWay,
         DownTally, InRun, Gone, clivars
<1>5. CASE MainEs
  <2>1. /\ main = "es" /\ UNCHANGED <<rd, wr, exitmod, modvars, up, clivars>>
        /\ \/ Gone /\ UNCHANGED down /\ main' \in {"loop", "ended"}
           \/ ~Gone /\ down' = Append(down, "es") /\ main' = "loop"
    BY <1>5 DEF MainEs, Writes, WriteFails
  <2>2. rd = "done" /\ up = <<>> /\ cli \in {"confirmed", "gone"}
    BY <2>1 DEF UpWay, InRun, Threads
  <2>3. CASE Gone
    BY <2>1, <2>2, <2>3 DEF Typed, Threads, UpWay, ClientWay, OutputEnds,
         DownWay, DownTally, InRun, Gone, modvars, clivars
  <2>4. CASE ~Gone
    <3>1. /\ down' \in Seq(DownMsgs) /\ Len(down') = Len(down) + 1
          /\ \A i \in 1 .. Len(down) : down'[i] = down[i]
          /\ down'[Len(down) + 1] = "es" /\ Len(down) \in Nat
      <4>1. /\ down' = Append(down, "es") /\ down \in Seq(DownMsgs)
            /\ "es" \in DownMsgs
        BY <2>1, <2>4 DEF Typed, DownMsgs
      <4> HIDE DEF RunInv
      <4> QED  BY <4>1, Sent
    <3>2. Typed' /\ Threads' /\ UpWay' /\ OutputEnds' /\ DownWay' /\ DownTally'
      BY <2>1, <2>2, <2>4, <3>1 DEF Typed, DownMsgs, Threads, UpWay,
         OutputEnds, DownWay, DownTally, InRun, Gone, modvars, clivars
    <3>3. ClientWay'
      BY <2>1, <2>2, <2>4, <3>1 DEF ClientWay, Gone, modvars, clivars
    <3> QED  BY <3>2, <3>3
  <2> QED  BY <2>3, <2>4
<1>6. CASE MainEnds
  <2>1. /\ main' = "ended" /\ Gone /\ up = <<>> /\ main = "loop"
        /\ UNCHANGED <<rd, wr, exitmod, modvars, up, down, clivars>>
    BY <1>6 DEF MainEnds, ReadFails
  <2> QED
    BY <2>1 DEF Typed, Threads, UpWay, ClientWay, OutputEnds, DownWay,
         DownTally, InRun, Gone, modvars, clivars
<1> QED  BY <1>1, <1>2, <1>3, <1>4, <1>5, <1>6 DEF Main

(* runnl_rdth() and runbuf_rdth().                                         *)
LEMMA ReaderSteps == ASSUME RunInv, ThreadLife, Reader PROVE RunInv'
<1> USE DEF RunInv
<1>1. CASE ReadThread /\ up # <<>>
  <2>1. /\ rd = "read" /\ up' = Tail(up)
        /\ \/ Head(up) = "ok" /\ rd' = "done" /\ UNCHANGED child
           \/ /\ Head(up) # "ok" /\ rd' \in {"read", "write"}
              /\ child' \in {child, "zombie"}
        /\ UNCHANGED <<exitmod, main, wr, pdout, wrote, shut, down, clivars>>
    BY <1>1 DEF ReadThread, Reads, ReadFails, Kill
  <2>2. main \in {"ok", "join"}
    BY <2>1 DEF ThreadLife, Threads, Typed, Gone
  <2>3. /\ Len(up) \in Nat \ {0} /\ Head(up) = up[1]
        /\ up' \in Seq(UpMsgs) /\ Len(up') = Len(up) - 1
        /\ \A i \in 1 .. Len(up) - 1 : up'[i] = up[i + 1]
        /\ Len(up) = 1 => up' = <<>>
    <3>1. up \in Seq(UpMsgs) /\ up # <<>> /\ up' = Tail(up)
      BY <1>1, <2>1 DEF Typed, UpMsgs
    <3> HIDE DEF RunInv
    <3> QED  BY <3>1, Received
  <2>4. \A i \in 1 .. Len(up') :
           up'[i] # "run" /\ (up'[i] = "ok" => i = Len(up') /\ up[Len(up)] = "ok")
    BY <2>2, <2>3 DEF UpWay, InRun
  <2>5. CASE Head(up) = "ok" /\ rd' = "done"
    <3>1. Len(up) = 1 /\ up' = <<>>
      BY <2>2, <2>3, <2>5 DEF UpWay, InRun
    <3>2. cli \in {"confirmed", "gone"}
      BY <2>2, <2>3, <2>5, <1>1 DEF ClientWay, Typed
    <3>3. Typed'
      BY <2>1, <2>3 DEF Typed, UpMsgs, clivars
    <3>4. Threads' /\ OutputEnds'
      BY <2>1, <2>2, <2>5 DEF Threads, OutputEnds, InRun, Gone, clivars
    <3>7. UpWay'
      BY <2>1, <2>2, <2>4, <2>5, <3>1, <3>2 DEF UpWay, InRun, clivars
    <3>5. ClientWay'
      BY <2>1, <2>2, <2>5, <3>1, <3>2 DEF ClientWay, clivars
    <3>6. DownWay' /\ DownTally'
      BY <2>1, <3>2 DEF DownWay, DownTally, clivars
    <3> QED  BY <3>3, <3>4, <3>5, <3>6, <3>7
  <2>6. CASE Head(up) # "ok" /\ rd' \in {"read", "write"}
    <3>1. Typed'
      BY <2>1, <2>3 DEF Typed, UpMsgs, clivars
    <3>2. Threads' /\ OutputEnds'
      BY <2>1, <2>2, <2>6 DEF Threads, OutputEnds, InRun, Gone, clivars
    <3>3. UpWay'
      BY <2>1, <2>2, <2>4, <2>6 DEF UpWay, InRun, Gone, clivars
    <3>4. ClientWay'
      <4>1. cli # "idle" /\ cli # "wait" /\ Len(up) \in 1 .. Len(up)
        BY <1>1, <2>2, <2>3 DEF ClientWay
      <4>2. cli = "running" => \A i \in 1 .. Len(up') : up'[i] # "ok"
        BY <2>4, <4>1 DEF ClientWay
      <4>3. child # "run" \/ shut => child' # "run" \/ shut'
        BY <2>1
      <4> QED  BY <2>1, <2>2, <4>1, <4>2, <4>3 DEF ClientWay, clivars
    <3>5. DownWay' /\ DownTally'
      BY <2>1 DEF DownWay, DownTally, Unsent, InRun, clivars
    <3> QED  BY <3>1, <3>2, <3>3, <3>4, <3>5
  <2> QED  BY <2>1, <2>5, <2>6
<1>2. CASE ReadThread /\ up = <<>>
  <2>1. /\ rd' = "reap" /\ exitmod' = TRUE /\ Gone /\ child' \in {child, "zombie"}
        /\ UNCHANGED <<up, main, wr, pdout, wrote, shut, down, clivars>>
        /\ rd = "read"
    BY <1>2 DEF ReadThread, Reads, ReadFails, Kill
  <2>2. Typed' /\ Threads'
    BY <2>1 DEF Typed, Threads, ThreadLife, Gone, clivars
  <2>3. UpWay'
    BY <1>2, <2>1, SMTT(30) DEF UpWay, InRun, Gone, clivars
  <2> QED
    BY <2>1, <2>2, <2>3 DEF ClientWay, OutputEnds, DownWay, DownTally, Gone,
       clivars
<1>3. CASE WriteLine
  <2>1. /\ rd = "write" /\ rd' = "read"
        /\ UNCHANGED <<main, wr, exitmod, child, pdout, wrote, shut, up, down,
                       clivars>>
    BY <1>3, SMTT(30) DEF WriteLine
  <2> QED
    BY <2>1 DEF Typed, Threads, ThreadLife, UpWay, ClientWay, OutputEnds,
         DownWay, DownTally, Unsent, InRun, Gone, clivars
<1>4. CASE ReapThread
  <2>1. /\ rd = "reap" /\ rd' = "done" /\ child = "zombie" /\ child' = "reaped"
        /\ UNCHANGED <<main, wr, exitmod, pdout, wrote, shut, up, down, clivars>>
    BY <1>4 DEF ReapThread
  <2> QED
    BY <2>1 DEF Typed, Threads, ThreadLife, UpWay, ClientWay, OutputEnds,
         DownWay, DownTally, Unsent, InRun, Gone, clivars
<1> QED  BY <1>1, <1>2, <1>3, <1>4 DEF Reader

(* runnl_wrth() and runbuf_wrth().                                         *)
LEMMA WriterSteps == ASSUME RunInv, Writer PROVE RunInv'
<1> USE DEF RunInv
<1>0. /\ UNCHANGED <<main, rd, child, wrote, shut, up, clivars>>
      /\ wr \in {"read", "pay", "end"}
  BY DEF Writer, WriteThread, WritePayload, WriteEnd, modvars
<1>1. CASE Gone
  <2>1. UNCHANGED down /\ pdout' \in Nat /\ wr' # "off"
        /\ (exitmod' = exitmod \/ exitmod' = TRUE)
        /\ main \notin {"loop", "es"}
    BY <1>0, <1>1 DEF Writer, WriteThread, WritePayload, WriteEnd, Writes,
       WriteFails, Typed, Threads, modvars
  <2>2. Typed' /\ Threads'
    BY <1>0, <1>1, <2>1 DEF Typed, Threads, Gone, clivars
  <2>3. UpWay'
    BY <1>0 DEF UpWay, InRun, Gone, clivars
  <2> QED
    BY <1>0, <1>1, <2>2, <2>3 DEF ClientWay, OutputEnds, DownWay, DownTally,
       Gone, clivars
<1>2. CASE ~Gone
  <2>0. /\ InRun /\ main # "es" /\ cli \in {"wait", "running"}
        /\ down \in Seq(DownMsgs) /\ Len(down) \in Nat /\ me.got \in Nat
        /\ pdout \in Nat /\ wrote \in Nat
        /\ \A i \in 1 .. Len(down) : down[i] # "runend"
        /\ Tally(down, me.got, Unsent, wrote)
    <3>1. InRun /\ main # "es" /\ cli \in {"wait", "running"}
      BY <1>0, <1>2 DEF Threads, Typed, ClientWay, Gone, InRun
    <3> QED
      BY <1>0, <3>1 DEF Typed, DownMsgs, DownWay, DownTally
  <2>1. CASE wr' = "end" /\ UNCHANGED <<pdout, exitmod, down>> /\ wr = "read"
             /\ pdout = 0 /\ (child # "run" \/ shut)
    <3>1. Typed' /\ Threads' /\ UpWay' /\ OutputEnds' /\ DownTally'
      BY <1>0, <2>0, <2>1 DEF Typed, Threads, UpWay, OutputEnds, DownTally,
         Unsent, InRun, Gone, clivars
    <3>2. ClientWay' /\ DownWay'
      BY <1>0, <2>0, <2>1 DEF ClientWay, DownWay, InRun, clivars
    <3> QED  BY <3>1, <3>2
  <2>2. ASSUME NEW m \in {"hdr", "pay", "runend"}, down' = Append(down, m),
               UNCHANGED exitmod, pdout' \in Nat,
               m = "hdr" => wr' = "pay" /\ wr = "read" /\ pdout' = pdout - 1,
               m = "pay" => wr' = "read" /\ wr = "pay" /\ pdout' = pdout,
               m = "runend" => wr' = "done" /\ wr = "end" /\ pdout' = pdout
        PROVE  RunInv'
    <3>1. /\ down' \in Seq(DownMsgs) /\ Len(down') = Len(down) + 1
          /\ \A i \in 1 .. Len(down) : down'[i] = down[i]
          /\ down'[Len(down) + 1] = m
      <4>1. m \in DownMsgs
        BY <2>2 DEF DownMsgs
      <4> HIDE DEF RunInv
      <4> QED  BY <2>0, <2>2, <4>1, Sent
    <3>2. Typed'
      BY <1>0, <2>2, <3>1 DEF Typed, DownMsgs, clivars
    <3>3. Threads' /\ UpWay'
      BY <1>0, <1>2, <2>0, <2>2 DEF Threads, UpWay, InRun, Gone, clivars
    <3>4. OutputEnds'
      BY <1>0, <2>0, <2>2 DEF OutputEnds, InRun, Gone, clivars
    <3>5. ClientWay'
      BY <1>0, <2>0 DEF ClientWay, InRun, clivars
    <3>6. DownWay'
      <4> SUFFICES ASSUME NEW i \in 1 .. Len(down')
                   PROVE  /\ down'[i] \in {"hdr", "pay", "ok", "runend"}
                          /\ down'[i] = "ok" => main' = "join"
                          /\ down'[i] = "runend" =>
                               /\ wr' = "done"
                               /\ \A j \in i + 1 .. Len(down') : down'[j] = "ok"
        BY DEF DownWay
      <4>1. CASE i \in 1 .. Len(down)
        BY <1>0, <2>0, <3>1, <4>1 DEF DownWay
      <4>2. CASE i = Len(down) + 1
        BY <2>0, <2>2, <3>1, <4>2
      <4> QED  BY <2>0, <3>1, <4>1, <4>2
    <3>7. DownTally'
      <4>1. /\ Unsent \in Nat /\ m \in DownMsgs
            /\ m = "runend" => Unsent = 0
            /\ m = "pay" => Unsent > 0
            /\ Unsent' = (IF m = "pay" THEN Unsent - 1 ELSE Unsent)
        <5>1. m = "runend" => pdout = 0
          BY <1>2, <2>0, <2>2 DEF OutputEnds
        <5>2. m \in DownMsgs
          BY <2>2 DEF DownMsgs
        <5>3. CASE m = "hdr"
          BY <2>0, <2>2, <5>2, <5>3 DEF Unsent
        <5>4. CASE m = "pay"
          BY <2>0, <2>2, <5>2, <5>4 DEF Unsent
        <5>5. CASE m = "runend"
          BY <2>0, <2>2, <5>1, <5>2, <5>5 DEF Unsent
        <5> QED  BY <2>2, <5>3, <5>4, <5>5
      <4> DEFINE rest == Unsent
      <4> HIDE DEF RunInv, rest
      <4>2. Tally(Append(down, m), me.got,
                  IF m = "pay" THEN rest - 1 ELSE rest, wrote)
        BY <2>0, <4>1, TallySent DEF rest
      <4> QED  BY <1>0, <2>2, <4>1, <4>2 DEF DownTally, clivars, rest
    <3> QED  BY <3>2, <3>3, <3>4, <3>5, <3>6, <3>7
  <2>3. CASE WriteThread
    BY <1>2, <2>0, <2>1, <2>2, <2>3 DEF WriteThread, Writes, WriteFails
  <2>4. CASE WritePayload
    BY <1>2, <2>0, <2>2, <2>4 DEF WritePayload, Writes, WriteFails, modvars
  <2>5. CASE WriteEnd
    BY <1>2, <2>0, <2>2, <2>5 DEF WriteEnd, Writes, WriteFails, modvars
  <2> QED  BY <2>3, <2>4, <2>5 DEF Writer
<1> QED  BY <1>1, <1>2

(* The module.                                                             *)
LEMMA ModuleSteps == ASSUME RunInv, Module PROVE RunInv'
<1> USE DEF RunInv
<1>1. /\ child = "run" /\ UNCHANGED <<srvvars, up, down, clivars>>
      /\ \/ /\ UNCHANGED <<pdout, wrote>>
            /\ child # "run" \/ shut => child' # "run" \/ shut'
         \/ /\ ~shut /\ pdout' = pdout + 1 /\ wrote' = wrote + 1
            /\ UNCHANGED <<child, shut>>
  BY DEF Module
<1>2. Threads' /\ UpWay'
  BY <1>1 DEF Threads, UpWay, InRun, Gone, srvvars, clivars
<1>3. CASE /\ UNCHANGED <<pdout, wrote>>
           /\ child # "run" \/ shut => child' # "run" \/ shut'
  <2>1. Typed' /\ OutputEnds' /\ DownTally'
    BY <1>1, <1>3 DEF Typed, OutputEnds, DownTally, Unsent, InRun, Gone,
       srvvars, clivars
  <2>2. ClientWay' /\ DownWay'
    BY <1>1, <1>3 DEF ClientWay, DownWay, InRun, srvvars, clivars
  <2> QED  BY <1>2, <2>1, <2>2
<1>4. CASE /\ ~shut /\ pdout' = pdout + 1 /\ wrote' = wrote + 1
           /\ UNCHANGED <<child, shut>>
  <2>1. Typed' /\ OutputEnds'
    BY <1>1, <1>4 DEF Typed, OutputEnds, InRun, Gone, srvvars, clivars
  <2>2. ClientWay' /\ DownWay'
    BY <1>1, <1>4 DEF ClientWay, DownWay, InRun, srvvars, clivars
  <2>3. DownTally'
    <3> SUFFICES ASSUME InRun, cli \in {"wait", "running"}
                 PROVE  Tally(down, me.got, Unsent + 1, wrote + 1)
      BY <1>1, <1>4 DEF DownTally, Unsent, InRun, Typed, srvvars, clivars
    <3>1. /\ Tally(down, me.got, Unsent, wrote) /\ down \in Seq(DownMsgs)
          /\ me.got \in Nat /\ Unsent \in Nat /\ wrote \in Nat
      BY DEF DownTally, Typed, DownMsgs, Unsent
    <3>2. \A i \in 1 .. Len(down) : down[i] # "runend"
      BY <1>1, <1>4 DEF DownWay, OutputEnds, Gone
    <3> HIDE DEF RunInv
    <3> QED  BY <3>1, <3>2, TallyMore
  <2> QED  BY <1>2, <2>1, <2>2, <2>3
<1> QED  BY <1>1, <1>3, <1>4

(* The client sends a command, a line or a signal, or goes.                *)
LEMMA ClientSteps ==
    ASSUME RunInv, ClientRun \/ ClientSends \/ Vanish \/ GiveUp
    PROVE  RunInv'
<1> USE DEF RunInv
<1>1. CASE ClientRun
  <2>1. /\ cli = "idle" /\ cli' = "wait" /\ up' = Append(up, "run")
        /\ me' = [runs |-> me.runs + 1, lines |-> 0, got |-> 0, kill |-> FALSE]
        /\ UNCHANGED <<srvvars, modvars, down>>
    BY <1>1 DEF ClientRun, Sends
  <2>2. main = "loop" /\ up' = <<"run">> /\ down = <<>>
    BY <2>1 DEF ClientWay
  <2>3. up' \in Seq(UpMsgs)
    BY <2>2 DEF UpMsgs
  <2>4. me' \in [runs : Nat, lines : Nat, got : Nat, kill : BOOLEAN]
        /\ me'.got = 0
    BY <2>1 DEF Typed
  <2>5. Typed'
    BY <2>1, <2>3, <2>4 DEF Typed, srvvars, modvars
  <2> QED
    BY <2>1, <2>2, <2>4, <2>5 DEF Threads, UpWay, ClientWay, OutputEnds,
       DownWay, DownTally, InRun, Gone, srvvars, modvars
<1>2. CASE ClientSends
  <2>1. PICK m \in {"line", "term", "kill"} : up' = Append(up, m)
    BY <1>2 DEF ClientSends, Sends
  <2>2. /\ cli = "running" /\ UNCHANGED <<srvvars, modvars, down, cli>>
        /\ me' \in [runs : Nat, lines : Nat, got : Nat, kill : BOOLEAN]
        /\ me'.got = me.got
    <3>1. me \in [runs : Nat, lines : Nat, got : Nat, kill : BOOLEAN]
      BY DEF Typed
    <3>2. \/ me' = [me EXCEPT !.lines = @ + 1]
          \/ me' = [me EXCEPT !.kill = TRUE]
      BY <1>2 DEF ClientSends
    <3>3. cli = "running" /\ UNCHANGED <<srvvars, modvars, down, cli>>
      BY <1>2 DEF ClientSends
    <3> HIDE DEF RunInv
    <3>4. CASE me' = [me EXCEPT !.lines = @ + 1]
      BY <3>1, <3>3, <3>4
    <3>5. CASE me' = [me EXCEPT !.kill = TRUE]
      BY <3>1, <3>3, <3>5, Zenon
    <3> QED  BY <3>2, <3>3, <3>4, <3>5
  <2>3. /\ up' \in Seq(UpMsgs) /\ Len(up') = Len(up) + 1
        /\ \A i \in 1 .. Len(up) : up'[i] = up[i]
        /\ up'[Len(up) + 1] = m /\ Len(up) \in Nat
    <3>1. up \in Seq(UpMsgs) /\ m \in UpMsgs
      BY DEF Typed, UpMsgs
    <3> HIDE DEF RunInv
    <3> QED  BY <2>1, <3>1, Sent
  <2>4. main = "join" /\ rd # "done" /\ rd # "reap"
    BY <2>2 DEF ClientWay, UpWay, InRun, Gone
  <2>5. \A i \in 1 .. Len(up') : up'[i] # "run" /\ up'[i] # "ok"
    BY <2>2, <2>3, <2>4 DEF UpWay, ClientWay, InRun
  <2>6. Typed' /\ Threads'
    BY <2>2, <2>3 DEF Typed, UpMsgs, Threads, Gone, srvvars, modvars
  <2>7. UpWay' /\ ClientWay'
    BY <2>2, <2>4, <2>5 DEF UpWay, ClientWay, InRun, Gone, srvvars
  <2>8. OutputEnds' /\ DownWay' /\ DownTally'
    BY <2>2 DEF OutputEnds, DownWay, DownTally, Unsent, InRun, Gone, srvvars,
       modvars
  <2> QED  BY <2>6, <2>7, <2>8
<1>3. CASE Vanish \/ GiveUp
  <2>1. /\ cli' = "gone" /\ down' = <<>> /\ up' \in {up, <<>>}
        /\ UNCHANGED <<srvvars, modvars, me>>
    BY <1>3 DEF Vanish, GiveUp, ClientLeaves
  <2>2. up' \in Seq(UpMsgs) /\ down' \in Seq(DownMsgs)
    BY <2>1, EmptySeq, Zenon DEF Typed
  <2>3. Typed' /\ Threads'
    BY <2>1, <2>2 DEF Typed, Threads, Gone, srvvars, modvars
  <2>4. UpWay'
    <3>1. CASE up' = up
      BY <2>1, <3>1 DEF UpWay, InRun, Gone, srvvars
    <3>2. CASE up' = <<>>
      BY <2>1, <3>2 DEF UpWay, InRun, Gone, srvvars
    <3> QED  BY <2>1, <3>1, <3>2
  <2> QED
    BY <2>1, <2>3, <2>4 DEF ClientWay, OutputEnds, DownWay, DownTally, Gone
<1> QED  BY <1>1, <1>2, <1>3, SMTT(30)

(* The client reads what it is sent.                                       *)
LEMMA HearingSteps == ASSUME RunInv, ClientHears PROVE RunInv'
<1> USE DEF RunInv
<1>0. /\ cli # "gone" /\ down # <<>> /\ down' = Tail(down)
      /\ UNCHANGED <<srvvars, modvars>>
  BY DEF ClientHears, Hears
<1>1. /\ down \in Seq(DownMsgs)
      /\ Len(down) \in Nat \ {0} /\ Head(down) = down[1]
      /\ down' \in Seq(DownMsgs) /\ Len(down') = Len(down) - 1
      /\ \A i \in 1 .. Len(down) - 1 : down'[i] = down[i + 1]
      /\ Len(down) = 1 => down' = <<>>
  <2>1. down \in Seq(DownMsgs)
    BY DEF Typed, DownMsgs
  <2> HIDE DEF RunInv
  <2> QED  BY <1>0, <2>1, Received
<1>2. Threads'
  BY <1>0, SMTT(30) DEF Threads, ClientHears, Gone, srvvars
<1>3. CASE Head(down) \in {"es", "error"}
  <2>1. cli' = "idle" /\ UNCHANGED <<up, me>>
    BY <1>3 DEF ClientHears, Hears
  <2>2. main = "loop" /\ up = <<>> /\ Len(down) = 1
    <3>1. 1 \in 1 .. Len(down)
      BY <1>1
    <3>2. CASE cli = "confirmed"
      BY <1>1, <1>3, <3>1, <3>2 DEF ClientWay
    <3>3. CASE cli \in {"wait", "running"} /\ InRun
      BY <1>1, <1>3, <3>1, <3>3, SMTT(30) DEF DownWay
    <3>4. CASE cli \in {"idle", "wait", "running"} /\ ~InRun
      BY <1>0, <1>1, <1>3, <3>4, Zenon DEF ClientWay, InRun, Threads, Typed, Gone
    <3>5. cli # "idle"
      BY <1>0 DEF ClientWay
    <3> QED  BY <1>0, <3>2, <3>3, <3>4, <3>5 DEF Typed
  <2>3. Typed'
    BY <1>0, <1>1, <2>1 DEF Typed, DownMsgs, srvvars, modvars
  <2> QED
    BY <1>0, <1>1, <1>2, <2>1, <2>2, <2>3 DEF UpWay, ClientWay, OutputEnds,
       DownWay, DownTally, InRun, srvvars, modvars
<1>4. CASE cli = "confirmed" /\ Head(down) \notin {"es", "error"}
  <2>1. Head(down) = "ok"
    <3>1. 1 \in 1 .. Len(down)
      BY <1>1
    <3> QED  BY <1>1, <1>4, <3>1 DEF ClientWay
  <2>2. UNCHANGED <<up, cli, me>>
    BY <1>4, <2>1 DEF ClientHears, Hears
  <2>3. Typed' /\ UpWay' /\ OutputEnds'
    BY <1>0, <1>1, <2>2 DEF Typed, DownMsgs, UpWay, OutputEnds, InRun, Gone,
       srvvars, modvars
  <2>4. \A i \in 1 .. Len(down') :
           down'[i] = "ok" \/ (down'[i] = "es" /\ main = "loop" /\ i = Len(down'))
    BY <1>1, <1>4, SMTT(30) DEF ClientWay
  <2>5. ClientWay' /\ DownWay' /\ DownTally'
    BY <1>0, <1>4, <2>2, <2>4 DEF ClientWay, DownWay, DownTally, srvvars,
       modvars
  <2> QED  BY <1>2, <2>3, <2>5
<1>5. CASE cli # "confirmed" /\ Head(down) \notin {"es", "error"}
  <2>1. /\ cli \in {"wait", "running"} /\ InRun
        /\ Head(down) \in {"hdr", "pay", "ok", "runend"}
    <3>1. cli \in {"wait", "running"}
      BY <1>0, <1>5 DEF ClientWay, Typed
    <3>2. InRun
      BY <1>0, <1>5, <3>1 DEF ClientWay, InRun, Typed, Threads, Gone
    <3> QED
      BY <1>1, <3>1, <3>2 DEF DownWay
  <2>2. /\ \A i \in 1 .. Len(down') :
             /\ down'[i] \in {"hdr", "pay", "ok", "runend"}
             /\ down'[i] = "ok" => main = "join"
             /\ down'[i] = "runend" =>
                   /\ wr = "done"
                   /\ \A j \in i + 1 .. Len(down') : down'[j] = "ok"
    BY <1>1, <2>1 DEF DownWay
  <2>3. /\ Tally(down', IF Head(down) = "pay" THEN me.got + 1 ELSE me.got,
                 Unsent, wrote)
        /\ Head(down) = "runend" => me.got = wrote
    <3>1. /\ Tally(down, me.got, Unsent, wrote) /\ me.got \in Nat
          /\ Unsent \in Nat /\ wrote \in Nat
      BY <2>1 DEF DownTally, Typed, Unsent
    <3> DEFINE rest == Unsent
    <3> HIDE DEF RunInv, rest
    <3> QED  BY <1>0, <1>1, <3>1, TallyReceived, SMTT(30) DEF rest
  <2>4. CASE Head(down) \in {"hdr", "pay"}
    <3>1. /\ UNCHANGED <<up, cli>>
          /\ me' \in [runs : Nat, lines : Nat, got : Nat, kill : BOOLEAN]
          /\ me'.got = IF Head(down) = "pay" THEN me.got + 1 ELSE me.got
      <4>1. me \in [runs : Nat, lines : Nat, got : Nat, kill : BOOLEAN]
        BY DEF Typed
      <4> HIDE DEF RunInv
      <4>2. /\ UNCHANGED <<up, cli>>
            /\ Head(down) = "hdr" => me' = me
            /\ Head(down) = "pay" => me' = [me EXCEPT !.got = @ + 1]
        BY <2>4, ZenonT(60) DEF ClientHears, Hears
      <4>3. CASE Head(down) = "hdr"
        BY <4>1, <4>2, <4>3
      <4>4. CASE Head(down) = "pay"
        BY <4>1, <4>2, <4>4
      <4> QED  BY <2>4, <4>3, <4>4
    <3>2. Typed' /\ UpWay' /\ OutputEnds'
      BY <1>0, <1>1, <3>1 DEF Typed, DownMsgs, UpWay, OutputEnds, InRun, Gone,
         srvvars, modvars
    <3>3. ClientWay'
      BY <1>0, <2>1, <3>1 DEF ClientWay, InRun, srvvars
    <3>4. DownWay' /\ DownTally'
      BY <1>0, <2>2, <2>3, <3>1 DEF DownWay, DownTally, Unsent, srvvars, modvars
    <3> QED  BY <1>2, <3>2, <3>3, <3>4
  <2>5. CASE Head(down) = "ok"
    <3>1. UNCHANGED <<up, me>> /\ cli' = "running"
      BY <2>1, <2>5 DEF ClientHears, Hears
    <3>2. main = "join"
      BY <1>1, <2>1, <2>5 DEF DownWay
    <3>3. \A i \in 1 .. Len(up) : up[i] # "ok"
      BY <2>1, <3>2, EmptySeq DEF ClientWay
    <3>4. rd # "done" /\ rd # "reap"
      BY <2>1, <3>2 DEF UpWay, InRun, Gone
    <3>5. Typed' /\ UpWay' /\ OutputEnds'
      BY <1>0, <1>1, <2>1, <3>1, <3>4 DEF Typed, DownMsgs, UpWay, OutputEnds,
         InRun, Gone, srvvars, modvars
    <3>6. ClientWay'
      BY <1>0, <3>1, <3>2, <3>3 DEF ClientWay, srvvars
    <3>7. DownWay' /\ DownTally'
      BY <1>0, <2>2, <2>3, <2>5, <3>1
         DEF DownWay, DownTally, Unsent, srvvars, modvars
    <3> QED  BY <1>2, <3>5, <3>6, <3>7
  <2>6. CASE Head(down) = "runend"
    <3>1. UNCHANGED me /\ cli' = "confirmed" /\ up' = Append(up, "ok")
      BY <2>6 DEF ClientHears, Hears, Sends
    <3>2. /\ wr = "done" /\ (child # "run" \/ shut) /\ me.got = wrote
          /\ \A i \in 1 .. Len(down') : down'[i] = "ok"
      <4>1. wr = "done" /\ \A j \in 2 .. Len(down) : down[j] = "ok"
        BY <1>1, <2>1, <2>6 DEF DownWay
      <4>2. child # "run" \/ shut
        BY <1>0, <2>1, <4>1 DEF OutputEnds, Gone
      <4> QED  BY <1>1, <2>3, <2>6, <4>1, <4>2
    <3>3. /\ up' \in Seq(UpMsgs) /\ Len(up') = Len(up) + 1
          /\ \A i \in 1 .. Len(up) : up'[i] = up[i]
          /\ up'[Len(up) + 1] = "ok" /\ Len(up) \in Nat
      <4>1. up \in Seq(UpMsgs) /\ "ok" \in UpMsgs
        BY DEF Typed, UpMsgs
      <4> HIDE DEF RunInv
      <4> QED  BY <3>1, <4>1, Sent
    <3>4. \A i \in 1 .. Len(up) : up[i] # "ok"
      BY <2>1, EmptySeq DEF ClientWay, InRun
    <3>5. main # "loop" /\ rd # "done" /\ rd # "reap"
      BY <2>1 DEF UpWay, InRun, Gone
    <3>6. Typed' /\ OutputEnds'
      BY <1>0, <1>1, <3>1, <3>2, <3>3 DEF Typed, UpMsgs, DownMsgs, OutputEnds,
         InRun, Gone, srvvars, modvars
    <3>7. UpWay'
      BY <1>0, <2>1, <3>3, <3>4, <3>5, SMTT(30) DEF UpWay, InRun, srvvars
    <3>8. ClientWay' /\ DownWay' /\ DownTally'
      BY <1>0, <3>1, <3>2, <3>5 DEF ClientWay, DownWay, DownTally, srvvars,
         modvars
    <3> QED  BY <1>2, <3>6, <3>7, <3>8
  <2> QED  BY <2>1, <2>4, <2>5, <2>6
<1> QED  BY <1>3, <1>4, <1>5

(* Every step keeps the two ends in step.                                  *)
LEMMA RunStep == PidInv /\ RunInv /\ [Next]_vars => RunInv'
<1> SUFFICES ASSUME PidInv, RunInv, [Next]_vars PROVE RunInv'
  BY Zenon
<1>1. CASE UNCHANGED vars
  BY <1>1 DEF vars, srvvars, modvars, clivars, RunInv, Typed, Threads, UpWay,
     ClientWay, OutputEnds, DownWay, DownTally, Unsent, InRun, Gone
<1> QED
  BY <1>1, MainSteps, ReaderSteps, WriterSteps, ModuleSteps, ClientSteps,
     HearingSteps DEF Next, PidInv

(* The loop of xs_ace() reads commands only, and a client with an exit     *)
(* status has read all of the run, for any number of lines and runs and    *)
(* any capacity of the socket.                                             *)
THEOREM RunsInStep == Spec => []RunInStep
<1>1. RunInv => RunInStep
  BY DEF RunInv, UpWay, ClientWay, RunInStep
<1> QED  BY <1>1, PidInit, PidStep, RunStarts, RunStep, PTL DEF Spec

(* A client that confirms the end of a module has all of its output.       *)
THEOREM OutputWhole == Spec => []OutputIsWhole
<1>1. RunInv => OutputIsWhole
  BY DEF RunInv, ClientWay, OutputIsWhole
<1> QED  BY <1>1, PidInit, PidStep, RunStarts, RunStep, PTL DEF Spec
=============================================================================
