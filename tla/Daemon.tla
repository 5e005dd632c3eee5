------------------------------- MODULE Daemon -------------------------------
(***************************************************************************)
(* The processes of the daemon in release mode: main() and rlwait(), which *)
(* start the server again on SIGUSR1 (src/src/main.c, src/src/sig.c); the  *)
(* acceptors, each but the last the parent of the next, with the processes *)
(* of a connection between accept() and the end of the session             *)
(* (src/src/net.c); and the workers of UDP (src/src/udp_keep.c).           *)
(* A signal is sent to all processes at once, and each takes it before it  *)
(* does anything else, at a time of its own; a signal that is blocked is   *)
(* not recorded.  A child inherits nothing that is pending.  The listening *)
(* socket is open while one process has it, and only one socket can listen *)
(* on the port.                                                            *)
(***************************************************************************)
EXTENDS Naturals, FiniteSets

CONSTANTS
    N,           \* acceptors, _SC_NPROCESSORS_ONLN
    Workers,     \* UDP workers of a server
    Conns,       \* connections, numbers
    MaxSignals   \* signals the operator sends

ASSUME DaemonAssumption ==
    /\ N \in Nat \ {0} /\ MaxSignals \in Nat
    /\ Conns \subseteq Nat /\ Workers \subseteq Nat

Gens == 1 .. MaxSignals + 1
Slots == 0 .. N - 1

VARIABLES
    rl,      \* main() and rlwait(): "fork", "wait", "reap", "dead"
    gen,     \* how often main() was started
    acc,     \* the acceptors of each server; 0 is the one main() forks
    wrk,     \* the living workers of each server
    conn,    \* the connections: "out", "queued", "accepted", "given" to a
             \* process, "served", "over", "dropped", or the signal that
             \* ended the session, "usr", "int"
    by,      \* the server and the acceptor a connection is with
    mid,     \* the process between acceptor and session
    ses,     \* the session process
    wend,    \* sessions that hold the write end of the pipe to themselves
    blocked, \* connections whose mid and session block SIGUSR1
    usr, int,    \* processes with a pending SIGUSR1, with a pending SIGINT
    nusr, nint,  \* how often they were sent by the operator
    failed   \* bind() failed after a reload

svcvars == <<rl, gen>>
convars == <<conn, by, mid, ses, wend, blocked>>
sigvars == <<usr, int, nusr, nint>>
vars == <<svcvars, acc, wrk, convars, sigvars, failed>>

Init ==
    /\ rl = "fork" /\ gen = 1
    /\ acc = [g \in Gens |-> [i \in Slots |-> "none"]]
    /\ wrk = [g \in Gens |-> {}]
    /\ conn = [c \in Conns |-> "out"] /\ by = [c \in Conns |-> <<1, 0>>]
    /\ mid = [c \in Conns |-> "none"] /\ ses = [c \in Conns |-> "none"]
    /\ wend = {} /\ blocked = {}
    /\ usr = {} /\ int = {} /\ nusr = 0 /\ nint = 0 /\ failed = FALSE

-----------------------------------------------------------------------------
R == <<"R", 0, 0>>
A(g, i) == <<"A", g, i>>
W(g, w) == <<"W", g, w>>
M(c) == <<"M", c, 0>>
S(c) == <<"S", c, 0>>

Gone == {"none", "dead"}
LiveAcceptors(g) == {i \in Slots : acc[g][i] \notin Gone}

Alive ==
    (IF rl = "dead" THEN {} ELSE {R})
    \cup {A(x[1], x[2]) : x \in {y \in Gens \X Slots :
                                     acc[y[1]][y[2]] \notin Gone}}
    \cup UNION {{W(g, w) : w \in wrk[g]} : g \in Gens}
    \cup {M(c) : c \in {d \in Conns : mid[d] \notin Gone}}
    \cup {S(c) : c \in {d \in Conns : ses[d] \notin Gone}}

(* The listening socket of server g is open in some process: every child   *)
(* has it, and only the session closes it.                                 *)
Listening(g) ==
    \/ \E i \in Slots : acc[g][i] \notin Gone \cup {"bind"}
    \/ wrk[g] # {}
    \/ \E c \in Conns : by[c][1] = g /\ (mid[c] \notin Gone \/ ses[c] \in {"fresh", "nopipe"})

(* No signal is pending that ends the process.                             *)
Runs(p) == p \notin int /\ (p # R => p \notin usr)

Set(g, i, s) == acc' = [acc EXCEPT ![g][i] = s]

-----------------------------------------------------------------------------
(* main(): the configuration is read and the first acceptor is forked.     *)
(* rlwait() is also entered if fork() fails.                               *)
ForkServer ==
    /\ Runs(R)
    /\ rl = "fork" /\ rl' = "wait"
    /\ Set(gen, 0, "bind") \/ UNCHANGED acc
    /\ UNCHANGED <<gen, wrk, convars, sigvars, failed>>

(* rlwait(): SIGUSR1, then the end of the first acceptor, then execv().    *)
Reload ==
    /\ Runs(R)
    /\ \/ rl = "wait" /\ R \in usr /\ rl' = "reap" /\ usr' = usr \ {R}
          /\ UNCHANGED gen
       \/ rl = "reap" /\ acc[gen][0] \in Gone /\ gen \in 1 .. MaxSignals
          /\ rl' = "fork" /\ gen' = gen + 1 /\ UNCHANGED usr
    /\ UNCHANGED <<acc, wrk, convars, int, nusr, nint, failed>>

-----------------------------------------------------------------------------
(* Mutant of Bind: a failed bind() ends this process only.                 *)
BugBind(g) ==
    /\ Runs(A(g, 0))
    /\ acc[g][0] = "bind"
    /\ IF \E h \in Gens : Listening(h)
       THEN Set(g, 0, "dead") /\ failed' = TRUE
       ELSE Set(g, 0, "udp") /\ UNCHANGED failed
    /\ UNCHANGED <<svcvars, wrk, convars, sigvars>>

(* startnet(): bind() fails while another socket listens.  rlwait_pid is 0 *)
(* in this process: kill() sends SIGINT to the whole group.                *)
Bind(g) ==
    /\ Runs(A(g, 0))
    /\ acc[g][0] = "bind"
    /\ IF \E h \in Gens : Listening(h)
       THEN /\ Set(g, 0, "dead") /\ failed' = TRUE
            /\ int' = int \cup (Alive \ {A(g, 0)})
       ELSE Set(g, 0, "udp") /\ UNCHANGED <<failed, int>>
    /\ UNCHANGED <<svcvars, wrk, convars, usr, nusr, nint>>

(* udpkeep_start(): any fork() may fail.                                   *)
StartUdp(g) ==
    /\ Runs(A(g, 0))
    /\ acc[g][0] = "udp" /\ Set(g, 0, "chain")
    /\ \E ws \in SUBSET Workers : wrk' = [wrk EXCEPT ![g] = ws]
    /\ UNCHANGED <<svcvars, convars, sigvars, failed>>

(* The chain of acceptors: the parent accepts, the child forks the next.   *)
(* A fork() that fails ends the chain.                                     *)
Chain(g, i) ==
    /\ Runs(A(g, i))
    /\ acc[g][i] = "chain"
    /\ \/ /\ i + 1 \in Slots
          /\ acc' = [acc EXCEPT ![g][i] = "accept", ![g][i + 1] = "chain"]
       \/ Set(g, i, "accept")
    /\ UNCHANGED <<svcvars, wrk, convars, sigvars, failed>>

Accept(g, i, c) ==
    /\ Runs(A(g, i))
    /\ acc[g][i] = "accept" /\ conn[c] = "queued" /\ by[c][1] = g
    /\ Set(g, i, "fork")
    /\ conn' = [conn EXCEPT ![c] = "accepted"]
    /\ by' = [by EXCEPT ![c] = <<g, i>>]
    /\ UNCHANGED <<svcvars, wrk, mid, ses, wend, blocked, sigvars, failed>>

(* fork(); when it fails the connection is closed and waitpid(-1) waits    *)
(* for any child.                                                          *)
Fork(c) ==
    LET g == by[c][1]  i == by[c][2] IN
    /\ Runs(A(g, i))
    /\ conn[c] = "accepted" /\ acc[g][i] = "fork"
    /\ \/ /\ mid' = [mid EXCEPT ![c] = "fresh"]
          /\ conn' = [conn EXCEPT ![c] = "given"]
          /\ Set(g, i, "reap")
       \/ /\ conn' = [conn EXCEPT ![c] = "dropped"] /\ UNCHANGED mid
          /\ Set(g, i, "stuck")
    /\ UNCHANGED <<svcvars, wrk, by, ses, wend, blocked, sigvars, failed>>

(* waitpid() of the process that was forked for the connection.            *)
Reaped(c) ==
    LET g == by[c][1]  i == by[c][2] IN
    /\ Runs(A(g, i))
    /\ acc[g][i] = "reap" /\ conn[c] # "accepted" /\ mid[c] = "dead"
    /\ mid' = [mid EXCEPT ![c] = "none"]
    /\ Set(g, i, "accept")
    /\ UNCHANGED <<svcvars, wrk, conn, by, ses, wend, blocked, sigvars,
                   failed>>

(* waitpid(-1) returns if there is no child: the next acceptor is one, and *)
(* the workers are of the first.                                           *)
Childless(g, i) ==
    /\ i + 1 \in Slots => acc[g][i + 1] \in Gone
    /\ i = 0 => wrk[g] = {}

(* Mutant of Unstick: a waitpid() that finds no child is repeated.         *)
BugUnstick(g, i) ==
    /\ Runs(A(g, i))
    /\ acc[g][i] = "stuck" /\ ~Childless(g, i)
    /\ \E j \in Slots : acc[g][j] = "dead"
    /\ Set(g, i, "accept")
    /\ UNCHANGED <<svcvars, wrk, convars, sigvars, failed>>

Unstick(g, i) ==
    /\ Runs(A(g, i))
    /\ acc[g][i] = "stuck" /\ Childless(g, i)
    /\ Set(g, i, "accept")
    /\ UNCHANGED <<svcvars, wrk, convars, sigvars, failed>>

-----------------------------------------------------------------------------
(* Mutant of Mask: SIGUSR1 is not added to the mask.                       *)
BugMask(c) ==
    /\ Runs(M(c))
    /\ mid[c] = "fresh" /\ mid' = [mid EXCEPT ![c] = "masked"]
    /\ UNCHANGED <<svcvars, acc, wrk, conn, by, ses, wend, blocked, sigvars,
                   failed>>

(* The process of a connection: it blocks SIGUSR1, ...                     *)
Mask(c) ==
    /\ Runs(M(c))
    /\ mid[c] = "fresh" /\ mid' = [mid EXCEPT ![c] = "masked"]
    /\ blocked' = blocked \cup {c}
    /\ UNCHANGED <<svcvars, acc, wrk, conn, by, ses, wend, sigvars, failed>>

(* ... forks the session, which has both ends of a pipe to it or, if       *)
(* pipe() failed, has none; ...                                            *)
ForkSession(c) ==
    /\ Runs(M(c))
    /\ mid[c] = "masked" /\ mid' = [mid EXCEPT ![c] = "forked"]
    /\ \/ /\ ses' = [ses EXCEPT ![c] = "fresh"]
          /\ wend' = wend \cup {c} /\ UNCHANGED conn
       \/ ses' = [ses EXCEPT ![c] = "nopipe"] /\ UNCHANGED <<wend, conn>>
       \/ conn' = [conn EXCEPT ![c] = "dropped"] /\ UNCHANGED <<wend, ses>>
    /\ UNCHANGED <<svcvars, acc, wrk, by, blocked, sigvars, failed>>

(* ... and exits.                                                          *)
MidExit(c) ==
    /\ Runs(M(c))
    /\ mid[c] = "forked" /\ mid' = [mid EXCEPT ![c] = "dead"]
    /\ UNCHANGED <<svcvars, acc, wrk, conn, by, ses, wend, blocked, sigvars,
                   failed>>

(* Mutant of Serve: the session keeps its write end of the pipe.           *)
BugServe(c) ==
    /\ Runs(S(c)) /\ ses[c] \in {"fresh", "nopipe"}
    /\ \/ /\ ses' = [ses EXCEPT ![c] = IF @ = "fresh" THEN "run" ELSE "runnopipe"]
          /\ conn' = [conn EXCEPT ![c] = "served"]
       \/ /\ ses' = [ses EXCEPT ![c] = "dead"]
          /\ conn' = [conn EXCEPT ![c] = "dropped"]
    /\ UNCHANGED <<svcvars, acc, wrk, by, mid, wend, blocked, sigvars,
                   failed>>

(* The session closes the write end and the listening socket and serves    *)
(* its client; it exits at once if setkeepalive() fails.                   *)
Serve(c) ==
    /\ Runs(S(c)) /\ ses[c] \in {"fresh", "nopipe"}
    /\ wend' = wend \ {c}
    /\ \/ /\ ses' = [ses EXCEPT ![c] = IF @ = "fresh" THEN "run" ELSE "runnopipe"]
          /\ conn' = [conn EXCEPT ![c] = "served"]
       \/ /\ ses' = [ses EXCEPT ![c] = "dead"]
          /\ conn' = [conn EXCEPT ![c] = "dropped"]
    /\ UNCHANGED <<svcvars, acc, wrk, by, mid, blocked, sigvars, failed>>

(* The client is done: mainloop() and cleanup() return.                    *)
Finish(c) ==
    /\ Runs(S(c)) /\ ses[c] \in {"run", "runnopipe"}
    /\ ses' = [ses EXCEPT ![c] = IF @ = "run" THEN "avoidz" ELSE "exit"]
    /\ conn' = [conn EXCEPT ![c] = "over"]
    /\ UNCHANGED <<svcvars, acc, wrk, by, mid, wend, blocked, sigvars, failed>>

(* avoidz() reads until nobody has the write end of the pipe: the process  *)
(* that forked the session is gone, and the session a child of init.       *)
SessionExit(c) ==
    /\ Runs(S(c))
    /\ \/ ses[c] = "avoidz" /\ mid[c] \in Gone /\ c \notin wend
       \/ ses[c] = "exit"
    /\ ses' = [ses EXCEPT ![c] = "dead"]
    /\ UNCHANGED <<svcvars, acc, wrk, conn, by, mid, wend, blocked, sigvars,
                   failed>>

-----------------------------------------------------------------------------
(* The kernel: a client connects; a queue that nobody listens to is gone.  *)
Connect(c) ==
    /\ conn[c] = "out"
    /\ \E g \in Gens :
          /\ Listening(g)
          /\ by' = [by EXCEPT ![c] = <<g, 0>>]
    /\ conn' = [conn EXCEPT ![c] = "queued"]
    /\ UNCHANGED <<svcvars, acc, wrk, mid, ses, wend, blocked, sigvars, failed>>

QueueReset(c) ==
    /\ conn[c] = "queued" /\ ~Listening(by[c][1])
    /\ conn' = [conn EXCEPT ![c] = "dropped"]
    /\ UNCHANGED <<svcvars, acc, wrk, by, mid, ses, wend, blocked, sigvars,
                   failed>>

(* The operator.                                                           *)
SendUsr1 ==
    /\ nusr + nint < MaxSignals /\ nusr' = nusr + 1
    /\ usr' = usr \cup {p \in Alive : p[1] \in {"M", "S"} => p[2] \notin blocked}
    /\ UNCHANGED <<svcvars, acc, wrk, convars, int, nint, failed>>

SendInt ==
    /\ nusr + nint < MaxSignals /\ nint' = nint + 1
    /\ int' = int \cup Alive
    /\ UNCHANGED <<svcvars, acc, wrk, convars, usr, nusr, failed>>

(* A process dies of a signal.  rlwait() takes SIGUSR1 itself.             *)
Dies(p, why) ==
    /\ usr' = usr \ {p} /\ int' = int \ {p}
    /\ rl' = IF p = R THEN "dead" ELSE rl
    /\ acc' = [g \in Gens |-> [i \in Slots |->
                  IF p = A(g, i) THEN "dead" ELSE acc[g][i]]]
    /\ wrk' = [g \in Gens |-> {w \in wrk[g] : p # W(g, w)}]
    /\ mid' = [c \in Conns |-> IF p = M(c) THEN "dead" ELSE mid[c]]
    /\ ses' = [c \in Conns |-> IF p = S(c) THEN "dead" ELSE ses[c]]
    /\ conn' = [c \in Conns |->
           IF p = S(c) /\ conn[c] \in {"given", "served"} THEN why
           ELSE IF \/ p = M(c) /\ ses[c] = "none" /\ conn[c] = "given"
                   \/ p[1] = "A" /\ conn[c] = "accepted" /\ by[c] = <<p[2], p[3]>>
           THEN "dropped" ELSE conn[c]]
    /\ UNCHANGED <<gen, by, wend, blocked, nusr, nint, failed>>

Signal(p) ==
    \/ p \in usr \ {R} /\ Dies(p, "usr")
    \/ p \in int /\ Dies(p, "int")

Main == ForkServer \/ Reload
Acceptor(g, i) ==
    \/ i = 0 /\ (Bind(g) \/ StartUdp(g))
    \/ Chain(g, i) \/ Unstick(g, i)
    \/ \E c \in Conns :
          \/ Accept(g, i, c)
          \/ by[c] = <<g, i>> /\ (Fork(c) \/ Reaped(c))
Connection(c) ==
    \/ Mask(c) \/ ForkSession(c) \/ MidExit(c)
    \/ Serve(c) \/ SessionExit(c)
    \/ QueueReset(c)

System ==
    \/ Main
    \/ \E g \in Gens, i \in Slots : Acceptor(g, i)
    \/ \E c \in Conns : Connection(c)
    \/ \E p \in Alive \cap (usr \cup int) : Signal(p)
Clients == \E c \in Conns : Connect(c) \/ Finish(c)
Operator == SendUsr1 \/ SendInt

Next == System \/ Clients \/ Operator

(* Processes run, and take their signals; with finitely many connections   *)
(* and signals the system has finitely many steps to make, and none is put *)
(* off for ever.  Nothing is said of clients and of the operator.          *)
Spec == Init /\ [][Next]_vars /\ WF_vars(System)

-----------------------------------------------------------------------------
(* A session lives through a reload: it ends because of its client, or     *)
(* because of a SIGINT, of the operator or of a bind() that failed.        *)
SessionsSurvive ==
    \A c \in Conns :
        /\ conn[c] # "usr"
        /\ conn[c] = "int" => nint > 0 \/ failed

(* A session whose client is done exits: avoidz() holds it back until the  *)
(* process between it and the acceptor is gone, and no longer.             *)
SessionEnds == []<>(\A c \in Conns : ses[c] # "avoidz")

(* A connection in the queue is taken by an acceptor or reset, even after  *)
(* fork() failed and acceptors wait for children that never end: the last  *)
(* acceptor of the chain has no child.  The exception is a chain of one,   *)
(* with workers as children.                                               *)
Alone(g) == acc[g][0] = "stuck" /\ LiveAcceptors(g) = {0} /\ wrk[g] # {}

QueueIsServed ==
    []<>(\A c \in Conns : conn[c] = "queued" => Alone(by[c][1]))

(* After the signals the daemon is up, or all its processes are gone: a    *)
(* reload that fails takes the processes of the old server with it.  The   *)
(* exceptions: main() could not fork the server, or it hangs as above.     *)
Up == \E i \in Slots : acc[gen][i] \in {"accept", "fork", "reap"}
Down ==
    /\ rl = "dead"
    /\ \A g \in Gens : LiveAcceptors(g) = {} /\ wrk[g] = {}
NoServer == rl # "dead" /\ acc[gen][0] = "none"

Settles == []<>(Up \/ Down \/ NoServer \/ Alone(gen))

(* "SIGUSR1 Will reload TFProtocol daemon with the same configuration that *)
(* start it." (src/README.rst): without SIGINT the daemon is up again.     *)
ReloadServes == nusr > 0 /\ nint = 0 ~> Up \/ nint > 0 \/ NoServer \/ Alone(gen)
=============================================================================
