--------------------------- MODULE GuardedUpdate ----------------------------
(***************************************************************************)
(* NetMutex and IntFile together: clients that send INTREAD and INTWRITE   *)
(* only between their NETMUTACQ_TRY and their NETMUTREL on another file,   *)
(* and await the answer, or the end of the session, before they go on.     *)
(* One set of server processes runs all four handlers, each process one at *)
(* a time, and a process that dies loses whatever it was doing.            *)
(***************************************************************************)
EXTENDS NetMutex

CONSTANTS
    Bytes,                                    \* what files consist of
    Payloads, MaxWrites, First, Killable      \* of IntFile

ASSUME GuardAssumption ==
    /\ Payloads \subseteq Seq(Bytes) /\ First \in Seq(Bytes)
    /\ MaxWrites \in Nat
    /\ "idle" \notin Killable

VARIABLES fcontent, fowner, fh, seen, fpend, sent, acked    \* of IntFile

fvars == <<fcontent, fowner, fh, seen, fpend, sent, acked>>

F == INSTANCE IntFile WITH content <- fcontent, owner <- fowner, h <- fh,
                           pend <- fpend

GuardInit == Init /\ F!Init

(* A session reads its next command only when the last one is done.        *)
Free(s) == h[s].pc = "idle" /\ fh[s].pc = "idle"

(* A client sends a command only when its last one is answered.            *)
Ready(c) == pend[c] = NoProc /\ fpend[c] = NoProc

MutexRequest(c, s, o) ==
    /\ Free(s) /\ Ready(c)
    /\ o = "rel" => holding[c]
    /\ Request(c, s, o)
    /\ UNCHANGED fvars

FileRequest(c, s) ==
    /\ Free(s) /\ Ready(c)
    /\ holding[c]
    /\ F!Read(c, s) \/ \E b \in Payloads : F!Write(c, s, b)
    /\ UNCHANGED vars

MutexStep ==
    /\ \/ \E s \in Sessions : Step(s) \/ Kill(s)
       \/ \E c \in Clients : Drop(c)
    /\ UNCHANGED fvars

FileStep ==
    /\ \E s \in Sessions : F!Step(s) \/ F!Kill(s)
    /\ UNCHANGED vars

GuardNext ==
    \/ \E c \in Clients, s \in Sessions :
          FileRequest(c, s) \/ \E o \in Ops : MutexRequest(c, s, o)
    \/ MutexStep
    \/ FileStep

GuardSpec == GuardInit /\ [][GuardNext]_<<vars, fvars>>

-----------------------------------------------------------------------------
(* Under the network mutex cmd_intwrite() loses no update, although its    *)
(* own lock does not cover its check and its write.                        *)
NoLostUpdate == F!NoLostUpdate

(* Under the network mutex cmd_intread() sends the bytes it sends the hash *)
(* of.                                                                     *)
ReadConsistent == F!ReadConsistent

=============================================================================
