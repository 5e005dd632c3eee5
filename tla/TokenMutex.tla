----------------------------- MODULE TokenMutex -----------------------------
(***************************************************************************)
(* What the network mutex promises its clients: at most one of them is     *)
(* inside, it enters only when nobody is inside, and only the one that is  *)
(* inside leaves.                                                          *)
(***************************************************************************)
CONSTANT Clients
VARIABLE inside     \* the clients inside their critical section

Init == inside = {}

Enter(c) == inside = {} /\ inside' = {c}
Leave(c) == inside = {c} /\ inside' = {}

Next == \E c \in Clients : Enter(c) \/ Leave(c)

Spec == Init /\ [][Next]_inside
=============================================================================
