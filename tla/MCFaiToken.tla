----------------------------- MODULE MCFaiToken -----------------------------
(* Quanta below, at and above the maximum, and none.                       *)
EXTENDS FaiToken, TLC

SomeArgs == {0, 1, 2, 5}
Symmetry == Permutations(Sessions) \cup Permutations(Tokens)
=============================================================================
