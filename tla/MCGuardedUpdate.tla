-------------------------- MODULE MCGuardedUpdate ---------------------------
(* Two clients with one-letter tokens, payloads of two lengths.            *)
EXTENDS GuardedUpdate, TLC

CONSTANTS c1, c2

Tokens == [c \in Clients |-> IF c = c1 THEN <<"a">> ELSE <<"b">>]
FirstContent == <<"x">>
ByteSet == {"a", "b", "x"}
TwoPayloads == {<<"a">>, <<"b", "b">>}
AnyState == {"opened", "locked", "sized", "hashed", "replying", "checked",
             "truncated", "written"}
AcqOnly == {"acq"}
Symmetry == Permutations(Sessions)
=============================================================================
