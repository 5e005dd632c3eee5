----------------------------- MODULE MCSecureFs -----------------------------
(* One named identity, which can be given every permission, and everybody  *)
(* else, who can be given all but that of SETFSPERM.                       *)
EXTENDS SecureFs, TLC

CONSTANTS ann, other

TwoGrants == {[id |-> ann, mask |-> {"set", "rem", "use"}],
              [id |-> other, mask |-> {"rem", "use"}]}
Symmetry == Permutations(Sessions)
=============================================================================
