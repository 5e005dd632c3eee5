---------------------------- MODULE MCNetMutex ----------------------------
(* An instance of NetMutex: two clients with one-letter tokens.            *)
EXTENDS NetMutex

CONSTANTS c1, c2

ShortTokens == [c \in Clients |-> IF c = c1 THEN <<"a">> ELSE <<"b">>]
AcqOnly == {"acq"}
=============================================================================
