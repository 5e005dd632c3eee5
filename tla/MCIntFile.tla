----------------------------- MODULE MCIntFile ------------------------------
(* Instances of IntFile: payloads of two lengths, so that one can end      *)
(* inside the other.                                                       *)
EXTENDS IntFile

FirstContent == <<"x">>
TwoPayloads == {<<"a">>, <<"b", "b">>}
NoState == {}
=============================================================================
