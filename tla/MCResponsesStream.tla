------------------------- MODULE MCResponsesStream -------------------------
(* ResponsesStream with small sets of calls.                               *)
EXTENDS ResponsesStream, TLC

CallSymmetry == Permutations(Calls)
=============================================================================
