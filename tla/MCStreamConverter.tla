------------------------- MODULE MCStreamConverter -------------------------
(* StreamConverter with small sets of calls and names.                     *)
EXTENDS StreamConverter, TLC

CallSymmetry == Permutations(Calls)
=============================================================================
