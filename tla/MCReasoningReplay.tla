------------------------- MODULE MCReasoningReplay -------------------------
(* ReasoningReplay with small sets of calls and texts.                     *)
EXTENDS ReasoningReplay, TLC

ReplaySymmetry == Permutations(Calls)
=============================================================================
