--------------------------- MODULE MCGeminiStream ---------------------------
(* GeminiStream with small sets of function names.                         *)
EXTENDS GeminiStream, TLC

NameSymmetry == Permutations(Names)
=============================================================================
