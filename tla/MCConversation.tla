--------------------------- MODULE MCConversation ---------------------------
(* Conversation with a small set of functions.                             *)
EXTENDS Conversation, TLC

NameSymmetry == Permutations(Names)
=============================================================================
