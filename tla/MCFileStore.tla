----------------------------- MODULE MCFileStore -----------------------------
(* The file-backed store for TLC: a few mutations, one kill, one failing   *)
(* file operation.                                                         *)
EXTENDS FileStore
=============================================================================
