--------------------------- MODULE MCSessionStore ---------------------------
(* The session store on a small instance: more session ids than slots, two *)
(* sessions per id, so that replacing differs from inserting.              *)
EXTENDS SessionStore
=============================================================================
