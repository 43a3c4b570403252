----------------------------- MODULE MCDispatch -----------------------------
(* Dispatch for TLC: connections are symmetric.  The routes are ones that  *)
(* the repository's README.md offers; of the two upstreams of a Responses  *)
(* client the one whose events have to be told from the default.           *)
EXTENDS Dispatch, TLC

SidSymmetry == Permutations(Sids)

StreamRoutes ==
    {<<"responses", "anthropic">>, <<"anthropic", "openai">>, <<"anthropic", "gemini">>}
=============================================================================
