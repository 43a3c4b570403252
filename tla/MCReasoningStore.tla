-------------------------- MODULE MCReasoningStore --------------------------
(* One tier of the reasoning cache for TLC: three keys in two places, a    *)
(* clock that can pass the maximal age.  Which address an entry gets makes *)
(* no difference to the store, so addresses are symmetric, and so are keys,*)
(* versions and callers: no property orders or names one of them.          *)
EXTENDS ReasoningStore, TLC

Symmetry ==
    Permutations(Objs) \cup Permutations(Keys) \cup Permutations(Versions)
      \cup Permutations(Callers)
=============================================================================
