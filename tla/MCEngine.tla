------------------------------ MODULE MCEngine ------------------------------
(* Engine for TLC: order objects, callers and workers are interchangeable. *)
EXTENDS Engine, TLC

Symmetric ==
  Permutations(Callers) \cup Permutations(Workers) \cup Permutations(Ptrs)
=============================================================================
