---------------------------- MODULE MCRingBuffer ----------------------------
(* RingBuffer for TLC: threads and items are model values.  Items and the  *)
(* threads of one role are interchangeable, which the safety runs use.     *)
EXTENDS RingBuffer, TLC

Symmetric ==
  Permutations(Items) \cup Permutations(Producers)
  \cup Permutations(Poppers) \cup Permutations(Batchers)
=============================================================================
