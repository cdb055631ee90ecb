----------------------------- MODULE DeliveryBag -----------------------------
(***************************************************************************)
(* What a concurrent queue promises when it promises no order: an item is  *)
(* put in at most once, stays until it is taken, and is taken once.        *)
(***************************************************************************)
EXTENDS Naturals, Sequences

CONSTANT Items

VARIABLES
  bag,  \* the items put and not yet taken
  out   \* the items taken, in the order they were taken

vars == <<bag, out>>

Init == bag = {} /\ out = <<>>

Put(it) ==
  /\ it \notin bag
  /\ \A i \in 1 .. Len(out) : out[i] # it
  /\ bag' = bag \cup {it}
  /\ UNCHANGED out

Take(it) ==
  /\ it \in bag
  /\ bag' = bag \ {it}
  /\ out' = Append(out, it)

Next == \E it \in Items : Put(it) \/ Take(it)

Spec == Init /\ [][Next]_vars
=============================================================================
