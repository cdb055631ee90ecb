------------------------------ MODULE FifoQueue ------------------------------
(***************************************************************************)
(* A first-in first-out queue with a history of what was taken from it.    *)
(***************************************************************************)
EXTENDS Sequences

CONSTANT Items

VARIABLES
  queue,  \* the items put and not yet taken, oldest first
  out     \* the items taken, in the order they were taken

vars == <<queue, out>>

Init == queue = <<>> /\ out = <<>>

Put(it) ==
  /\ queue' = Append(queue, it)
  /\ UNCHANGED out

Take ==
  /\ queue # <<>>
  /\ queue' = Tail(queue)
  /\ out' = Append(out, Head(queue))

Next == Take \/ \E it \in Items : Put(it)

Spec == Init /\ [][Next]_vars
=============================================================================
