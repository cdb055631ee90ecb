----------------------------- MODULE OrderList -----------------------------
(***************************************************************************)
(* What an OrderQueue promises: a list of different orders to which orders *)
(* are added at the end, and from which they are taken at the front or,    *)
(* by their id, anywhere.  An order is its id.                             *)
(***************************************************************************)
EXTENDS Sequences, SequencesExt

CONSTANT Ids

VARIABLE list

Init == list = <<>>

Push(id) == id \notin ToSet(list) /\ list' = Append(list, id)

Pop == list # <<>> /\ list' = Tail(list)

Take(id) == id \in ToSet(list) /\ list' = RemoveFirst(list, id)

Next == Pop \/ \E id \in Ids : Push(id) \/ Take(id)

Spec == Init /\ [][Next]_list
=============================================================================
