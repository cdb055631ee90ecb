------------------------------ MODULE PriceMap ------------------------------
(***************************************************************************)
(* What a price tree promises to the order book: a set of price levels, at *)
(* most one for each price, where prices within Eps are the same price.  A *)
(* level is named by the price it was created with.                        *)
(***************************************************************************)
EXTENDS Integers

CONSTANTS
  Prices,
  Eps

VARIABLE levels

Same(a, b) == a - b <= Eps /\ b - a <= Eps

Others(p) == {q \in levels : ~Same(p, q)}

Init == levels = {}

Insert(p) == levels' = Others(p) \cup {p}

Remove(p) == levels' = Others(p)

Clear == levels' = {}

Next == Clear \/ \E p \in Prices : Insert(p) \/ Remove(p)

Spec == Init /\ [][Next]_levels
=============================================================================
