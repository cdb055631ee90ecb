--------------------------- MODULE MCPriceLevels ---------------------------
(* PriceLevels for TLC: orders are model values and interchangeable.       *)
EXTENDS PriceLevels

Symmetric == Permutations(Ids)
=============================================================================
