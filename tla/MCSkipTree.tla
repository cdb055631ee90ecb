----------------------------- MODULE MCSkipTree -----------------------------
(* SkipTree for TLC: two prices that compare as equal, two that do not.    *)
EXTENDS SkipTree

MCPrices == {10, 11, 20, 30, 40}
=============================================================================
