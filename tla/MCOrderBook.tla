----------------------------- MODULE MCOrderBook -----------------------------
(* OrderBook for TLC: the bounds are the constants of the configurations.  *)
EXTENDS OrderBook
=============================================================================
