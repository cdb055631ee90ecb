----------------------------- MODULE MCOrderFlow -----------------------------
(* OrderFlow for TLC: the bounds are the constants of the configuration.   *)
EXTENDS OrderFlow
=============================================================================
