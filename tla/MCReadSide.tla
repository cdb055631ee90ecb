----------------------------- MODULE MCReadSide -----------------------------
(* ReadSide for TLC: the bounds are the constants of the configuration.    *)
EXTENDS ReadSide
=============================================================================
