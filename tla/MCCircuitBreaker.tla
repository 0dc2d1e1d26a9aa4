------------------------- MODULE MCCircuitBreaker -------------------------
(* CircuitBreaker on small thresholds, for TLC.                            *)
EXTENDS CircuitBreaker
===========================================================================
