---------------------------- MODULE MCTelemetry ----------------------------
(* Telemetry on a small instance, for TLC.                                 *)
EXTENDS Telemetry, TLC

Perms == Permutations(Topics) \union Permutations(Handles)
=============================================================================
