-------------------------- MODULE MCWsConnection --------------------------
(* WsConnection on a small instance, for TLC.                              *)
EXTENDS WsConnection, TLC

Perms == Permutations(Sockets) \union Permutations(Timers)
===========================================================================
