---------------------------- MODULE MCProducer ----------------------------
(* Producer on a small instance, for TLC.                                  *)
EXTENDS Producer
===========================================================================
