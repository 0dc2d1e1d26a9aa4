---------------------------- MODULE MCConsumer ----------------------------
(* Consumer on a small instance, for TLC.                                  *)
EXTENDS Consumer

\* A negative offset, two records of the topic, and the largest i64.
SomeArguments == {-1, 0, 1, MaxI64}
===========================================================================
