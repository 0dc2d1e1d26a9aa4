------------------------ MODULE MCStreamlineClient ------------------------
(* StreamlineClient on a small instance, for TLC.                          *)
EXTENDS StreamlineClient, TLC

NoRequests == [StreamlineClient |-> {}]
OneOrTwoRequests ==
    [StreamlineClient |-> {"produce"}, TopicAdmin |-> {"create_topic", "list_topics"}]

Perms == Permutations(Sockets) \union Permutations(Timers) \union Permutations(Topics)
===========================================================================
