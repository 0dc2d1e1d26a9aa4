------------------------------- MODULE Outbox -------------------------------
(***************************************************************************)
(* What a producer promises, with no batches, sizes or flushes: an ordered *)
(* outbox of the items it was offered.                                     *)
(*                                                                         *)
(*  - what has been delivered is, in order and once each, the first of     *)
(*    what was offered, and grows only while the other end is reachable;   *)
(*  - an item held back is delivered only if everything held with it is    *)
(*    released, in the order it was held and with nothing of others        *)
(*    between; what is withdrawn is never delivered;                       *)
(*  - the rest of what was released may be dropped: that much of "all" is  *)
(*    not promised.                                                        *)
(***************************************************************************)
EXTENDS Sequences, Naturals

CONSTANTS Items,       \* all there is to offer
          Free         \* those that are offered without being held first

VARIABLES
    offered,           \* the items to deliver, in order
    delivered,
    held,              \* items that wait for their release
    released,          \* items released that are not yet offered
    reachable          \* the other end can be reached

outboxVars == <<offered, delivered, held, released, reachable>>

OInit ==
    /\ offered = <<>> /\ delivered = <<>>
    /\ held = <<>> /\ released = <<>>
    /\ reachable = FALSE

\* Any number of the items offered, the new one included, goes out.
Deliver ==
    \E n \in Len(delivered) .. Len(offered') :
        /\ n > Len(delivered) => reachable
        /\ delivered' = SubSeq(offered', 1, n)

Offer(item) ==
    /\ item \in Free
    /\ released = <<>>
    /\ offered' = Append(offered, item)
    /\ Deliver
    /\ UNCHANGED <<held, released, reachable>>

OfferReleased ==
    /\ released # <<>>
    /\ offered' = Append(offered, Head(released))
    /\ released' \in {Tail(released), <<>>}
    /\ Deliver
    /\ UNCHANGED <<held, reachable>>

Drop ==
    /\ released # <<>>
    /\ released' = <<>>
    /\ UNCHANGED <<offered, delivered, held, reachable>>

\* Delivery on demand, possibly the last one for now.
DeliverMore ==
    /\ released = <<>>
    /\ UNCHANGED offered
    /\ Deliver
    /\ reachable' \in {reachable, FALSE}
    /\ UNCHANGED <<held, released>>

Hold(item) ==
    /\ item \in Items \ Free
    /\ released = <<>>
    /\ held' = Append(held, item)
    /\ UNCHANGED <<offered, delivered, released, reachable>>

Release ==
    /\ released = <<>>
    /\ released' = held /\ held' = <<>>
    /\ UNCHANGED <<offered, delivered, reachable>>

Withdraw ==
    /\ released = <<>>
    /\ held' = <<>>
    /\ UNCHANGED <<offered, delivered, released, reachable>>

Connectivity ==
    /\ reachable' = ~reachable
    /\ UNCHANGED <<offered, delivered, held, released>>

ONext ==
    \/ \E item \in Free : Offer(item)
    \/ OfferReleased \/ Drop \/ DeliverMore
    \/ \E item \in Items \ Free : Hold(item)
    \/ Release \/ Withdraw
    \/ Connectivity

OSpec == OInit /\ [][ONext]_outboxVars
=============================================================================
