-------------------------- MODULE Consumer_proofs --------------------------
(***************************************************************************)
(* Proofs about Consumer, for any width of the offsets, any topic and any  *)
(* number of records in flight.                                            *)
(***************************************************************************)
EXTENDS Consumer, SequenceTheorems, TLAPS

\* What a consumer that is started counts on when a socket opens.
StartedIsRegistered == started => registered

\* The inductive invariant.
ConsumerInv ==
    /\ ConsumerTypeOK
    /\ NotBehind
    /\ NotAhead
    /\ StartedIsRegistered
    /\ SubscribedWhenUp

\* The offsets of records are i64 again after the cast, and the same if they
\* are below the largest.
LEMMA CastOffset ==
  ASSUME NEW offset \in Offsets
  PROVE  AsI64(offset) \in I64 /\ (offset < MaxI64 => AsI64(offset) = offset)
  BY ConsumerAssumption DEF Offsets, I64, AsI64

\* advance_offset_shared yields an i64, whatever it is given.
LEMMA AdvancedIsI64 ==
  ASSUME current \in I64, NEW offset \in I64
  PROVE  Advanced(offset) \in I64
  BY ConsumerAssumption DEF I64, Advanced, Successor

\* Below the largest i64 it is past the offset and past where it was, and one
\* past the offset unless it has not moved.
LEMMA AdvancedIsPast ==
  ASSUME current \in I64, NEW offset \in Int, offset < MaxI64
  PROVE  /\ offset < Advanced(offset) /\ current <= Advanced(offset)
         /\ Advanced(offset) = current \/ Advanced(offset) - 1 = offset
  BY ConsumerAssumption DEF I64, Advanced, Successor

\* An advance to an offset that is remembered keeps both properties of the
\* offset: `cast` is what the code advances to for it.
LEMMA AdvanceKeeps ==
  ASSUME ConsumerTypeOK, NotBehind, NotAhead,
         NEW offset \in I64 \union Offsets, NEW cast \in I64,
         offset < MaxI64 => cast = offset,
         current' = Advanced(cast), Remember(offset)
  PROVE  /\ NotBehind' /\ NotAhead'
         /\ current' \in I64 /\ base' \in I64
         /\ seen' \subseteq I64 \union Offsets
         /\ exact' \in BOOLEAN
  <1>0. /\ current \in I64 /\ base \in I64 /\ seen \subseteq I64 \union Offsets
        /\ offset \in Int /\ I64 \subseteq Int /\ Offsets \subseteq Int
    BY ConsumerAssumption DEF ConsumerTypeOK, I64, Offsets
  <1>1. current' \in I64 /\ base' \in I64 /\ seen' \subseteq I64 \union Offsets
    BY <1>0, AdvancedIsI64 DEF Remember
  <1>2. exact' \in BOOLEAN
    BY Zenon DEF Remember
  <1>3. NotBehind' /\ NotAhead'
    <2> SUFFICES ASSUME exact'
                 PROVE  /\ base' <= current' /\ \A o \in seen' : o < current'
                        /\ current' = base' \/ current' - 1 \in seen'
      BY DEF NotBehind, NotAhead
    <2>1. /\ exact /\ offset < MaxI64 /\ cast = offset
          /\ seen' = seen \union {offset} /\ base' = base
      BY DEF Remember
    <2>2. /\ offset < current' /\ current <= current'
          /\ current' = current \/ current' - 1 = offset
      BY <1>0, <2>1, AdvancedIsPast
    <2>3. /\ base <= current /\ \A o \in seen : o < current
          /\ current = base \/ current - 1 \in seen
      BY <2>1 DEF NotBehind, NotAhead
    <2>4. ASSUME NEW o \in seen' PROVE o < current'
      <3>1. CASE o = offset
        BY <2>2, <3>1
      <3>2. CASE o \in seen
        <4>1. o \in Int /\ current \in Int /\ current' \in Int /\ o < current
          BY <1>0, <1>1, <2>3, <3>2
        <4> QED
          BY <2>2, <4>1
      <3> QED
        BY <2>1, <2>4, <3>1, <3>2
    <2>5. current' = base' \/ current' - 1 \in seen'
      BY <2>1, <2>2, <2>3
    <2>6. base' <= current'
      <3>1. base \in Int /\ current \in Int /\ current' \in Int
        BY <1>0, <1>1
      <3> QED
        BY <2>1, <2>2, <2>3, <3>1
    <2> QED
      BY <2>4, <2>5, <2>6
  <1> QED
    BY <1>1, <1>2, <1>3

\* A step that leaves the offsets alone.
LEMMA OffsetsStand ==
  ASSUME ConsumerInv, UNCHANGED <<current, base, seen, exact>>
  PROVE  /\ NotBehind' /\ NotAhead'
         /\ current' \in I64 /\ base' \in I64
         /\ seen' \subseteq I64 \union Offsets
         /\ exact' \in BOOLEAN
  <1>1. exact' \in BOOLEAN
    BY Zenon DEF ConsumerInv, ConsumerTypeOK
  <1> QED
    BY <1>1 DEF ConsumerInv, ConsumerTypeOK, NotBehind, NotAhead

\* A new consumer.
LEMMA ConsumerInitInv == ConsumerInit => ConsumerInv
  <1> SUFFICES ASSUME ConsumerInit PROVE ConsumerInv
    OBVIOUS
  <1>1. /\ registered \in BOOLEAN /\ started \in BOOLEAN /\ sendFailed \in BOOLEAN
        /\ exact \in BOOLEAN
    BY Zenon DEF ConsumerInit
  <1>2. 0 \in I64 /\ <<>> \in Seq(Offsets)
    BY ConsumerAssumption, EmptySeq DEF I64
  <1>3. ConsumerTypeOK
    BY <1>1, <1>2 DEF ConsumerInit, ConsumerTypeOK
  <1> QED
    BY <1>3, ConsumerAssumption DEF ConsumerInit, CInit, ConsumerInv, NotBehind, NotAhead,
                StartedIsRegistered, SubscribedWhenUp, Offsets

\* The broker's positions are not Nothing.
LEMMA Positions ==
  /\ Nothing \notin 0 .. MaxOffset + 1
  /\ Offsets \subseteq 0 .. MaxOffset + 1
  /\ \A p \in Offsets : p + 1 \in 0 .. MaxOffset + 1 /\ p # Nothing
  BY ConsumerAssumption DEF Offsets

\* Every step keeps the types that do not concern the offsets.
LEMMA TypeStep ==
  ASSUME ConsumerInv, [ConsumerNext]_consumerVars
  PROVE  /\ registered' \in BOOLEAN /\ started' \in BOOLEAN /\ sendFailed' \in BOOLEAN
         /\ sought' \in I64 \union {Nothing}
         /\ calling' \in Offsets \union {Nothing}
         /\ position' \in 0 .. MaxOffset + 1 \union {Nothing}
         /\ inbox' \in Seq(Offsets)
  <1> USE DEF ConsumerInv, ConsumerTypeOK
  <1>1. registered' \in BOOLEAN /\ started' \in BOOLEAN /\ sendFailed' \in BOOLEAN
    BY Zenon
    DEF ConsumerNext, consumerVars, subscription, StartRefused, StartBeforeOpen,
        StartWhileUp, Stop, ConsumerFree, Seek, AdvanceOffset, ConsumerOpened, Replay,
        SocketEnds, RetryTask, BrokerSends, Deliver, CallbackReturns
  <1>2. sought' \in I64 \union {Nothing}
    BY ConsumerAssumption
    DEF ConsumerNext, consumerVars, offsets, StartRefused, StartBeforeOpen,
        StartWhileUp, Stop, ConsumerFree, Seek, AdvanceOffset, ConsumerOpened,
        SocketEnds, RetryTask, BrokerSends, Deliver, CallbackReturns
  <1>3. inbox' \in Seq(Offsets) /\ calling' \in Offsets \union {Nothing}
    <2>1. <<>> \in Seq(Offsets)
      BY EmptySeq
    <2>2. CASE Deliver
      <3>1. Head(inbox) \in Offsets /\ Tail(inbox) \in Seq(Offsets)
        BY <2>2, HeadTailProperties DEF Deliver
      <3> QED
        BY <2>2, <3>1 DEF Deliver
    <2>3. CASE BrokerSends
      <3>1. Append(inbox, position) \in Seq(Offsets)
        BY <2>3, AppendProperties DEF BrokerSends
      <3> QED
        BY <2>3, <3>1 DEF BrokerSends
    <2>4. CASE ~Deliver /\ ~BrokerSends
      BY <2>1, <2>4
      DEF ConsumerNext, consumerVars, broker, StartRefused, StartBeforeOpen,
          StartWhileUp, Stop, ConsumerFree, Seek, AdvanceOffset, ConsumerOpened,
          SocketEnds, RetryTask, CallbackReturns
    <2> QED
      BY <2>2, <2>3, <2>4
  <1>4. position' \in 0 .. MaxOffset + 1 \union {Nothing}
    BY Positions
    DEF ConsumerNext, consumerVars, broker, SentFrom, StartRefused, StartBeforeOpen,
        StartWhileUp, Stop, ConsumerFree, Seek, AdvanceOffset, ConsumerOpened, Replay,
        SocketEnds, RetryTask, BrokerSends, Deliver, CallbackReturns
  <1> QED
    BY <1>1, <1>2, <1>3, <1>4

\* Every step keeps what is said of the offset.
LEMMA OffsetStep ==
  ASSUME ConsumerInv, [ConsumerNext]_consumerVars
  PROVE  /\ NotBehind' /\ NotAhead'
         /\ current' \in I64 /\ base' \in I64
         /\ seen' \subseteq I64 \union Offsets
         /\ exact' \in BOOLEAN
  <1>1. CASE Deliver
    <2> DEFINE offset == Head(inbox)
    <2>1. offset \in Offsets
      BY <1>1, HeadTailProperties DEF Deliver, ConsumerInv, ConsumerTypeOK
    <2>2. current' = Advanced(AsI64(offset)) /\ Remember(offset)
      BY <1>1 DEF Deliver
    <2> HIDE DEF offset
    <2>3. AsI64(offset) \in I64 /\ (offset < MaxI64 => AsI64(offset) = offset)
      BY <2>1, CastOffset
    <2> QED
      BY <2>1, <2>2, <2>3, AdvanceKeeps DEF ConsumerInv
  <1>2. ASSUME NEW offset \in Arguments, AdvanceOffset(offset)
        PROVE  /\ NotBehind' /\ NotAhead'
               /\ current' \in I64 /\ base' \in I64
               /\ seen' \subseteq I64 \union Offsets
               /\ exact' \in BOOLEAN
    <2>1. offset \in I64
      BY ConsumerAssumption
    <2> QED
      BY <1>2, <2>1, AdvanceKeeps DEF AdvanceOffset, ConsumerInv
  <1>3. ASSUME NEW offset \in Arguments, Seek(offset)
        PROVE  /\ NotBehind' /\ NotAhead'
               /\ current' \in I64 /\ base' \in I64
               /\ seen' \subseteq I64 \union Offsets
               /\ exact' \in BOOLEAN
    <2>1. current' = offset /\ base' = offset /\ seen' = {} /\ exact' = TRUE
      BY <1>3 DEF Seek
    <2>2. offset \in I64
      BY ConsumerAssumption
    <2>3. exact' \in BOOLEAN
      BY <2>1, Zenon
    <2>4. offset <= offset
      BY <2>2 DEF I64
    <2> QED
      BY <2>1, <2>2, <2>3, <2>4 DEF NotBehind, NotAhead
  <1>4. CASE ~Deliver /\ ~(\E offset \in Arguments : Seek(offset) \/ AdvanceOffset(offset))
    <2>1. UNCHANGED <<current, base, seen, exact>>
      BY <1>4
      DEF ConsumerNext, consumerVars, offsets, StartRefused, StartBeforeOpen,
          StartWhileUp, Stop, ConsumerFree, ConsumerOpened, SocketEnds, RetryTask,
          BrokerSends, CallbackReturns, AfterCallback
    <2> QED
      BY <2>1, OffsetsStand
  <1> QED
    BY <1>1, <1>2, <1>3, <1>4

\* Every step keeps the subscription where it belongs.
LEMMA SubscriptionStep ==
  ASSUME ConsumerInv, [ConsumerNext]_consumerVars
  PROVE  StartedIsRegistered' /\ SubscribedWhenUp'
  <1> USE Positions DEF ConsumerInv, StartedIsRegistered, SubscribedWhenUp, MayCall
  <1>1. CASE StartRefused
    BY <1>1 DEF StartRefused, subscription, broker, RequestRefused
  <1>2. CASE StartBeforeOpen
    BY <1>2 DEF StartBeforeOpen, Request, cvars
  <1>3. CASE StartWhileUp
    BY <1>3 DEF StartWhileUp, cvars, settings
  <1>4. CASE Stop
    BY <1>4 DEF Stop
  <1>5. CASE ConsumerFree
    BY <1>5 DEF ConsumerFree, Abandon, subscription
  <1>6. ASSUME NEW offset \in Arguments, Seek(offset)
        PROVE  StartedIsRegistered' /\ SubscribedWhenUp'
    BY <1>6 DEF Seek, SentFrom, cvars, settings, subscription
  <1>7. ASSUME NEW offset \in Arguments, AdvanceOffset(offset)
        PROVE  StartedIsRegistered' /\ SubscribedWhenUp'
    BY <1>7 DEF AdvanceOffset, cvars, settings, subscription, broker
  <1>8. CASE ConsumerOpened
    BY <1>8 DEF ConsumerOpened, Opened, Replay, settings
  <1>9. CASE SocketEnds
    BY <1>9 DEF SocketEnds, Lost, RetryOrGiveUp, PeerHangsUp, subscription
  <1>10. CASE RetryTask
    BY <1>10 DEF RetryTask, Retry, RetryRefused, RetryOrGiveUp, CannotWait, subscription
  <1>11. CASE BrokerSends
    BY <1>11 DEF BrokerSends, cvars, settings, subscription
  <1>12. CASE Deliver
    BY <1>12 DEF Deliver, cvars, settings, subscription
  <1>13. CASE CallbackReturns
    BY <1>13 DEF CallbackReturns, cvars, settings, subscription, broker
  <1>14. CASE UNCHANGED consumerVars
    BY <1>14 DEF consumerVars, cvars, settings, subscription, broker
  <1> QED
    BY <1>1, <1>2, <1>3, <1>4, <1>5, <1>6, <1>7, <1>8, <1>9, <1>10, <1>11, <1>12,
       <1>13, <1>14
    DEF ConsumerNext

\* Every step keeps the invariant.
LEMMA ConsumerStep == ConsumerInv /\ [ConsumerNext]_consumerVars => ConsumerInv'
  <1> SUFFICES ASSUME ConsumerInv, [ConsumerNext]_consumerVars PROVE ConsumerInv'
    OBVIOUS
  <1>1. ConsumerTypeOK'
    BY TypeStep, OffsetStep DEF ConsumerTypeOK
  <1> QED
    BY <1>1, OffsetStep, SubscriptionStep DEF ConsumerInv

\* Every reachable state of a consumer satisfies the invariant.
THEOREM ConsumerInvariant == ConsumerSpec => []ConsumerInv
  BY ConsumerInitInv, ConsumerStep, PTL DEF ConsumerSpec

\* current_offset is past all the records delivered since the last seek(),
\* whatever the broker sends again and whatever the record callback calls.
THEOREM OffsetNeverBehind == ConsumerSpec => []NotBehind
  <1>1. ConsumerInv => NotBehind
    BY DEF ConsumerInv
  <1> QED
    BY <1>1, ConsumerInvariant, PTL

\* ... and no further than one past one of them.
THEOREM OffsetNeverAhead == ConsumerSpec => []NotAhead
  <1>1. ConsumerInv => NotAhead
    BY DEF ConsumerInv
  <1> QED
    BY <1>1, ConsumerInvariant, PTL

\* A started consumer that is connected is subscribed on its socket.
THEOREM Subscribed == ConsumerSpec => []SubscribedWhenUp
  <1>1. ConsumerInv => SubscribedWhenUp
    BY DEF ConsumerInv
  <1> QED
    BY <1>1, ConsumerInvariant, PTL

\* current_offset goes back by seek() alone, which sets it to its argument: not
\* when records come again, nor by advance_offset() (below the largest i64).
OnlySeekGoesBack ==
    [][exact' /\ current' < current =>
          \E offset \in Arguments : Seek(offset) /\ current' = offset]_consumerVars

\* No other call and no event sets current_offset back.
THEOREM NoneGoesBack == ConsumerSpec => OnlySeekGoesBack
  <1>1. ConsumerInv /\ [ConsumerNext]_consumerVars =>
          [exact' /\ current' < current =>
              \E offset \in Arguments : Seek(offset) /\ current' = offset]_consumerVars
    <2> SUFFICES ASSUME ConsumerInv, ConsumerNext, exact', current' < current
                 PROVE  \E offset \in Arguments : Seek(offset) /\ current' = offset
      OBVIOUS
    <2>0. current \in I64 /\ current \in Int
      BY ConsumerAssumption DEF ConsumerInv, ConsumerTypeOK, I64
    <2>1. ~(current' = current)
      BY <2>0
    <2>2. CASE Deliver
      <3> DEFINE offset == Head(inbox)
      <3>1. offset \in Offsets /\ current' = Advanced(AsI64(offset)) /\ Remember(offset)
        BY <2>2, HeadTailProperties DEF Deliver, ConsumerInv, ConsumerTypeOK
      <3> HIDE DEF offset
      <3>2. offset < MaxI64
        BY <3>1 DEF Remember
      <3>i. offset \in Int
        BY <3>1, ConsumerAssumption DEF Offsets
      <3>3. current <= current'
        BY <2>0, <3>1, <3>2, <3>i, CastOffset, AdvancedIsPast
      <3>4. current' \in Int
        BY <2>0, <3>1, CastOffset, AdvancedIsI64 DEF I64
      <3> QED
        BY <2>0, <3>3, <3>4
    <2>3. ASSUME NEW offset \in Arguments, AdvanceOffset(offset) PROVE FALSE
      <3>1. offset \in I64 /\ offset \in Int
        BY ConsumerAssumption DEF I64
      <3>2. current' = Advanced(offset) /\ offset < MaxI64
        BY <2>3 DEF AdvanceOffset, Remember
      <3>3. current <= current'
        BY <2>0, <3>1, <3>2, AdvancedIsPast
      <3>4. current' \in Int
        BY <2>0, <3>1, <3>2, AdvancedIsI64 DEF I64
      <3> QED
        BY <2>0, <3>3, <3>4
    <2>4. ASSUME NEW offset \in Arguments, Seek(offset) PROVE current' = offset
      BY <2>4 DEF Seek
    <2>5. \/ Deliver
          \/ \E offset \in Arguments : Seek(offset) \/ AdvanceOffset(offset)
      BY <2>1
      DEF ConsumerNext, consumerVars, offsets, StartRefused, StartBeforeOpen,
          StartWhileUp, Stop, ConsumerFree, ConsumerOpened, SocketEnds, RetryTask,
          BrokerSends, CallbackReturns, AfterCallback
    <2> QED
      BY <2>2, <2>3, <2>4, <2>5
  <1> QED
    BY <1>1, ConsumerInvariant, PTL DEF ConsumerSpec, OnlySeekGoesBack

\* A consumer asks of its connection nothing but what ReconnectContract lets a
\* user ask, and sees it do nothing else: with the theorem Implements about
\* WsConnection, the two can be put together.
THEOREM ConsumerKeepsContract == ConsumerSpec => CSafe
  <1>1. ConsumerInit => CInit
    BY DEF ConsumerInit
  <1>2. [ConsumerNext]_consumerVars => [CNext]_cvars
    <2> SUFFICES ASSUME [ConsumerNext]_consumerVars PROVE CNext \/ UNCHANGED cvars
      OBVIOUS
    <2>1. CASE StartRefused \/ StartBeforeOpen
      BY <2>1 DEF StartRefused, StartBeforeOpen, MayCall, CNext
    <2>2. CASE Stop \/ ConsumerFree
      BY <2>2 DEF Stop, ConsumerFree, MayCall, CNext
    <2>3. CASE ConsumerOpened \/ SocketEnds \/ RetryTask
      BY <2>3 DEF ConsumerOpened, SocketEnds, RetryTask, CNext
    <2>4. CASE \/ StartWhileUp \/ BrokerSends \/ Deliver \/ CallbackReturns
               \/ \E offset \in Arguments : Seek(offset) \/ AdvanceOffset(offset)
               \/ UNCHANGED consumerVars
      BY <2>4
      DEF StartWhileUp, BrokerSends, Deliver, CallbackReturns, Seek, AdvanceOffset,
          consumerVars
    <2> QED
      BY <2>1, <2>2, <2>3, <2>4 DEF ConsumerNext
  <1> QED
    BY <1>1, <1>2, PTL DEF ConsumerSpec, CSafe

=============================================================================
