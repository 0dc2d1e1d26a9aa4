------------------------------ MODULE Consumer ------------------------------
(***************************************************************************)
(* The Consumer of src/lib.rs: one subscription, and an offset that moves  *)
(* with the records delivered, with seek() and with advance_offset().      *)
(*                                                                         *)
(* Its connection is seen through ReconnectContract, which WsConnection    *)
(* implements when the application does not call connect() from            *)
(* on_state_change: a Consumer gives no access to that callback.  Its      *)
(* record callback is another matter: it runs in the middle of the task    *)
(* that delivers the record, and may call any method.  `calling` is that   *)
(* part of the task.                                                       *)
(*                                                                         *)
(* The topic's callback is registered by start() and removed only by       *)
(* stop(), which closes the socket as well, so it is there whenever a      *)
(* record is.  A frame for the broker is taken to arrive when it is sent:  *)
(* what the broker sends before it does is in flight either way.           *)
(***************************************************************************)
EXTENDS ReconnectContract, Integers, Sequences

CONSTANTS
    MaxI64,       \* the largest i64
    MaxOffset,    \* the records of the topic are 0 .. MaxOffset (u64)
    Arguments,    \* arguments of seek() and advance_offset()
    Backlog,      \* bound on the records in flight
    Nothing

I64 == -MaxI64 - 1 .. MaxI64
Offsets == 0 .. MaxOffset

ASSUME ConsumerAssumption ==
    /\ MaxI64 \in Nat
    /\ MaxOffset \in 0 .. 2 * MaxI64 + 1
    /\ Arguments \subseteq I64
    /\ Backlog \in Nat
    /\ Nothing \notin Int

VARIABLES
    registered,   \* the Subscribe frame is in persistent_messages
    current,      \* current_offset
    calling,      \* the record whose callback is running
    position,     \* broker: what it sends next on the socket, if subscribed
    inbox,        \* offsets of the records on their way
    started,      \* history: start() returned Ok, and no stop() since
    sendFailed,   \* history: send() of a Subscribe threw on an open socket
    base,         \* history: where current_offset was last set by seek()
    seen,         \* history: offsets delivered or advanced to since then
    exact,        \* history: all of these below the largest i64
    sought        \* history: the argument of seek(), until a record is received
                  \* or none will be

subscription == <<registered, started, sendFailed>>
broker == <<position, inbox>>
offsets == <<current, base, seen, exact, sought>>
consumerVars == <<cvars, subscription, broker, offsets, calling>>

MayCall == owned
NoTask == calling = Nothing

(***************************************************************************)
(* Offsets                                                                 *)
(***************************************************************************)
\* The `as i64` of a u64, and `offset + 1` on i64 in a release build.
AsI64(n) == IF n > MaxI64 THEN n - 2 * (MaxI64 + 1) ELSE n
Successor(n) == IF n = MaxI64 THEN -MaxI64 - 1 ELSE n + 1

\* advance_offset_shared
AdvancedAlways(offset) == Successor(offset)
Advanced(offset) == IF offset >= current THEN Successor(offset) ELSE current

Remember(offset) ==
    /\ seen' = seen \union {offset}
    /\ exact' = (exact /\ offset < MaxI64)
    /\ UNCHANGED base

AdvanceOffset(offset) ==
    /\ MayCall
    /\ current' = Advanced(offset)
    /\ Remember(offset)
    /\ UNCHANGED <<cvars, subscription, broker, calling, sought>>

\* Where the broker goes for a seek frame is its choice if it has no such record.
SentFrom(offset) == IF offset \in Offsets THEN {offset} ELSE Offsets

\* seek().  It returns an error, and changes nothing, without an open socket
\* or if send() throws.
Seek(offset) ==
    /\ MayCall
    /\ link = "up"
    /\ current' = offset
    /\ base' = offset /\ seen' = {} /\ exact' = TRUE
    /\ IF position = Nothing
         THEN UNCHANGED position /\ sought' = Nothing
         ELSE position' \in SentFrom(offset) /\ sought' = offset
    /\ UNCHANGED <<cvars, subscription, inbox, calling>>

(***************************************************************************)
(* start() and stop()                                                      *)
(***************************************************************************)
\* A Subscribe frame names no offset: where it begins is the broker's choice.
StartRefused ==                                   \* connect() fails
    /\ MayCall
    /\ RequestRefused
    /\ UNCHANGED <<subscription, broker, offsets, calling>>

StartBeforeOpen ==                                \* the frame goes out later
    /\ MayCall
    /\ link # "up"
    /\ IF link = "opening" THEN UNCHANGED cvars ELSE Request
    /\ registered' = TRUE /\ started' = TRUE
    /\ UNCHANGED <<sendFailed, broker, offsets, calling>>

StartWhileUp ==
    /\ MayCall
    /\ link = "up"
    /\ registered' = TRUE
    /\ \/ position' \in Offsets /\ started' = TRUE /\ UNCHANGED sendFailed
       \/ sendFailed' = TRUE /\ UNCHANGED <<position, started>>
    /\ sought' = Nothing
    /\ UNCHANGED <<cvars, inbox, current, base, seen, exact, calling>>

Stop ==
    /\ MayCall
    /\ HangUp
    /\ registered' = FALSE /\ started' = FALSE
    /\ position' = Nothing /\ inbox' = <<>>
    /\ sought' = Nothing
    /\ UNCHANGED <<sendFailed, current, base, seen, exact, calling>>

ConsumerFree ==
    /\ MayCall
    /\ Abandon
    /\ position' = Nothing /\ inbox' = <<>>
    /\ sought' = Nothing
    /\ UNCHANGED <<subscription, current, base, seen, exact, calling>>

(***************************************************************************)
(* The connection                                                          *)
(***************************************************************************)
\* What reaches the broker of the persistent messages on a new socket.
ReplayNothing == UNCHANGED <<position, sendFailed>>
Replay ==
    \/ registered /\ position' \in Offsets /\ UNCHANGED sendFailed
    \/ registered /\ sendFailed' = TRUE /\ UNCHANGED position
    \/ ~registered /\ UNCHANGED <<position, sendFailed>>

ConsumerOpened ==
    /\ NoTask /\ owned
    /\ Opened
    /\ Replay
    /\ sought' = Nothing
    /\ UNCHANGED <<registered, started, inbox, current, base, seen, exact, calling>>

\* The close frame comes after the records sent before it; a loss may not.
SocketEnds ==
    /\ NoTask /\ owned
    /\ Lost \/ (PeerHangsUp /\ inbox = <<>>)
    /\ position' = Nothing /\ inbox' = <<>>
    /\ sought' = Nothing
    /\ UNCHANGED <<subscription, current, base, seen, exact, calling>>

RetryTask ==
    /\ NoTask /\ owned
    /\ Retry \/ RetryRefused \/ CannotWait
    /\ UNCHANGED <<subscription, broker, offsets, calling>>

BrokerSends ==
    /\ NoTask /\ owned
    /\ link = "up"
    /\ position \in Offsets
    /\ Len(inbox) < Backlog
    /\ inbox' = Append(inbox, position)
    /\ position' = position + 1
    /\ UNCHANGED <<cvars, subscription, offsets, calling>>

\* onmessage and the closure start() made: the offset first, then the callback.
Deliver ==
    /\ NoTask /\ owned
    /\ link = "up"
    /\ inbox # <<>>
    /\ LET offset == Head(inbox) IN
         /\ current' = Advanced(AsI64(offset))
         /\ Remember(offset)
         /\ calling' = offset
    /\ inbox' = Tail(inbox)
    /\ sought' = Nothing
    /\ UNCHANGED <<cvars, subscription, position>>

\* What the closure does after the callback: nothing.  In the mutated form it
\* advances the offset only then.
AdvanceAfterCallback == current' = Advanced(AsI64(calling))
AfterCallback == UNCHANGED current

CallbackReturns ==
    /\ calling # Nothing
    /\ AfterCallback
    /\ calling' = Nothing
    /\ UNCHANGED <<cvars, subscription, broker, base, seen, exact, sought>>

(***************************************************************************)
(* The specification                                                       *)
(***************************************************************************)
ConsumerInit ==
    /\ CInit
    /\ registered = FALSE /\ started = FALSE /\ sendFailed = FALSE
    /\ current = 0 /\ base = 0 /\ seen = {} /\ exact = TRUE
    /\ sought = Nothing /\ calling = Nothing
    /\ position = Nothing /\ inbox = <<>>

ConsumerNext ==
    \/ StartRefused \/ StartBeforeOpen \/ StartWhileUp
    \/ Stop \/ ConsumerFree
    \/ \E offset \in Arguments : Seek(offset) \/ AdvanceOffset(offset)
    \/ ConsumerOpened \/ SocketEnds \/ RetryTask
    \/ BrokerSends \/ Deliver \/ CallbackReturns

ConsumerSpec == ConsumerInit /\ [][ConsumerNext]_consumerVars

(***************************************************************************)
(* Properties                                                              *)
(***************************************************************************)
\* The types of the consumer, its connection's broker and the histories.
ConsumerTypeOK ==
    /\ registered \in BOOLEAN /\ started \in BOOLEAN /\ sendFailed \in BOOLEAN
    /\ current \in I64 /\ base \in I64
    /\ seen \subseteq I64 \union Offsets
    /\ exact \in BOOLEAN
    /\ sought \in I64 \union {Nothing}
    /\ calling \in Offsets \union {Nothing}
    /\ position \in 0 .. MaxOffset + 1 \union {Nothing}
    /\ inbox \in Seq(Offsets)

\* current_offset is past every record delivered since the last seek(), and not
\* before where that put it: neither the records the broker sends again after a
\* reconnect nor those in flight at a seek() set it back.  Offsets from the
\* largest i64 on are excepted (`exact`).
NotBehind == exact => base <= current /\ \A offset \in seen : offset < current

\* ... and it is no further than one past such a record, or where seek() put
\* it: also when seek() is called by the callback of a record beyond
\* (the doc of start(): the offset moves before the callback is invoked).
NotAhead == exact => current = base \/ current - 1 \in seen

\* Whenever a started consumer is connected, the broker has its subscription
\* on this very socket: start() before, during or after the opening, losses,
\* retries, a start() whose connect() failed.  A send() that throws on an open
\* socket, which no browser does for a text frame, is the exception.
SubscribedWhenUp ==
    owned /\ link = "up" /\ started /\ ~sendFailed => position # Nothing

\* "Seek to a specific offset.  The next message received will be from this
\* offset" (the doc of seek()), if there is such a record and the socket is not
\* lost before it comes.
SeekIsNext == [][Deliver /\ sought \in Offsets => calling' = sought]_consumerVars

=============================================================================
