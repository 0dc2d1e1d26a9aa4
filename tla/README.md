# A formal model of streamline-wasm-sdk

TLA+ specifications of the core of `streamline-wasm-sdk`, a Rust SDK compiled
to WebAssembly by which a web page talks to a Streamline broker over a
WebSocket. TLC checks the specifications on small instances; TLAPS proves the safety
part of what they promise for every instance. Paths below are those of the
repository, whose crate is in `src/`.

To check: `tlc -config <run>.cfg <module>.tla` for each row of *Runs*;
`tlapm <module>_proofs.tla` for the proofs.

## The system

One browser thread runs everything. An exported call, or a task of the browser
(an event of a socket, a timeout), runs to its end before the next begins.
What makes the code hard is what happens between tasks: events of a socket
that has been replaced, timeouts armed for a situation that is gone, requests
whose outcome is known late, promises that are half way. There are two places where a handler of `websocket.rs` calls the
application half way through, and one where a record is half delivered (below,
*re-entrancy*).

| Component | State | Operations | Interacts with |
|---|---|---|---|
| `WsConnection` (`websocket.rs`) | `WsConnectionInner`: the socket, the state reported, attempts, the timeout's handle, two flags, the messages to replay, the callbacks | connect, disconnect, set_auto_reconnect, set_max_reconnect_attempts, send; onopen, onmessage, onerror, onclose; the reconnect timeout | the browser's sockets and timeouts; calls the application back |
| `StreamlineClient` (`lib.rs`) | its connection | produce, subscribe, unsubscribe, admin requests | registers Subscribe frames and topic callbacks with its connection; sends requests, which nothing keeps |
| `Producer` (`lib.rs`) | batch, counts, transaction buffer | send, flush, begin / commit / abort, disconnect | its own connection, by `send_message` |
| `Consumer` (`lib.rs`) | current offset, shared with the message closure | start, stop, seek, advance_offset, search, (commit: refused) | its own connection; one subscription; one fetch for a search |
| `TopicAdmin` (`lib.rs`) | its connection | create, delete, list topics, on_response | hears the answers by the fallback callback of its connection |
| `CircuitBreaker` (`circuit_breaker.rs`) | state, three counts, time of the last failure | allow, record_success, record_failure, state, reset | the application's requests |
| Telemetry (`telemetry.rs`) | whether it is enabled | start a span of three operations, end it, end it with an error; strings of traceparent | the console's timers and the Performance API's marks, which are the page's and found by name |
| HTTP clients (`admin.rs`, `schema_registry.rs`, `moonshot.rs`) | URL, token | one fetch for each call; validate_json | `fetch()`; the application's promises, several at a time |
| Data (`protocol.rs`, `validation.rs`, `error.rs`) | - | frames, topic names, errors | used by all |

What makes each of them correct:

- **WsConnection**: it never has two live sockets, nor one that nobody can
  close; it never has a timeout that it could not cancel; after `disconnect()`
  it stays down; the state it reports is what its socket does; a loss is
  retried, within the limit, or reported; retrying comes to an end.
- **StreamlineClient**: on whatever socket is open, the broker has been asked
  for exactly the topics the application is subscribed to; a record reaches
  the callback of its own topic, and only while it is subscribed.
- **TopicAdmin**: a request the broker received is answered to the callback, or
  its socket ends.
- **Producer**: a record is sent once, in order, or still waiting, whatever
  fails; transactions are all or nothing for the sender; the error of `send()`
  tells whether the record was kept.
- **CircuitBreaker**: it opens and closes on the thresholds that were asked
  for, lets a limited number of probes through, and gets out of Open and of
  HalfOpen.
- **Consumer**: the offset moves with the records of the
  subscription in force, and the record after a seek is the one sought (which
  the code does not keep: finding 4).
- **HTTP clients**: a request goes to the resource that was named, with the
  token of the client; a method that succeeds has done, or read, what it says.
- **Telemetry**: a span is measured from its own start, and leaves no timer.

`PROJECT.json` lists the components with their status, the hazards with their
lines and the properties that cover them, and, under `map`, the lines of code
every definition stands for.

## Modules

| Module | Models | Extends |
|---|---|---|
| `WsConnection` | `websocket.rs` without the registry of subscriptions | - |
| `ReconnectContract` | nothing in the code: what a connection promises, with no sockets or timeouts | - |
| `StreamlineClient` | `StreamlineClient` and `TopicAdmin` of `lib.rs`, the registry of `websocket.rs`, the frames of `protocol.rs`, and the broker's view of them | `WsConnection` |
| `CircuitBreaker` | `circuit_breaker.rs` and the requests of an application that uses it | - |
| `Errors` | the codes and constructors of `error.rs` | - |
| `Outbox` | nothing in the code: what a producer promises, with no batches or flushes | - |
| `Producer` | the `Producer` of `lib.rs` | `Errors` |
| `Consumer` | the `Consumer` of `lib.rs` | `ReconnectContract` |
| `TopicName` | `validation.rs`, and what becomes of a name in a URL | - |
| `JsonValidation` | `basic_json_validate` of `schema_registry.rs`, and what JSON Schema says | - |
| `HttpOperations` | what each async method of the HTTP clients asks for | - |
| `HttpClient` | those methods, from the call to the result | `TopicName`, `JsonValidation`, `HttpOperations` |
| `Telemetry` | `telemetry.rs` over the page's timers and marks | - |
| `MC...` | symmetry sets and values for TLC | the module of that name |
| `WsConnection_proofs` | theorems about `WsConnection` | `WsConnection` |
| `WsContract_proofs` | `WsConnection` implements the safety part of `ReconnectContract` | `WsConnection_proofs` |
| `StreamlineClient_proofs` | theorems about `StreamlineClient`, and that it implements `WsConnection` | `StreamlineClient`, `WsContract_proofs` |
| `CircuitBreaker_proofs`, `Producer_proofs`, `Consumer_proofs`, `HttpClient_proofs`, `Telemetry_proofs` | theorems about them | the module of that name |

In the modules, an operator just before a definition of the code's that no
specification uses (`IsCurrentUnchecked` before `IsCurrent`, `MarkOnce` before
`MarkStart`) is a mutated form of it, what a plausible mistake would make of
that line: put in the place of the right one it makes the property that
guards that line fail (`mutants` in `PROJECT.json`).

### WsConnection

Variables `state`, `ws`, `attempts`, `maxAttempts`, `timerId`, `auto` and
`intentional` are the fields of `WsConnectionInner`. `alive` is whether the
weak reference every closure holds still upgrades, that is, whether JavaScript
has not called `free()`. `rs` and `timers` are the browser's: the `readyState`
of each socket, and the timeouts that have neither fired nor been cleared.
`gaveUp` records that `on_reconnect_failed` was called.

| Action | Code |
|---|---|
| `ConnectNoop`, `ConnectStarted`, `ConnectRefused` | `connect()`: with a live socket, with a new one, with `WebSocket::new` throwing |
| `Disconnect`, `EnableAuto`, `DisableAuto`, `SetMax`, `Free` | the other calls |
| `OpenEvent`, `LateOpenEvent`, `CloseEvent` | onopen, onclose, each with the guard that the socket is the current one |
| `PeerCloses` | the closing handshake begins: `readyState` changes before the close event comes |
| `ScheduleReconnect`, then `ArmTimer` or `ArmFails` | `schedule_reconnect` before and after its callback |
| `FailReconnect`, then `ReportFailure` | `fail_reconnect` before and after its callback: the state is reported, then `on_reconnect_failed` is called |
| `TimerReconnects`, `TimerRefused`, `TimerIgnored` | the closure of the reconnect timeout |

*Sockets.* A socket name is free again once its close event has been
dispatched; until then its events can still come, also after it was replaced.
A socket closed while it was connecting ("ABORTING") may still dispatch an
open event, if that task was already queued when `close()` was called.

*Re-entrancy.* `schedule_reconnect` runs in a browser task. It sets the state
to Reconnecting, which calls the application's `on_state_change`, and only
then arms the timeout (`phase = "arming"`). `fail_reconnect`, which it calls when
no attempt is left or there is no timer, sets the state to Disconnected, which
calls `on_state_change` again, and only then calls `on_reconnect_failed`
(`phase = "failing"`). No wasm-bindgen borrow is held in a browser task, so that
the application may call any method from either. A callback made by an API call
(`connect()` sets Connecting, `disconnect()` sets Disconnected) is another
matter: the call holds `&mut self` and the generated bindings throw on a second
use. The callbacks at the very end of a task (Connected in onopen, Disconnected
in an intended onclose and in a timeout that is not wanted, `on_reconnect_failed`
itself) need no phase: a call made there is one made just after the task.
CONSTANT `CallbackApi` names the calls made from the two callbacks; `{}` is an
application that makes none.

*The counter.* `reconnect_attempts` has no bound when the limit is 0. The model
counts to `AttemptLimit`, at least as large as any limit that is set, and then
alternates between `AttemptLimit` and `AttemptLimit + 1`: every comparison comes
out as in the code, and a retry still changes the counter. Delays are not
modelled: a timeout may fire at any moment after it was armed.

`ReconnectContract` knows of the link only that it is up, coming up, closing or
down, what the connection reports, whether the application has hung up or
abandoned the object, and whether a retry is due. Its steps say what a link may
do: it is lost only if it was there; a loss that is not hung up is followed by
a retry or by giving up, never by silence; nothing but the application
leaves Disconnected. `Contract` in `WsConnection` is the refinement mapping: the
link is what the current socket is, and without one it is waiting when the state
reported is Reconnecting, down otherwise.

### StreamlineClient

Extends `WsConnection`, and every step of it is taken here together with what
it does to `persistent_messages` and `topic_callbacks`: `disconnect()` clears
both, onopen replays, the others leave them alone. So each behaviour of the
client is one of the connection (`ClientIsAConnection`). `owner` is whose
connection it is: a `StreamlineClient` subscribes and has no `on_message`, a
`TopicAdmin` may set it by `on_response` and has neither subscriptions nor the
two setters. `asked` and `unanswered` are what the broker has been asked for on
each socket, `inbox` the frames on their way. Subscribe and Unsubscribe
frames are taken to arrive; what is in doubt is whether and on which socket
they are sent. `wanted` is the ghost that the properties compare with: topics
whose `subscribe()` returned Ok, not unsubscribed nor disconnected since.
A callback is named by the topic it was passed for, and `heard` is the one the
last task called. Messages are dispatched only while the socket is OPEN, as the
WebSocket standard has it, so those left when a socket closes are dropped.

| Action | Code |
|---|---|
| `SubscribeNow`, `SubscribeLater`, `SubscribeNotConnected` | `subscribe()`, by what `send_persistent_when_ready` finds |
| `Unsubscribe`, `Produce`, `AdminAction`, `OnResponse` | the calls of those names; a request without an open socket is refused and changes nothing |
| `ClientDisconnect`, `ClientOpens`, `ClientCloses`, `ClientPeerCloses`, `OtherStep` | the connection's own steps, with the registry |
| `ServerSends`, `ServerAnswers` | external: the broker |
| `Message` | onmessage: the callback of the frame's topic, or else `on_message` |

`send()` may throw on an open socket, in `subscribe`, `unsubscribe` and the
replay. No browser does so for a text frame, and the code only logs it in the
replay; `sendFailed` remembers it, and the properties about broker and client
agreeing except it. `ReplayHasItsCallback` does not.

### CircuitBreaker

The fields and `age`, the ticks since `last_failure_at`. `flying` counts
requests whose outcome is still to come: an outcome may be recorded in any
state of the circuit, whatever it was when the request was allowed, or not be
recorded at all (`OutcomeNotRecorded`: the module's own example records nothing
for an error that is not retryable). The thresholds are computed from the
arguments as `new()` does, NaN included. Ghosts count probes, runs of
failures and of successes, and the time since the circuit opened, independently
of the code's counters.

### Producer

`open` is what `send()` asks of the connection. `wire`, `accepted` and
`committed` are ghosts: what was handed to a socket, what entered the batch, and
what belonged to a committed transaction. A call is one action, but for
`commit_transaction`, whose loop leaves by `?`: `CommitTransaction` takes the
buffer and `CommitSends` / `CommitRefused` are its turns; nothing else
happens between them. `send_keyed` differs from `send` in the key only.
`send_transactional` does not validate the topic, so a transaction may hold an
invalid one (`CommitRefused`). `SendRefused` is `send()` without a topic or with
an invalid one, which keeps nothing. The application is one that reads the
errors: `refused` holds the records whose last `send()` threw, with the error,
and `SendAgain` calls `send()` with one whose error is `retryable` in `Errors`:
that of a flush without a socket, and that of a missing topic.

`Outbox` says what is promised without the batch: items are offered in an order,
what has been delivered is the first of them, and grows only while the other
end is reachable; items that are held come out only when all that is held is
released, in their order with nothing between. It may drop the rest of a
release (finding 3), so that `CommitSendsAll` is no part of it. `Promise` in
`Producer` maps `accepted`, `wire`, the transaction buffer, what is being
committed and `open` to it.

### Consumer

The connection is `ReconnectContract`: a `Consumer` gives the application no
access to `on_state_change`, so the hypothesis of `Implements` (below) holds;
`ConsumerKeepsContract` is its side of the bargain, and what is shown over the
contract holds over the connection. `start()` is
`Request`, or nothing if the link is up or opening, and the registration of the
Subscribe frame; `stop()` is `HangUp`; the consumer does not change the limit or
turn reconnection off. `position` is what the broker sends next on the socket;
a Subscribe frame names no offset, so it starts anywhere.

*Re-entrancy.* The record callback runs within the browser task that delivers
the record and may call any method, `seek()` included. `calling` is that part of
the task: `Deliver` advances the offset and enters it, `CallbackReturns` leaves
it, and only calls of the application come between.

*Seek.* `sought` is the argument of the last `seek()` until a record is received
or none will be on that socket; `SeekIsNext` is what the documentation says of
it. Nothing in a record tells those that were on their way from those that
answer the seek frame (finding 4).

*Width.* `AsI64` is the cast of the broker's `u64`, `Successor` is `offset + 1`
as a release build computes it, which wraps (a debug build panics). From such
an offset on, until the next `seek()`, `current_offset` is promised nothing but
its type (`exact`).

### HttpClient

An async method's body runs as a task of its own, in three pieces: up to the
await of `fetch()` (`Refuse`, `Send`), up to the await of `text()` (`Served`,
`Failed`, `Page`, `NetworkFails`), and the rest (`Read`). `call` holds the
promises the application has, several at a time. The wrapper is borrowed when
the body first runs, not when the method is called, and to its end:
`SetAuthToken`, which takes `&mut self`, throws while a call waits (`Borrowed`),
and before the body of a call has begun it succeeds, and that call carries the new
token. `AdminClient::health` makes `false` of every error (`Failure`). `HttpOperations` is the table of what the methods differ in: the
resource, where the name argument goes, what is checked before sending, whether
the server is changed, and what the response is parsed into, with the fields
that must be there. Of a URL there remains whether it is that of the resource
named (`"own"`) or of another: `OwnSegment` is the URL parser's treatment of
empty and dot segments, `EncodedSegment` the percent-encoding, which
`Consumer::search` leaves out. The server may act and yet answer with an error
or not at all (`applied`); what stands between may answer with a page of its own
and status 200 (`Page`). Of a response there remains whether it is what was
asked for, some other JSON object, or not JSON.

`validate_json` is synchronous and pure: `verdict` is the last answer. A schema
is the names in its `type`, whether they are a list, and its required fields:
`as_str()` finds no type in a list, not even of one, and then anything is
accepted.

### Telemetry

`timer` and `mark` are the page's tables, by label: a timer that is running is
not started again, a measure takes the latest mark of its name. Time is the
number of spans started, so that "when a mark was made" tells the spans apart.
`span` is what the application holds; it passes a span to `end_span()` by value,
so it can end it once. `alone` and `overtaken` are history, of what happened
to other spans of the same label.

## Runs

| Run | Instance | What it shows |
|---|---|---|
| `ws_reports` | 3 sockets, 2 timeouts, limits 0, 1, 2, every call but `connect()` from the two callbacks | the state reported is what the socket does (`StateMatchesSocket`); giving up is final (`GivingUpIsFinal`); the connection implements `ReconnectContract` with its fairness (`KeepsContract`); reconnecting ends (`ReconnectingEnds`) |
| `ws_stranded` | 3 sockets, 2 timeouts, `connect()` from the callbacks | finding 1 |
| `client_subscriptions` | 2 sockets, 2 timeouts, 2 topics, limits 0 and 1, every call from the two callbacks, `connect()` included | broker and application agree on the subscriptions (`NoLostSubscription`, `NoGhostSubscription`), records reach only their topic's callback (`RecordsReachTheirCallback`), the registry stays consistent (`ReplayHasItsCallback`); no live socket escapes (`NoOrphanSocket`), no timeout does (`TimerIsRecorded`), `disconnect()` is final (`DisconnectIsFinal`), an open socket is reported (`OpenIsConnected`), a timeout that is no longer wanted is cancelled (`UnwantedIsCancelled`) |
| `client_resumes` | 2 sockets, 1 timeout, 1 topic, limits 0 and 1, either owner, the requests produce, create_topic and list_topics | a subscribed topic is served again, or the connection says Disconnected, or it has no limit of attempts (`SubscriptionResumes`); a request is answered to the callback of its `TopicAdmin`, or its socket ends (`RequestAnswered`) |
| `cb_breaker` | thresholds 2 and the default, timeout of 2 ticks, 4 requests | the two thresholds and the limit of probes; a half-open circuit has a verdict in reach (`VerdictInReach`); an open circuit is probed (`OpenIsProbed`); probing ends (`ProbingEnds`) |
| `cb_many_probes` | success_threshold 4 | finding 2 |
| `producer_batches` | 4 records, batches of 1 to 3, send may throw, topics missing and invalid, one retry | `NothingLostOrDuplicated`; the producer implements `Outbox` (`KeepsOutbox`); a batch is full only after a failure (`FullOnlyAfterFailure`); the error of `send()` tells whether the record was kept (`ErrorTellsWhatIsKept`); `TransactionIsolated` |
| `producer_commit` | 3 records, batches of 2 | finding 3 |
| `consumer_offsets` | 5 records, 2 in flight, integers of 3 bits | `NotBehind` and `NotAhead`: the offset follows the records delivered, through redelivery and calls from the callback; every socket that opens has the subscription (`SubscribedWhenUp`) |
| `consumer_seek` | 2 records, 2 in flight | finding 4 |
| `http_calls` | each client in turn, two calls at a time, two tokens, names at the edges | `TokenOfTheClient`, `AddressesItsResource`, `OkMeansDone`, `ReadsWhatItNamed`; `validate_json` against JSON Schema (`JsonVerdict`) |
| `telemetry_spans` | 2 topics, 2 spans at a time, 3 in all | `MeasuredFromOwnStart`, `TimedFromOwnStart`, `NoLeakedTimer` |

No type invariant is among them: each is part of an inductive invariant that is
proved (below).

*Why the bounds are enough.* Three sockets are the current one, one that it
replaced and one replaced before that: the handlers tell only the current
socket from the others, so a fourth would behave like the second and third. The
clients' runs have two, the current one and one that it replaced; what they show
of sockets and timeouts is proved for any number.
Two timeouts are one more than the invariant allows. Limits 0, 1 and 2 are no
limit, the first retry being the last, and not; the limit of 5 the connection
starts with is there too. Two topics show whether one subscription touches
another. Four concurrent requests are one more than the three probes. Four
records fill a batch of three and leave one. Five offsets are three ordinary
ones, the largest `i64` and one beyond; two records in flight can be on either
side of a `seek()`; for finding 4 a topic of two records is enough. Two promises are one that waits and one that is made,
or ends, meanwhile; the names are empty, `..`, one with a slash, and one of
each length about the limit; the schemas have up to two types, lists of one among them, and two required
fields.
Three spans are one ended and two that overlap, on the same label or not;
two handles suffice, for a span that is overtaken by two is no different. One
topic suffices for `client_resumes`, whose properties are about one topic, and
more would make the liveness check too long; `client_subscriptions` has two and
leaves the requests out, which touch no subscription. Symmetry is used for
safety only.
The system may really stop (an application that calls nothing more), so the
connection's and the client's runs do not look for deadlock; the others do
where the model allows it.

*Fairness.* For the connection: a running handler returns (`Resume`), a timeout
that was armed fires, a socket that is connecting opens or closes, a socket that
is closing closes. For the client also: a frame that has arrived on a socket that
stays open is dispatched (`Delivery`). That is what a browser does; nothing is
assumed of the application, and an open socket need never close. That the
broker answers what it was asked (`BrokerAnswers`) is an assumption about the
broker, needed by `RequestAnswered` only. For the breaker: requests
end (`Outcome`), the application keeps asking `allow()` (`Allow`), and time
passes (`Tick`). Each is a weak fairness.

## Findings

1. `connect()` called from inside `on_state_change("Reconnecting")`:
   `schedule_reconnect` arms its timeout all the same (`websocket.rs` 544-609). If
   the new socket is then lost before that timeout fires, the loss is ignored for
   `timer_pending` (line 515), and the timeout finds the state is not
   Reconnecting. The connection stays Connecting or Connected with neither a
   socket nor a timeout. No other call from inside a callback does this, nor any
   call from elsewhere (`OnlyConnectStrands`).
2. `half_open_count` is never given back, and `half_open_max_requests` is 3: with
   `success_threshold` above 3 a half-open circuit refuses everything until
   `reset()`. Outcomes that are not recorded use the probes up in the same way;
   `ProbingEnds` excepts that case. Those two are the only ways into that state
   (`VerdictReachable`), and `reset()` the only way out (`StuckIsForGood`).
3. `commit_transaction` gives up at the first error with the transaction
   already closed: the records after it are gone. Called on an open socket, with
   valid topics and a `send()` that does not throw, it sends everything
   (`CommitComplete`).
4. `seek()` sends its frame and sets `current_offset` (`lib.rs` 602-614), and does
   nothing about the records already on their way. "The next message received
   will be from this offset" (`lib.rs` 601) is then not so: the shortest run is
   one record in flight, and `seek()`.

Seen on the way, and either beyond what the repository's documents promise or
excepted by name in a property, so that no run shows them:

- `connect()` called from inside the `on_state_change("Disconnected")` of
  `fail_reconnect` (`websocket.rs` 625): `on_reconnect_failed` is called all the
  same, of a connection that is Connecting and has a live socket. The application
  of `README.md` 55-65, which rejects its promise there, would give up one that
  may succeed. `GivingUpIsFinal` excepts that call.
- `disconnect()` or `set_auto_reconnect(false)` called from the Reconnecting
  callback find no timeout to cancel, and it is armed after them (it does no harm
  when it fires: `DisconnectIsFinal`); `ws_reports` makes those calls, and its
  properties hold. `set_auto_reconnect(false)` while the
  socket of a retry is connecting reports Disconnected (`websocket.rs` 98), and
  Connected follows with no `connect()`.
- A failure recorded while the circuit is open restarts the open timeout.
  `new CircuitBreaker(1, 1)`: the missing `open_timeout_ms` arrives as NaN,
  which `<= 0.0` (`circuit_breaker.rs` 84) does not catch; the circuit stays open
  until `reset()`. `OpenIsProbed` excepts it.
- `send()` keeps its record when the flush it makes fails, and keeps nothing if it
  has no topic, and both errors are `retryable` (`lib.rs` 240, `error.rs`
  117-124): an application that trusts the flag sends a record twice in the first
  case. The code of the error tells the two apart (`ErrorTellsWhatIsKept`).
- A record on its way at a `seek()` whose offset is not below the one sought
  leaves `current_offset` behind itself, where it stays while the records sought
  come; it is then not "last received message offset + 1" (`lib.rs` 539). Nor is
  the seek repeated after a reconnect, as the subscription is.
- The offset of a record is cast by `as i64` (`lib.rs` 497): from 2^63 on it is
  negative, and one past the largest `i64` wraps in a release build. `NotBehind`
  and `NotAhead` except it.
- An acknowledgement that names its topic is given to that topic's record
  callback, also to one left behind by a `subscribe()` that failed. A
  `StreamlineClient` has no `on_message`: the list of topics it asked for, and the
  broker's errors, reach nobody. A request is not sent again after a lost socket.
- The HTTP clients return plain strings for errors, with no `retryable`; a
  `fetch()` has no timeout. Methods that do not validate the name
  (`delete_consumer_group`, `delete_subject` and others), given `""`, `"."` or
  `".."`, address another resource, and `Consumer::search` does not encode its
  topic: `AddressesItsResource` names both. A method that returns nothing takes
  any page with status 200 for success: `OkMeansDone` excepts it.
- `basic_json_validate` takes "integer" for "number", and accepts anything for a
  schema without a type or with a list of types, be it of one: `JsonVerdict`
  excepts them.
- `parse_traceparent` looks at the version and the number of fields only:
  `00---` is a context, where its documentation has `null` for an invalid header
  (`telemetry.rs` 220-223).

## Proofs

Every theorem holds for any value of the constants that the modules' `ASSUME`s
admit: any number of sockets and timeouts, any `CallbackApi`, any limits not
above `AttemptLimit` (at least 5, the initial limit); any arguments of
`new CircuitBreaker` and any number of requests; any batch sizes, any number of
records; any topics, owners and requests; any names, tokens and promises; any
number of spans. TLC evaluates the assumptions in the runs.

**WsConnection_proofs**

- `TypeCorrect`: the types.
- `WsInvariant`: the inductive invariant `WsInv`, that is `TypeOK`,
  `NoOrphanSocket`, `TimerIsRecorded`, `DisconnectIsFinal`, `OpenIsConnected`
  and `CallbackIsQuiet`. The last is the strengthening: while one of the two
  callbacks runs, no timeout is pending, and the only socket there can be is one
  the callback has just made. Without it `ArmTimer` could arm a second timeout. The
  other conjuncts lean on one another: that no socket is orphaned needs the
  timeout to find `ws = None`, that an open socket is reported needs the
  invariant that a disconnected connection has no socket.
- `NoOrphan`, `TimerRecorded`, `DisconnectFinal`, `OpenConnected`: its parts.
- `UnwantedCancelled`: `UnwantedIsCancelled`, for any calls from the callbacks:
  each way in which a pending timeout ceases to be wanted (`disconnect()`,
  `connect()`, `set_auto_reconnect(false)`, its own firing) clears the handle in
  the same step. `CancelStep` has one case per action, and leans on
  `TimerIsRecorded`.
- `Reported`, `GivingUp`, `OnlyConnectStrands`: if `"connect"` is not in
  `CallbackApi`, also `StateMatchesSocket`, `GivingUpIsFinal` and `NotStranded`.
  Their invariant `ReportInv` adds `RetryIsQuiet`: while a callback runs or a
  timeout is pending there is no socket, and the state is Reconnecting, or
  Disconnected if the application took the connection down from the callback or
  is being told of the failure. `connect()` is the one call that breaks it:
  finding 1, and `GivingUp` with it, as said above.
- `TimerWanted`: a timeout is pending only while it is wanted, if the callbacks
  neither connect, nor disconnect, nor set auto-reconnect. With one of the
  latter two a timeout is armed that nobody wants, and which does nothing.

**WsContract_proofs**

- `Implements`: if `"connect"` is not in `CallbackApi`, every behaviour of the
  connection is one of `ReconnectContract` without its fairness. `ContractInit`
  maps the initial states, `Simulation` each action to a step or a stutter. It
  rests on `ReportInv` and on `NotAborted`: a current socket is never one
  that was closed while connecting, so a late open event is always that of a
  socket the connection no longer has.

**StreamlineClient_proofs**

- `ClientIsAConnection`: every step of a client is a step of `WsConnection` or
  leaves its variables alone, so that `WsInv` holds here as well.
- `ClientInvariant`: `ClientInv` is `WsInv`, the types, and what makes the
  properties inductive. `RegistryAgrees`: what is wanted is registered, what is
  registered has its callback, and they are the same unless `send()` has
  thrown. `ServerAgrees`: on an open socket the broker has been asked for what is
  registered. `NothingBeforeOpen`: a socket that has not opened carries
  nothing, so that the replay starts from nothing. `RecordsAgree`: a record on
  its way is of a topic that is wanted, or has no callback any more.
  `OwnersDiffer`: the fallback callback and subscriptions are never on one
  connection. It needs that only the current socket opens (a late open event is
  for a socket that was replaced: `WsInv`). `HeardInv` is what the last task's
  callback was given.
- `NoneLost`, `NoGhosts`, `RecordsToTheirCallback`, `ReplayKeepsCallbacks`,
  `ClientTypesAreRight`: its parts.
- `ClientKeepsContract`: `Implements` through `ClientIsAConnection`.
- `NoneLeftBehind`: the two levels put together, without `connect()` from the
  callbacks: a client that is not Disconnected has exactly the wanted topics
  served on its open socket, or has them all registered for one that an event or
  a timeout is to bring. It is what there is to say of `SubscriptionResumes`
  without fairness.

**CircuitBreaker_proofs**

- `CBInvariant`: `CBTypeOK`; `CountersBelongToState`, that no count survives into
  a state it does not belong to; `CountersTellTheTruth`, the code's counters against
  the histories in the states where the code uses them, which makes the
  properties that speak of histories inductive; and `ProbesAccountedFor`, that
  every probe counted is in flight, has succeeded or went unrecorded.
- `CBTypesAreRight`, `CountersCorrect`, `AtMostThreeProbes`, `OpensOnFailures`,
  `ClosesOnSuccesses`: the bounds of the counters, the limit on probes and the
  two thresholds, the last two as action properties.
- `VerdictReachable`: from `ProbesAccountedFor`, `VerdictInReach`. `StuckIsForGood`
  is the other half: a half-open circuit without a probe to give or in flight
  stays so until `reset()`. Together they are what `ProbingEnds` depends on.

**Producer_proofs**

- `PInvariant`: `PTypeOK`, `NothingLostOrDuplicated`, `CountsWhatWasSent`,
  `FullOnlyAfterFailure`, `TransactionIsolated`, and three strengthenings:
  `CommittingIsCommitted`, without which a turn of the loop of
  `commit_transaction` could send a record of nowhere; `RefusalsAreTold`,
  which is `ErrorTellsWhatIsKept` of what was accepted, and by which calling
  `send()` again can not send a record of a transaction; and `RecordsAreMade`, by
  which no record is taken for another that was refused. The lemma
  that carries it is `SplitBatch`: a flush cuts the batch at the point where it
  stops, and the two parts make the batch again. `PushKeeps` is the same for a
  push that fills the batch, `PushIsolates` for transactions.
- `TypesAreRight`, `NothingLost`, `CountIsRight`, `FullMeansFailed`, `ErrorTells`,
  `Isolation`: its parts. `ErrorTells` needs the second besides: what was accepted
  is on the wire or in the batch, and nothing else is.
- `ProducerIsAnOutbox`: `OutboxStep` maps each action to a step of `Outbox` or a
  stutter. `WireDelivers` carries it: by `NothingLostOrDuplicated` after the step
  the wire is the first part of what was accepted, and by `FlushNeedsSocket` it
  grew over an open socket only.
- `CommitComplete`: `CommitSendsAll`, which fails in general, holds of every
  behaviour in which `commit_transaction` is called on an open socket only, if
  `send()` does not throw there and no topic is invalid. `CommitInv`: what was
  committed has been accepted or is still to be sent.

**Consumer_proofs**

- `ConsumerInvariant`: `ConsumerTypeOK`, `NotBehind`, `NotAhead`,
  `SubscribedWhenUp`, and `StartedIsRegistered`, on which the replay depends.
  `AdvanceKeeps` is the lemma that carries it: an advance to an offset below the
  largest `i64` passes it and goes back behind nothing.
- `OffsetNeverBehind`, `OffsetNeverAhead`, `Subscribed`: its parts.
- `NoneGoesBack`: as an action property, nothing but `seek()` sets
  `current_offset` back (below the largest `i64`).
- `ConsumerKeepsContract`: every step is one `ReconnectContract` allows, or none of
  its concern.

**HttpClient_proofs**

- `HttpInvariant`: `HttpInv`, which says of each promise by itself
  (`PromiseInv`) what every phase has fixed: where the request goes
  (`Addressed`), what a response read so far can be (`Answered`), and that a result
  of Ok was parsed from it. The promises share the token only, and it
  cannot change while one of them is borrowed.
- `HttpTypes`, `TokenIsCurrent`, `ResourceIsOwn`, `OkIsDone`, `ReadIsNamed`: its
  parts. `ReadIsNamed` also needs the table: every method that reads a named
  resource parses a response that has fields which must be there.
- `VerdictIsRight`: `JsonVerdict`, for any schemas and values over the types of
  JSON (`JsonAssumption`), by what `as_str()` finds: with a type by itself
  (`StringIsOneType`), `basic_json_validate` and JSON Schema agree type by type but for "integer"
  (`OneTypeAgrees`); with none or a list everything is accepted
  (`OthersAccepted`).

**Telemetry_proofs**

- `SpansInvariant`: the latest mark of a span's label is its own until it is
  overtaken (`MarksAreOwn`), the timer of a span that is alone is its own
  (`TimersAreOwn`), and a span that is alone has no other beside it
  (`AloneMeansAlone`).
- `Measured`, `Timed`, `NoTimerLeaks`: from it, and from what a
  step reports.

Model-checked only: the liveness properties (`ReconnectingEnds`,
`SubscriptionResumes`, `RequestAnswered`, `ProbingEnds`, `OpenIsProbed`) and the
fairness of `KeepsContract`, which need ENABLED and are out of the prover's
reach. `NotStranded` and `CommitSendsAll` fail as they stand; the theorems above
say under which conditions they hold. `SeekIsNext` fails as soon as a record is on
its way. Every other property of the runs is stated by a theorem.

## Not modelled

- Delays (exponential backoff) and `linger`: no property depends on them; a
  timeout may fire at any moment.
- The text of messages, JSON, error values and hints; binary frames, which
  `onmessage` ignores; `last_state_change` of the breaker, which is never read.
- Logging, and the performance entries themselves; `generate_traceparent` and
  `parse_traceparent`, which are functions of strings and change nothing.
- A `Consumer`'s `seek()` or `stop()` while `search()` waits: the bindings throw,
  as they do for `set_auth_token`, which `HttpClient` has.
- The demo, the examples, scripts and build files; `serde`, `web_sys` and `wasm_bindgen`
  appear by what the code counts on.

## Plan

What is written was written in this order: the connection, the client over it,
breaker, producer, consumer, then the HTTP clients and telemetry, each with its
proofs after its runs. What would come next:

1. `Producer` over `WsConnection`: the same records through real sockets, with
   `Producer`'s own specification as the abstract one and `open` mapped to the
   current socket being OPEN, and the proof that it implements it.
2. `Consumer` with `search()` under way, and the borrow both share.
3. The connection with `connect()` called from the callback against a contract of
   its own, weaker than `ReconnectContract` by finding 1.
