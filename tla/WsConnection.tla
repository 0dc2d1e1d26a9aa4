--------------------------- MODULE WsConnection ---------------------------
(***************************************************************************)
(* The reconnecting WebSocket manager of src/websocket.rs: the fields of   *)
(* WsConnectionInner, the exported calls that change them, the four        *)
(* browser events each socket is wired to, and the reconnect timer.        *)
(*                                                                         *)
(* One thread runs everything: an API call or a browser task runs to its   *)
(* end before the next one starts, so an action is one of them.  The       *)
(* exceptions are the two places where a browser task calls the            *)
(* application back (its on_state_change) and still has something to do:   *)
(* schedule_reconnect says "Reconnecting" before it arms the timer (phase  *)
(* = "arming"), and fail_reconnect says "Disconnected" before it calls     *)
(* on_reconnect_failed (phase = "failing").  There the handler is two      *)
(* actions, and between them the application may make the calls named in   *)
(* CallbackApi.  From a callback that an API call makes it may not: the    *)
(* call holds &mut self, and wasm-bindgen refuses a second use of a        *)
(* borrowed object.                                                        *)
(***************************************************************************)
EXTENDS Naturals, FiniteSets

CONSTANTS
    Sockets,       \* the sockets the browser can hold at one time
    Timers,        \* the browser's timeout handles
    NoSocket,      \* ws = None
    NoTimer,       \* reconnect_timer_id = None
    MaxChoices,    \* arguments of set_max_reconnect_attempts; 0 is "no limit"
    AttemptLimit,  \* reconnect_attempts is told apart up to this bound
    CallbackApi    \* the calls on_state_change makes from inside such a task

ApiCalls == {"connect", "disconnect", "set_auto_reconnect",
             "set_max_reconnect_attempts", "subscribe", "unsubscribe", "free"}

ASSUME NamesAssumption == NoSocket \notin Sockets /\ NoTimer \notin Timers
ASSUME BoundAssumption ==
    /\ MaxChoices \subseteq Nat
    /\ AttemptLimit \in Nat /\ AttemptLimit >= 5
    /\ \A m \in MaxChoices : m <= AttemptLimit
ASSUME CallbackAssumption == CallbackApi \subseteq ApiCalls

VARIABLES
    state,         \* ConnectionState
    ws,            \* the current socket
    attempts,      \* reconnect_attempts
    maxAttempts,   \* max_reconnect_attempts
    timerId,       \* reconnect_timer_id
    auto,          \* auto_reconnect
    intentional,   \* intentional_disconnect
    alive,         \* the JS wrapper has not been freed: weak.upgrade() succeeds
    phase,         \* in the callback of schedule_reconnect ("arming") or of
                   \* fail_reconnect ("failing"), or between tasks ("idle")
    gaveUp,        \* history: on_reconnect_failed was called, no connect() since
    rs,            \* browser: readyState of each socket
    timers         \* browser: timeouts that have not fired nor been cleared

inner   == <<state, ws, attempts, maxAttempts, timerId, auto, intentional, gaveUp>>
browser == <<rs, timers>>
vars    == <<inner, alive, phase, browser>>

ConnectionState == {"Disconnected", "Connecting", "Connected", "Reconnecting"}

\* "none": no such socket (not created yet, or its close event has fired and
\* nothing refers to it, so the name may be used again).  Both "CLOSING" and
\* "ABORTING" are readyState CLOSING; "ABORTING" was closed while CONNECTING.
ReadyState == {"none", "CONNECTING", "OPEN", "CLOSING", "ABORTING"}

(***************************************************************************)
(* Helpers.  A definition with a longer name just before one of the code's *)
(* own is a mutated form of it: what a plausible mistake there would be.   *)
(* No specification uses one; they serve to see the properties fail.       *)
(***************************************************************************)
Live(s) == rs[s] \in {"CONNECTING", "OPEN"}

HasOpenSocketOnly == ws # NoSocket /\ rs[ws] = "OPEN"
HasLiveSocket == ws # NoSocket /\ Live(ws)

\* The guard of every socket handler: the closure's weak reference upgrades
\* and the socket it was installed on is still the connection's own.
IsCurrentUnchecked(s) == alive
IsCurrent(s) == alive /\ ws = s

\* An API call starts between two tasks, or inside such a callback.
MayCall(op) == alive /\ (phase = "idle" \/ op \in CallbackApi)

\* WebSocket.close() on a socket in readyState r.
Closed(r) == CASE r = "CONNECTING" -> "ABORTING"
               [] r = "OPEN"       -> "CLOSING"
               [] OTHER            -> r

\* WebSocket::new: a fresh socket starts CONNECTING, wired to the handlers.
NewSocket(s) ==
    /\ rs[s] = "none"
    /\ rs' = [rs EXCEPT ![s] = "CONNECTING"]
    /\ ws' = s

ForgetTimer == timerId' = NoTimer /\ UNCHANGED timers
CancelTimer == timerId' = NoTimer /\ timers' = timers \ {timerId}

AttemptsLeftOffByOne == maxAttempts = 0 \/ attempts <= maxAttempts
AttemptsLeft == maxAttempts = 0 \/ attempts < maxAttempts

\* From AttemptLimit on, which no limit exceeds, the counter alternates
\* between AttemptLimit and AttemptLimit + 1: every comparison with
\* max_reconnect_attempts comes out as in the code, and a retry still shows.
OneMoreAttemptUncounted == attempts
OneMoreAttempt == IF attempts <= AttemptLimit THEN attempts + 1 ELSE AttemptLimit

(***************************************************************************)
(* schedule_reconnect, and the fail_reconnect it may call, up to the       *)
(* callback.  `pending` is timer_pending.                                  *)
(***************************************************************************)
StopWithoutAuto ==
    /\ state' = "Disconnected"
    /\ UNCHANGED <<attempts, phase, gaveUp>>

FailReconnectUnreported ==
    /\ phase' = "failing"
    /\ UNCHANGED <<state, attempts, gaveUp>>
FailReconnect ==
    /\ state' = "Disconnected"
    /\ phase' = "failing"
    /\ UNCHANGED <<attempts, gaveUp>>

BeginReconnect ==
    /\ attempts' = OneMoreAttempt
    /\ state' = "Reconnecting"
    /\ phase' = "arming"
    /\ UNCHANGED gaveUp

ScheduleReconnect(pending) ==
    CASE pending                  -> UNCHANGED <<state, attempts, phase, gaveUp>>
      [] ~pending /\ (~auto \/ intentional)       -> StopWithoutAuto
      [] ~pending /\ auto /\ ~intentional /\ ~AttemptsLeft
                                  -> FailReconnect
      [] OTHER                    -> BeginReconnect

(***************************************************************************)
(* API calls                                                               *)
(***************************************************************************)
ConnectNoop ==
    /\ MayCall("connect")
    /\ HasLiveSocket
    /\ CancelTimer
    /\ UNCHANGED <<state, ws, attempts, maxAttempts, auto, intentional, gaveUp,
                   alive, phase, rs>>

ConnectRefused ==                       \* WebSocket::new throws
    /\ MayCall("connect")
    /\ ~HasLiveSocket
    /\ CancelTimer
    /\ intentional' = FALSE
    /\ state' = "Disconnected"
    /\ gaveUp' = FALSE
    /\ UNCHANGED <<ws, attempts, maxAttempts, auto, alive, phase, rs>>

\* The second check of connect() (still Connecting after the callback?)
\* always succeeds: nothing can call back into the connection there.
ConnectStarted(s) ==
    /\ MayCall("connect")
    /\ ~HasLiveSocket
    /\ CancelTimer
    /\ intentional' = FALSE
    /\ state' = "Connecting"
    /\ gaveUp' = FALSE
    /\ NewSocket(s)
    /\ UNCHANGED <<attempts, maxAttempts, auto, alive, phase>>

CloseCurrent ==
    rs' = IF ws = NoSocket THEN rs ELSE [rs EXCEPT ![ws] = Closed(@)]

Disconnect ==
    /\ MayCall("disconnect")
    /\ CancelTimer
    /\ intentional' = TRUE
    /\ attempts' = 0
    /\ ws' = NoSocket
    /\ CloseCurrent
    /\ state' = "Disconnected"
    /\ UNCHANGED <<maxAttempts, auto, gaveUp, alive, phase>>

EnableAuto ==
    /\ MayCall("set_auto_reconnect")
    /\ auto' = TRUE
    /\ UNCHANGED <<state, ws, attempts, maxAttempts, timerId, intentional,
                   gaveUp, alive, phase, browser>>

DisableAutoOnly ==
    /\ MayCall("set_auto_reconnect")
    /\ auto' = FALSE
    /\ UNCHANGED <<state, ws, attempts, maxAttempts, timerId, intentional,
                   gaveUp, alive, phase, browser>>
DisableAutoDisconnects ==
    /\ MayCall("set_auto_reconnect")
    /\ auto' = FALSE
    /\ CancelTimer
    /\ state' = "Disconnected"
    /\ UNCHANGED <<ws, attempts, maxAttempts, intentional, gaveUp, alive,
                   phase, rs>>
DisableAuto ==
    /\ MayCall("set_auto_reconnect")
    /\ auto' = FALSE
    /\ CancelTimer
    /\ state' = IF state = "Reconnecting" THEN "Disconnected" ELSE state
    /\ UNCHANGED <<ws, attempts, maxAttempts, intentional, gaveUp, alive,
                   phase, rs>>

SetMax(m) ==
    /\ MayCall("set_max_reconnect_attempts")
    /\ maxAttempts' = m
    /\ UNCHANGED <<state, ws, attempts, timerId, auto, intentional, gaveUp,
                   alive, phase, browser>>

\* The wrapper is freed: the sockets and the timeout stay with the browser,
\* and every handler that fires later finds weak.upgrade() = None.
Free ==
    /\ MayCall("free")
    /\ alive' = FALSE
    /\ UNCHANGED <<inner, phase, browser>>

(***************************************************************************)
(* Browser tasks                                                           *)
(***************************************************************************)
OnOpen(s) ==
    IF IsCurrent(s) /\ ~intentional
      THEN /\ state' = "Connected"
           /\ attempts' = 0
           /\ gaveUp' = FALSE
      ELSE UNCHANGED <<state, attempts, gaveUp>>

OpenEvent(s) ==
    /\ phase = "idle"
    /\ rs[s] = "CONNECTING"
    /\ rs' = [rs EXCEPT ![s] = "OPEN"]
    /\ OnOpen(s)
    /\ UNCHANGED <<ws, maxAttempts, timerId, auto, intentional, alive, phase, timers>>

\* The open task was queued before close(): it still fires on the dead socket.
LateOpenEvent(s) ==
    /\ phase = "idle"
    /\ rs[s] = "ABORTING"
    /\ rs' = [rs EXCEPT ![s] = "CLOSING"]
    /\ OnOpen(s)
    /\ UNCHANGED <<ws, maxAttempts, timerId, auto, intentional, alive, phase, timers>>

\* The peer starts the closing handshake: readyState changes, no event yet.
PeerCloses(s) ==
    /\ phase = "idle"
    /\ rs[s] = "OPEN"
    /\ rs' = [rs EXCEPT ![s] = "CLOSING"]
    /\ UNCHANGED <<inner, alive, phase, timers>>

OnClose(s) ==
    IF ~IsCurrent(s)
      THEN UNCHANGED <<state, ws, attempts, phase, gaveUp>>
      ELSE /\ ws' = NoSocket
           /\ IF intentional
                THEN /\ state' = "Disconnected"
                     /\ UNCHANGED <<attempts, phase, gaveUp>>
                ELSE ScheduleReconnect(timerId # NoTimer)

\* A refused handshake, a lost connection or the end of the closing handshake.
CloseEvent(s) ==
    /\ phase = "idle"
    /\ rs[s] # "none"
    /\ rs' = [rs EXCEPT ![s] = "none"]
    /\ OnClose(s)
    /\ UNCHANGED <<maxAttempts, timerId, auto, intentional, alive, timers>>

(***************************************************************************)
(* schedule_reconnect and fail_reconnect after the callback, and the timer *)
(* the first one arms.                                                     *)
(***************************************************************************)
ArmTimer(t) ==
    /\ phase = "arming"
    /\ t \notin timers
    /\ timers' = timers \union {t}
    /\ timerId' = t
    /\ phase' = "idle"
    /\ UNCHANGED <<state, ws, attempts, maxAttempts, auto, intentional, gaveUp,
                   alive, rs>>

ArmFails ==                         \* no window (a worker), or setTimeout throws
    /\ phase = "arming"
    /\ FailReconnect
    /\ UNCHANGED <<ws, maxAttempts, timerId, auto, intentional, alive, browser>>

\* on_reconnect_failed is called, whatever the callback before it has done.
ReportFailure ==
    /\ phase = "failing"
    /\ gaveUp' = TRUE
    /\ phase' = "idle"
    /\ UNCHANGED <<state, ws, attempts, maxAttempts, timerId, auto, intentional,
                   alive, browser>>

Waiting == state = "Reconnecting" /\ ws = NoSocket

ShouldContinueAlways == auto
ShouldContinue == auto /\ ~intentional /\ Waiting

TimerFired(t) ==
    /\ phase = "idle"
    /\ t \in timers
    /\ timers' = timers \ {t}
    /\ timerId' = IF alive THEN NoTimer ELSE timerId

TimerIgnored(t) ==
    /\ TimerFired(t)
    /\ ~alive \/ ~ShouldContinue
    /\ state' = IF alive /\ Waiting THEN "Disconnected" ELSE state
    /\ UNCHANGED <<ws, attempts, maxAttempts, auto, intentional, gaveUp, alive,
                   phase, rs>>

TimerReconnects(t, s) ==
    /\ alive /\ ShouldContinue
    /\ TimerFired(t)
    /\ NewSocket(s)
    /\ UNCHANGED <<state, attempts, maxAttempts, auto, intentional, gaveUp,
                   alive, phase>>

TimerRefused(t) ==                      \* WebSocket::new throws
    /\ alive /\ ShouldContinue
    /\ TimerFired(t)
    /\ ScheduleReconnect(FALSE)
    /\ UNCHANGED <<ws, maxAttempts, auto, intentional, alive, rs>>

(***************************************************************************)
(* The specification                                                       *)
(***************************************************************************)
Init ==
    /\ state = "Disconnected"
    /\ ws = NoSocket
    /\ attempts = 0
    /\ maxAttempts = 5
    /\ timerId = NoTimer
    /\ auto = TRUE
    /\ intentional = FALSE
    /\ gaveUp = FALSE
    /\ alive = TRUE
    /\ phase = "idle"
    /\ rs = [s \in Sockets |-> "none"]
    /\ timers = {}

Call ==
    \/ ConnectNoop
    \/ ConnectRefused
    \/ \E s \in Sockets : ConnectStarted(s)
    \/ Disconnect
    \/ EnableAuto
    \/ DisableAuto
    \/ \E m \in MaxChoices : SetMax(m)
    \/ Free

TimerTask(t) ==
    \/ TimerIgnored(t)
    \/ \E s \in Sockets : TimerReconnects(t, s)
    \/ TimerRefused(t)

Resume == ArmFails \/ ReportFailure \/ \E t \in Timers : ArmTimer(t)

Next ==
    \/ Call
    \/ \E s \in Sockets : \/ OpenEvent(s)
                          \/ LateOpenEvent(s)
                          \/ PeerCloses(s)
                          \/ CloseEvent(s)
    \/ Resume
    \/ \E t \in Timers : TimerTask(t)

Spec == Init /\ [][Next]_vars

\* The browser finishes what it has begun: a running handler returns, a
\* timeout fires, a handshake ends one way or the other, a socket that is
\* closing closes.  Nothing is assumed of the application or of an open
\* socket.
Settles(s) == (rs[s] = "CONNECTING" /\ (OpenEvent(s) \/ CloseEvent(s)))
              \/ (rs[s] \in {"CLOSING", "ABORTING"} /\ CloseEvent(s))

Fairness ==
    /\ WF_vars(Resume)
    /\ \A t \in Timers : WF_vars(TimerTask(t))
    /\ \A s \in Sockets : WF_vars(Settles(s))

FairSpec == Spec /\ Fairness

(***************************************************************************)
(* Properties                                                              *)
(***************************************************************************)
\* The type of every variable (WsConnectionInner and the browser's side).
TypeOK ==
    /\ state \in ConnectionState
    /\ ws \in Sockets \union {NoSocket}
    /\ attempts \in 0 .. (AttemptLimit + 1)
    /\ maxAttempts \in Nat /\ maxAttempts <= AttemptLimit
    /\ timerId \in Timers \union {NoTimer}
    /\ auto \in BOOLEAN
    /\ intentional \in BOOLEAN
    /\ gaveUp \in BOOLEAN
    /\ alive \in BOOLEAN
    /\ phase \in {"idle", "arming", "failing"}
    /\ rs \in [Sockets -> ReadyState]
    /\ timers \subseteq Timers

\* The connection holds the one socket that can still carry traffic: no call,
\* event or timer leaves a connecting or open socket behind that
\* disconnect() could not close (connect, onclose, the timer).
NoOrphanSocket == alive => \A s \in Sockets : Live(s) => ws = s

\* The browser has a pending reconnect timeout exactly when the connection
\* remembers its handle: cancel_reconnect_timer always cancels the real one,
\* and two of them never race.
TimerIsRecorded ==
    /\ timers \subseteq {timerId}
    /\ alive /\ timerId # NoTimer => timerId \in timers

\* After disconnect(), whatever is still in flight (late open, close events,
\* a timeout), the connection stays down until connect() is called.
DisconnectIsFinal == intentional => ws = NoSocket /\ state = "Disconnected"

\* An open current socket is always reported as Connected, so is_connected()
\* and send() agree.
OpenIsConnected ==
    alive /\ ws # NoSocket /\ rs[ws] = "OPEN" => state = "Connected"

\* The reported state tells what the connection is really doing.
StateMatchesSocket ==
    alive /\ phase = "idle" =>
        /\ state = "Connected"  => ws # NoSocket /\ rs[ws] \in {"OPEN", "CLOSING"}
        /\ state = "Connecting" => ws # NoSocket /\ rs[ws] = "CONNECTING"
        /\ state = "Reconnecting" =>
              IF ws = NoSocket THEN timerId # NoTimer ELSE rs[ws] = "CONNECTING"

\* What the timeout that is pending is for.
RetryWanted == Waiting /\ auto /\ ~intentional

\* A timeout that is waited for is cancelled by whatever makes it unwanted, be
\* it disconnect(), connect() or set_auto_reconnect(false) (CHANGELOG.md,
\* "Fixed"), or has fired itself: none goes on to fire into something else.
UnwantedIsCancelled ==
    [][alive' /\ timerId # NoTimer /\ RetryWanted /\ ~RetryWanted'
         => timerId' = NoTimer]_vars

\* Once on_reconnect_failed has been called the connection makes no further
\* attempt by itself, and is Disconnected.  It is so for an application that
\* does not call connect() from inside the two callbacks: on_state_change is
\* told "Disconnected" first, and if it connects there, on_reconnect_failed is
\* called all the same, of a connection that is Connecting (fail_reconnect).
GivingUpIsFinal ==
    alive /\ gaveUp => state = "Disconnected" /\ ws = NoSocket /\ timers = {}

\* With auto-reconnect on, a connection that is not Disconnected has something
\* that will move it on: a socket (whose event comes) or a timeout.  Otherwise
\* it would wait for ever, never reconnecting and never reporting a failure
\* (README.md: reconnection is triggered by any unexpected socket close).
NotStranded ==
    alive /\ phase = "idle" /\ auto /\ state # "Disconnected" =>
        ws # NoSocket \/ timerId # NoTimer

\* The refinement mapping to ReconnectContract: what the socket, or without one
\* the state reported, amounts to.
SocketLink(s) ==
    IF rs[s] = "CONNECTING" THEN "opening"
    ELSE IF rs[s] = "OPEN" THEN "up" ELSE "closing"

Link ==
    IF ~alive THEN "down"
    ELSE IF ws # NoSocket
         THEN SocketLink(ws)
         ELSE IF state = "Reconnecting" THEN "waiting" ELSE "down"

Contract == INSTANCE ReconnectContract
    WITH link <- Link, tries <- attempts, limit <- maxAttempts,
         hungUp <- intentional, owned <- alive,
         Limits <- MaxChoices, TriesLimit <- AttemptLimit

\* The sockets, events and timeouts keep the promise of ReconnectContract:
\* a loss while reconnection is wanted is retried within the limit, and no
\* retry happens after a hang-up.
KeepsContract == Contract!CSpec

\* Reconnection comes to an end: Connected again, or Disconnected after
\* max_reconnect_attempts (with a limit set).
ReconnectingEnds ==
    alive /\ state = "Reconnecting" /\ maxAttempts # 0 ~>
        ~alive \/ state # "Reconnecting" \/ maxAttempts = 0

=============================================================================
