------------------------ MODULE WsConnection_proofs ------------------------
(***************************************************************************)
(* Proofs about WsConnection, for any set of sockets and timeouts, any     *)
(* limits, and an application that makes any of the calls from inside the  *)
(* callbacks of schedule_reconnect and fail_reconnect.                     *)
(***************************************************************************)
EXTENDS WsConnection, TLAPS

\* While a handler is in its callback no timeout is pending, and the only
\* socket there can be is one the callback has just asked for.
CallbackIsQuiet ==
    phase # "idle" =>
        /\ timers = {} /\ timerId = NoTimer
        /\ ws # NoSocket => rs[ws] \notin {"OPEN", "CLOSING"}

\* The inductive invariant.
WsInv ==
    /\ TypeOK
    /\ NoOrphanSocket
    /\ TimerIsRecorded
    /\ DisconnectIsFinal
    /\ OpenIsConnected
    /\ CallbackIsQuiet

(***************************************************************************)
(* Lemmas about the handlers                                               *)
(***************************************************************************)
\* The counter of attempts stays within its bound.
LEMMA Counting ==
  ASSUME attempts \in 0 .. (AttemptLimit + 1)
  PROVE  /\ 0 \in 0 .. (AttemptLimit + 1)
         /\ OneMoreAttempt \in 0 .. (AttemptLimit + 1)
  <1>1. AttemptLimit \in Nat
    BY BoundAssumption
  <1> QED
    BY <1>1 DEF OneMoreAttempt

\* close() on the current socket, if there is one.
LEMMA CloseCurrentType ==
  ASSUME TypeOK, CloseCurrent
  PROVE  rs' \in [Sockets -> ReadyState]
  <1>1. CASE ws = NoSocket
    BY <1>1 DEF CloseCurrent, TypeOK
  <1>2. CASE ws # NoSocket
    <2>1. ws \in Sockets /\ Closed(rs[ws]) \in ReadyState
      BY <1>2 DEF TypeOK, Closed, ReadyState
    <2> QED
      BY <1>2, <2>1 DEF CloseCurrent, TypeOK
  <1> QED
    BY <1>1, <1>2

\* What schedule_reconnect leaves in the variables it sets.
LEMMA ScheduleType ==
  ASSUME TypeOK, NEW pending \in BOOLEAN, ScheduleReconnect(pending)
  PROVE  /\ state' \in ConnectionState
         /\ attempts' \in 0 .. (AttemptLimit + 1)
         /\ phase' \in {"idle", "arming", "failing"}
         /\ gaveUp' \in BOOLEAN
  <1>1. CASE UNCHANGED <<state, attempts, phase, gaveUp>>
    BY <1>1 DEF TypeOK
  <1>2. CASE StopWithoutAuto
    BY <1>2 DEF StopWithoutAuto, TypeOK, ConnectionState
  <1>3. CASE FailReconnect
    BY <1>3 DEF FailReconnect, TypeOK, ConnectionState
  <1>4. CASE BeginReconnect
    BY <1>4, Counting DEF BeginReconnect, TypeOK, ConnectionState
  <1> QED
    BY <1>1, <1>2, <1>3, <1>4 DEF ScheduleReconnect

\* What onopen leaves in the variables it sets.
LEMMA OnOpenType ==
  ASSUME TypeOK, NEW s \in Sockets, OnOpen(s)
  PROVE  /\ state' \in ConnectionState
         /\ attempts' \in 0 .. (AttemptLimit + 1)
         /\ gaveUp' \in BOOLEAN
  <1>1. CASE IsCurrent(s) /\ ~intentional
    BY <1>1, Counting DEF OnOpen, TypeOK, ConnectionState
  <1>2. CASE ~(IsCurrent(s) /\ ~intentional)
    BY <1>2 DEF OnOpen, TypeOK
  <1> QED
    BY <1>1, <1>2

\* What onclose leaves in the variables it sets.
LEMMA OnCloseType ==
  ASSUME TypeOK, NEW s \in Sockets, OnClose(s)
  PROVE  /\ state' \in ConnectionState
         /\ ws' \in Sockets \union {NoSocket}
         /\ attempts' \in 0 .. (AttemptLimit + 1)
         /\ phase' \in {"idle", "arming", "failing"}
         /\ gaveUp' \in BOOLEAN
  <1>1. CASE ~IsCurrent(s)
    BY <1>1 DEF OnClose, TypeOK
  <1>2. CASE IsCurrent(s) /\ intentional
    BY <1>2 DEF OnClose, TypeOK, ConnectionState
  <1>3. CASE IsCurrent(s) /\ ~intentional
    <2>1. ws' = NoSocket /\ ScheduleReconnect(timerId # NoTimer)
      BY <1>3 DEF OnClose
    <2> QED
      BY <2>1, ScheduleType
  <1> QED
    BY <1>1, <1>2, <1>3

(***************************************************************************)
(* Types                                                                   *)
(***************************************************************************)
\* Every step keeps the variables in their types.
LEMMA TypeStep == TypeOK /\ [Next]_vars => TypeOK'
  <1> SUFFICES ASSUME TypeOK, [Next]_vars PROVE TypeOK'
    OBVIOUS
  <1> USE DEF TypeOK, ConnectionState, ReadyState, CancelTimer
  <1>1. CASE ConnectNoop
    BY <1>1 DEF ConnectNoop
  <1>2. CASE ConnectRefused
    BY <1>2 DEF ConnectRefused
  <1>3. ASSUME NEW s \in Sockets, ConnectStarted(s) PROVE TypeOK'
    BY <1>3 DEF ConnectStarted, NewSocket
  <1>4. CASE Disconnect
    <2>1. rs' \in [Sockets -> ReadyState]
      BY <1>4, CloseCurrentType DEF Disconnect
    <2>2. attempts' \in 0 .. (AttemptLimit + 1)
      BY <1>4, Counting DEF Disconnect
    <2> QED
      BY <1>4, <2>1, <2>2 DEF Disconnect
  <1>5. CASE EnableAuto
    BY <1>5 DEF EnableAuto, browser
  <1>6. CASE DisableAuto
    BY <1>6 DEF DisableAuto
  <1>7. ASSUME NEW m \in MaxChoices, SetMax(m) PROVE TypeOK'
    BY <1>7, BoundAssumption DEF SetMax, browser
  <1>8. CASE Free
    BY <1>8 DEF Free, inner, browser
  <1>9. ASSUME NEW s \in Sockets, OpenEvent(s) PROVE TypeOK'
    BY <1>9, OnOpenType DEF OpenEvent
  <1>10. ASSUME NEW s \in Sockets, LateOpenEvent(s) PROVE TypeOK'
    BY <1>10, OnOpenType DEF LateOpenEvent
  <1>11. ASSUME NEW s \in Sockets, PeerCloses(s) PROVE TypeOK'
    BY <1>11 DEF PeerCloses, inner
  <1>12. ASSUME NEW s \in Sockets, CloseEvent(s) PROVE TypeOK'
    BY <1>12, OnCloseType DEF CloseEvent
  <1>13. CASE ArmFails
    BY <1>13 DEF ArmFails, FailReconnect, browser
  <1>14. ASSUME NEW t \in Timers, ArmTimer(t) PROVE TypeOK'
    BY <1>14 DEF ArmTimer
  <1>15. ASSUME NEW t \in Timers, TimerIgnored(t) PROVE TypeOK'
    BY <1>15 DEF TimerIgnored, TimerFired
  <1>16. ASSUME NEW t \in Timers, NEW s \in Sockets, TimerReconnects(t, s)
         PROVE  TypeOK'
    BY <1>16 DEF TimerReconnects, TimerFired, NewSocket
  <1>17. ASSUME NEW t \in Timers, TimerRefused(t) PROVE TypeOK'
    BY <1>17, ScheduleType DEF TimerRefused, TimerFired
  <1>18. CASE ReportFailure
    BY <1>18 DEF ReportFailure, browser
  <1>19. CASE UNCHANGED vars
    BY <1>19 DEF vars, inner, browser
  <1> QED
    BY <1>1, <1>2, <1>3, <1>4, <1>5, <1>6, <1>7, <1>8, <1>9, <1>10, <1>11,
       <1>12, <1>13, <1>14, <1>15, <1>16, <1>17, <1>18, <1>19
    DEF Next, Call, Resume, TimerTask

\* The constructor's values are within the bound.
LEMMA InitialAttempts == 0 \in 0 .. (AttemptLimit + 1) /\ 5 \in Nat /\ 5 <= AttemptLimit
  BY BoundAssumption

(***************************************************************************)
(* The inductive invariant                                                 *)
(***************************************************************************)
\* The initial state: no socket, no timeout, Disconnected.
LEMMA WsInit == Init => WsInv
  BY InitialAttempts
  DEF Init, WsInv, TypeOK, NoOrphanSocket, TimerIsRecorded, DisconnectIsFinal,
      OpenIsConnected, CallbackIsQuiet, ConnectionState, ReadyState, Live

\* Every step keeps the invariant.
LEMMA WsStep == WsInv /\ [Next]_vars => WsInv'
  <1> SUFFICES ASSUME WsInv, [Next]_vars PROVE WsInv'
    OBVIOUS
  <1>0. TypeOK /\ TypeOK'
    BY TypeStep DEF WsInv
  <1> DEFINE Rest == /\ NoOrphanSocket
                     /\ TimerIsRecorded
                     /\ DisconnectIsFinal
                     /\ OpenIsConnected
                     /\ CallbackIsQuiet
  <1> SUFFICES Rest'
    BY <1>0 DEF WsInv
  <1> USE <1>0, NamesAssumption
      DEF WsInv, TypeOK, ConnectionState, ReadyState, NoOrphanSocket, TimerIsRecorded, DisconnectIsFinal,
          OpenIsConnected, CallbackIsQuiet, Live, HasLiveSocket, CancelTimer
  <1>1. CASE ConnectNoop
    BY <1>1 DEF ConnectNoop
  <1>2. CASE ConnectRefused
    BY <1>2 DEF ConnectRefused
  <1>3. ASSUME NEW s \in Sockets, ConnectStarted(s) PROVE Rest'
    BY <1>3 DEF ConnectStarted, NewSocket
  <1>4. CASE Disconnect
    BY <1>4 DEF Disconnect, CloseCurrent, Closed
  <1>5. CASE EnableAuto
    BY <1>5 DEF EnableAuto, browser
  <1>6. CASE DisableAuto
    BY <1>6 DEF DisableAuto
  <1>7. ASSUME NEW m \in MaxChoices, SetMax(m) PROVE Rest'
    BY <1>7 DEF SetMax, browser
  <1>8. CASE Free
    BY <1>8 DEF Free, inner, browser
  <1>9. ASSUME NEW s \in Sockets, OpenEvent(s) PROVE Rest'
    BY <1>9 DEF OpenEvent, OnOpen, IsCurrent
  <1>10. ASSUME NEW s \in Sockets, LateOpenEvent(s) PROVE Rest'
    BY <1>10 DEF LateOpenEvent, OnOpen, IsCurrent
  <1>11. ASSUME NEW s \in Sockets, PeerCloses(s) PROVE Rest'
    BY <1>11 DEF PeerCloses, inner
  <1>12. ASSUME NEW s \in Sockets, CloseEvent(s) PROVE Rest'
    BY <1>12 DEF CloseEvent, OnClose, IsCurrent, ScheduleReconnect, StopWithoutAuto,
                 FailReconnect, BeginReconnect
  <1>13. CASE ArmFails
    BY <1>13 DEF ArmFails, FailReconnect, browser
  <1>14. ASSUME NEW t \in Timers, ArmTimer(t) PROVE Rest'
    BY <1>14 DEF ArmTimer
  <1>15. ASSUME NEW t \in Timers, TimerIgnored(t) PROVE Rest'
    BY <1>15 DEF TimerIgnored, TimerFired, Waiting
  <1>16. ASSUME NEW t \in Timers, NEW s \in Sockets, TimerReconnects(t, s)
         PROVE  Rest'
    BY <1>16 DEF TimerReconnects, TimerFired, NewSocket, ShouldContinue, Waiting
  <1>17. ASSUME NEW t \in Timers, TimerRefused(t) PROVE Rest'
    BY <1>17 DEF TimerRefused, TimerFired, ScheduleReconnect, StopWithoutAuto,
                 FailReconnect, BeginReconnect, ShouldContinue, Waiting
  <1>18. CASE ReportFailure
    BY <1>18 DEF ReportFailure, browser
  <1>19. CASE UNCHANGED vars
    BY <1>19 DEF vars, inner, browser
  <1> QED
    BY <1>1, <1>2, <1>3, <1>4, <1>5, <1>6, <1>7, <1>8, <1>9, <1>10, <1>11,
       <1>12, <1>13, <1>14, <1>15, <1>16, <1>17, <1>18, <1>19
    DEF Next, Call, Resume, TimerTask

(***************************************************************************)
(* What it implies of every execution                                      *)
(***************************************************************************)
\* The type invariant holds in every reachable state.
THEOREM TypeCorrect == Spec => []TypeOK
  <1>1. Init => TypeOK
    BY InitialAttempts DEF Init, TypeOK, ConnectionState, ReadyState
  <1> QED
    BY <1>1, TypeStep, PTL DEF Spec

\* The invariant holds in every reachable state.
THEOREM WsInvariant == Spec => []WsInv
  BY WsInit, WsStep, PTL DEF Spec

\* No call, event or timeout ever leaves a live socket that the connection
\* does not hold.
THEOREM NoOrphan == Spec => []NoOrphanSocket
  <1>1. WsInv => NoOrphanSocket
    BY DEF WsInv
  <1> QED
    BY <1>1, WsInvariant, PTL

\* The browser's pending timeout is the one the connection would cancel.
THEOREM TimerRecorded == Spec => []TimerIsRecorded
  <1>1. WsInv => TimerIsRecorded
    BY DEF WsInv
  <1> QED
    BY <1>1, WsInvariant, PTL

\* After disconnect() nothing brings the connection back but connect().
THEOREM DisconnectFinal == Spec => []DisconnectIsFinal
  <1>1. WsInv => DisconnectIsFinal
    BY DEF WsInv
  <1> QED
    BY <1>1, WsInvariant, PTL

\* An open current socket is reported as Connected.
THEOREM OpenConnected == Spec => []OpenIsConnected
  <1>1. WsInv => OpenIsConnected
    BY DEF WsInv
  <1> QED
    BY <1>1, WsInvariant, PTL

(***************************************************************************)
(* What makes a timeout unwanted cancels it                                *)
(***************************************************************************)
\* Of a step that finds a timeout pending and wanted: it is left wanted, or
\* cancelled, or it has fired.
LEMMA CancelStep ==
  ASSUME WsInv, [Next]_vars, alive', timerId # NoTimer, RetryWanted, ~RetryWanted'
  PROVE  timerId' = NoTimer
  <1>0. TypeOK /\ TimerIsRecorded /\ CallbackIsQuiet
    BY DEF WsInv
  <1>a. alive /\ phase = "idle"
    <2>1. phase = "idle"
      BY <1>0 DEF CallbackIsQuiet
    <2>2. alive' = alive \/ Free
      BY DEF Next, Call, Resume, TimerTask, ConnectNoop, ConnectRefused, ConnectStarted,
             Disconnect, EnableAuto, DisableAuto, SetMax, OpenEvent, LateOpenEvent,
             PeerCloses, CloseEvent, ArmTimer, ArmFails, ReportFailure, TimerIgnored, TimerReconnects,
             TimerRefused, vars
    <2> QED
      BY <1>0, <2>1, <2>2 DEF TypeOK, Free
  <1> USE DEF RetryWanted, Waiting
  <1>1. CASE ConnectNoop \/ ConnectRefused \/ Disconnect \/ DisableAuto
    BY <1>1 DEF ConnectNoop, ConnectRefused, Disconnect, DisableAuto, CancelTimer
  <1>2. ASSUME NEW s \in Sockets, ConnectStarted(s) PROVE timerId' = NoTimer
    BY <1>2 DEF ConnectStarted, CancelTimer
  <1>3. CASE EnableAuto \/ Free \/ \E m \in MaxChoices : SetMax(m)
    BY <1>3 DEF EnableAuto, Free, SetMax, inner
  <1>4. ASSUME NEW s \in Sockets, OpenEvent(s) \/ LateOpenEvent(s) \/ CloseEvent(s)
        PROVE  FALSE
    <2>1. ~IsCurrent(s)
      BY NamesAssumption DEF IsCurrent
    <2> QED
      BY <1>4, <2>1 DEF OpenEvent, LateOpenEvent, CloseEvent, OnOpen, OnClose
  <1>5. ASSUME NEW s \in Sockets, PeerCloses(s) PROVE FALSE
    BY <1>5 DEF PeerCloses, inner
  <1>6. CASE Resume
    BY <1>6, <1>a DEF Resume, ArmTimer, ArmFails, ReportFailure
  <1>7. ASSUME NEW t \in Timers, TimerTask(t) PROVE timerId' = NoTimer
    BY <1>7, <1>a DEF TimerTask, TimerIgnored, TimerReconnects, TimerRefused, TimerFired
  <1>8. CASE UNCHANGED vars
    BY <1>8 DEF vars, inner
  <1> QED
    BY <1>1, <1>2, <1>3, <1>4, <1>5, <1>6, <1>7, <1>8 DEF Next, Call

\* Whatever calls are made and wherever from, a timeout that is waited for
\* does not survive what makes it unwanted: disconnect(), connect() and
\* set_auto_reconnect(false) cancel it.
THEOREM UnwantedCancelled == Spec => UnwantedIsCancelled
  <1>1. WsInv /\ [Next]_vars =>
          [alive' /\ timerId # NoTimer /\ RetryWanted /\ ~RetryWanted'
             => timerId' = NoTimer]_vars
    BY CancelStep
  <1> QED
    BY <1>1, WsInvariant, PTL DEF Spec, UnwantedIsCancelled

(***************************************************************************)
(* An application that does not call connect() from inside the callbacks.  *)
(* Then what is reported is what is happening, and giving up is final.     *)
(* With such a call neither is so: connect() called in "Reconnecting" is   *)
(* the run ws_stranded, and after connect() in the "Disconnected" of       *)
(* fail_reconnect its on_reconnect_failed is called all the same.          *)
(***************************************************************************)
\* From the loss of the socket until the timeout has fired, or the failure has
\* been reported, there is no other socket; and if the application has not been
\* told that it is over, a retry is wanted.
Quiet ==
    /\ ws = NoSocket
    /\ state \in {"Reconnecting", "Disconnected"}
    /\ state = "Reconnecting" => auto /\ ~intentional

RetryIsQuiet ==
    /\ alive /\ (phase # "idle" \/ timerId # NoTimer) => Quiet
    /\ alive /\ phase # "idle" => ~gaveUp
    /\ alive /\ phase = "failing" => state = "Disconnected"

ReportInv ==
    /\ WsInv
    /\ StateMatchesSocket
    /\ GivingUpIsFinal
    /\ RetryIsQuiet

\* The initial state reports itself.
LEMMA ReportInit == Init => ReportInv
  BY WsInit
  DEF Init, ReportInv, StateMatchesSocket, GivingUpIsFinal, RetryIsQuiet

\* Every step keeps the report true.
LEMMA ReportStep ==
  ASSUME "connect" \notin CallbackApi
  PROVE  ReportInv /\ [Next]_vars => ReportInv'
  <1> SUFFICES ASSUME ReportInv, [Next]_vars PROVE ReportInv'
    OBVIOUS
  <1>0. WsInv /\ WsInv'
    BY WsStep DEF ReportInv
  <1> DEFINE Rest == /\ StateMatchesSocket
                     /\ GivingUpIsFinal
                     /\ RetryIsQuiet
  <1> SUFFICES Rest'
    BY <1>0 DEF ReportInv
  <1>a. MayCall("connect") => phase = "idle"
    BY DEF MayCall
  <1> USE <1>0, NamesAssumption
      DEF WsInv, TypeOK, ConnectionState, ReadyState, TimerIsRecorded,
          ReportInv, StateMatchesSocket, GivingUpIsFinal,
          RetryIsQuiet, Quiet, Live, HasLiveSocket, CancelTimer, Waiting
  <1>1. CASE ConnectNoop
    BY <1>1, <1>a DEF ConnectNoop
  <1>2. CASE ConnectRefused
    BY <1>2, <1>a DEF ConnectRefused
  <1>3. ASSUME NEW s \in Sockets, ConnectStarted(s) PROVE Rest'
    BY <1>3, <1>a DEF ConnectStarted, NewSocket
  <1>4. CASE Disconnect
    BY <1>4 DEF Disconnect
  <1>5. CASE EnableAuto
    BY <1>5 DEF EnableAuto, browser
  <1>6. CASE DisableAuto
    BY <1>6 DEF DisableAuto
  <1>7. ASSUME NEW m \in MaxChoices, SetMax(m) PROVE Rest'
    BY <1>7 DEF SetMax, browser
  <1>8. CASE Free
    BY <1>8 DEF Free, inner, browser
  <1>9. ASSUME NEW s \in Sockets, OpenEvent(s) PROVE Rest'
    BY <1>9 DEF OpenEvent, OnOpen, IsCurrent, DisconnectIsFinal
  <1>10. ASSUME NEW s \in Sockets, LateOpenEvent(s) PROVE Rest'
    BY <1>10 DEF LateOpenEvent, OnOpen, IsCurrent, NoOrphanSocket
  <1>11. ASSUME NEW s \in Sockets, PeerCloses(s) PROVE Rest'
    BY <1>11 DEF PeerCloses, inner, OpenIsConnected
  <1>12. ASSUME NEW s \in Sockets, CloseEvent(s) PROVE Rest'
    BY <1>12 DEF CloseEvent, OnClose, IsCurrent, ScheduleReconnect, StopWithoutAuto,
                 FailReconnect, BeginReconnect, DisconnectIsFinal
  <1>13. CASE ArmFails
    BY <1>13 DEF ArmFails, FailReconnect, browser, CallbackIsQuiet
  <1>14. ASSUME NEW t \in Timers, ArmTimer(t) PROVE Rest'
    BY <1>14 DEF ArmTimer
  <1>15. ASSUME NEW t \in Timers, TimerIgnored(t) PROVE Rest'
    BY <1>15 DEF TimerIgnored, TimerFired, ShouldContinue
  <1>16. ASSUME NEW t \in Timers, NEW s \in Sockets, TimerReconnects(t, s)
         PROVE  Rest'
    BY <1>16 DEF TimerReconnects, TimerFired, NewSocket, ShouldContinue
  <1>17. ASSUME NEW t \in Timers, TimerRefused(t) PROVE Rest'
    BY <1>17 DEF TimerRefused, TimerFired, ScheduleReconnect, StopWithoutAuto,
                 FailReconnect, BeginReconnect, ShouldContinue
  <1>18. CASE ReportFailure
    BY <1>18 DEF ReportFailure, browser, CallbackIsQuiet
  <1>19. CASE UNCHANGED vars
    BY <1>19 DEF vars, inner, browser
  <1> QED
    BY <1>1, <1>2, <1>3, <1>4, <1>5, <1>6, <1>7, <1>8, <1>9, <1>10, <1>11,
       <1>12, <1>13, <1>14, <1>15, <1>16, <1>17, <1>18, <1>19
    DEF Next, Call, Resume, TimerTask

\* Without connect() from a callback, every reachable state reports itself.
THEOREM ReportInvariant ==
  ASSUME "connect" \notin CallbackApi
  PROVE  Spec => []ReportInv
  <1>1. ReportInv /\ [Next]_vars => ReportInv'
    BY ReportStep
  <1> QED
    BY <1>1, ReportInit, PTL DEF Spec

\* The state reported is the state of the socket.
THEOREM Reported ==
  ASSUME "connect" \notin CallbackApi
  PROVE  Spec => []StateMatchesSocket
  <1>1. ReportInv => StateMatchesSocket
    BY DEF ReportInv
  <1>2. Spec => []ReportInv
    BY ReportInvariant
  <1> QED
    BY <1>1, <1>2, PTL

\* No attempt follows on_reconnect_failed until connect() is called.
THEOREM GivingUp ==
  ASSUME "connect" \notin CallbackApi
  PROVE  Spec => []GivingUpIsFinal
  <1>1. ReportInv => GivingUpIsFinal
    BY DEF ReportInv
  <1>2. Spec => []ReportInv
    BY ReportInvariant
  <1> QED
    BY <1>1, <1>2, PTL

\* A connection that reconnects by itself is never left with nothing to move
\* it on, but by connect() from a callback: that call is the only cause of
\* what the run ws_stranded finds (schedule_reconnect).
THEOREM OnlyConnectStrands ==
  ASSUME "connect" \notin CallbackApi
  PROVE  Spec => []NotStranded
  <1>1. ReportInv => NotStranded
    BY DEF ReportInv, WsInv, TypeOK, ConnectionState, StateMatchesSocket, NotStranded
  <1>2. Spec => []ReportInv
    BY ReportInvariant
  <1> QED
    BY <1>1, <1>2, PTL

(***************************************************************************)
(* An application that does not take down the connection from there        *)
(* either.  Then no timeout is even armed that is not wanted.              *)
(***************************************************************************)
TimerOnlyWhileWanted ==
    alive /\ timerId # NoTimer => RetryWanted

WantedInv ==
    /\ ReportInv
    /\ TimerOnlyWhileWanted
    /\ alive /\ phase = "arming" => state = "Reconnecting"

\* Every step keeps a pending timeout wanted.
LEMMA WantedStep ==
  ASSUME CallbackApi \intersect {"connect", "disconnect", "set_auto_reconnect"} = {}
  PROVE  WantedInv /\ [Next]_vars => WantedInv'
  <1> SUFFICES ASSUME WantedInv, [Next]_vars PROVE WantedInv'
    OBVIOUS
  <1>0. ReportInv /\ ReportInv' /\ WsInv
    BY ReportStep DEF WantedInv, ReportInv
  <1>a. \A op \in {"connect", "disconnect", "set_auto_reconnect"} :
           MayCall(op) => phase = "idle"
    BY DEF MayCall
  <1>b. alive' => alive
    BY <1>0 DEF WsInv, TypeOK, Next, Call, Resume, TimerTask, ConnectNoop, ConnectRefused,
           ConnectStarted, Disconnect, EnableAuto, DisableAuto, SetMax, Free, OpenEvent,
           LateOpenEvent, PeerCloses, CloseEvent, ArmTimer, ArmFails, ReportFailure, TimerIgnored,
           TimerReconnects, TimerRefused, vars
  <1>c. timerId # NoTimer /\ alive' /\ timerId' # NoTimer => RetryWanted'
    BY <1>0, <1>b, CancelStep DEF WantedInv, TimerOnlyWhileWanted
  <1>d. timerId = NoTimer /\ timerId' # NoTimer => \E t \in Timers : ArmTimer(t)
    BY <1>0 DEF WsInv, TypeOK, TimerIsRecorded, Next, Call, Resume, TimerTask, ConnectNoop,
           ConnectRefused, ConnectStarted, Disconnect, EnableAuto, DisableAuto, SetMax, Free,
           OpenEvent, LateOpenEvent, PeerCloses, CloseEvent, ArmFails, ReportFailure, TimerIgnored,
           TimerReconnects, TimerRefused, TimerFired, CancelTimer, vars, inner, browser
  <1>e. ASSUME NEW t \in Timers, ArmTimer(t), alive' PROVE RetryWanted'
    BY <1>0, <1>b, <1>e
    DEF ArmTimer, WantedInv, ReportInv, RetryIsQuiet, Quiet, RetryWanted, Waiting
  <1>1. TimerOnlyWhileWanted'
    BY <1>c, <1>d, <1>e DEF TimerOnlyWhileWanted
  <1>2. (alive /\ phase = "arming" => state = "Reconnecting")'
    BY <1>0, <1>a, <1>b
    DEF WantedInv, WsInv, TypeOK, Next, Call, Resume, TimerTask, ConnectNoop, ConnectRefused,
        ConnectStarted, Disconnect, EnableAuto, DisableAuto, SetMax, Free, OpenEvent,
        LateOpenEvent, PeerCloses, CloseEvent, ArmTimer, ArmFails, ReportFailure, TimerIgnored,
        TimerReconnects, TimerRefused, TimerFired, OnOpen, OnClose, ScheduleReconnect,
        StopWithoutAuto, FailReconnect, BeginReconnect, vars, inner
  <1> QED
    BY <1>0, <1>1, <1>2 DEF WantedInv

\* A timeout is pending only while it is wanted, in any state of a connection
\* that is not taken up or down from inside a callback.
THEOREM TimerWanted ==
  ASSUME CallbackApi \intersect {"connect", "disconnect", "set_auto_reconnect"} = {}
  PROVE  Spec => []TimerOnlyWhileWanted
  <1>1. Init => WantedInv
    BY ReportInit DEF Init, WantedInv, TimerOnlyWhileWanted
  <1>2. WantedInv /\ [Next]_vars => WantedInv'
    BY WantedStep
  <1>3. WantedInv => TimerOnlyWhileWanted
    BY DEF WantedInv
  <1> QED
    BY <1>1, <1>2, <1>3, PTL DEF Spec

=============================================================================
