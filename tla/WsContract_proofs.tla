------------------------- MODULE WsContract_proofs -------------------------
(***************************************************************************)
(* WsConnection implements the safety part of ReconnectContract, for an    *)
(* application that does not call connect() from inside the callbacks of   *)
(* schedule_reconnect and fail_reconnect; it may make any other call.      *)
(* Each action of the connection is a step of the contract, or leaves what *)
(* the contract sees unchanged.  The fairness part is checked by TLC only. *)
(***************************************************************************)
EXTENDS WsConnection_proofs

\* A step the contract allows.
ContractStep == Contract!CNext \/ UNCHANGED Contract!cvars

\* A connection starts as the contract says.
LEMMA ContractInit == Init => Contract!CInit
  BY DEF Init, Contract!CInit, Link

\* A socket closed while connecting is no longer the current one, so its late
\* open event is nothing to the contract.
NotAborted == ws # NoSocket => rs[ws] # "ABORTING"

\* Every step keeps it so: only disconnect() aborts a socket, and lets go of it.
LEMMA NotAbortedStep ==
  ASSUME TypeOK, NotAborted, [Next]_vars
  PROVE  NotAborted'
  <1> USE NamesAssumption DEF NotAborted, TypeOK, CancelTimer
  <1>1. CASE ConnectNoop \/ ConnectRefused
    BY <1>1 DEF ConnectNoop, ConnectRefused
  <1>2. ASSUME NEW s \in Sockets, ConnectStarted(s) PROVE NotAborted'
    BY <1>2 DEF ConnectStarted, NewSocket
  <1>3. CASE Disconnect
    BY <1>3 DEF Disconnect
  <1>4. CASE EnableAuto \/ DisableAuto \/ Free \/ \E m \in MaxChoices : SetMax(m)
    BY <1>4 DEF EnableAuto, DisableAuto, Free, SetMax, inner, browser
  <1>5. ASSUME NEW s \in Sockets, OpenEvent(s) \/ LateOpenEvent(s) \/ PeerCloses(s)
        PROVE  NotAborted'
    BY <1>5 DEF OpenEvent, LateOpenEvent, PeerCloses, inner
  <1>6. ASSUME NEW s \in Sockets, CloseEvent(s) PROVE NotAborted'
    BY <1>6 DEF CloseEvent, OnClose
  <1>7. CASE Resume
    BY <1>7 DEF Resume, ArmTimer, ArmFails, ReportFailure, browser
  <1>8. ASSUME NEW t \in Timers, NEW s \in Sockets, TimerReconnects(t, s)
        PROVE  NotAborted'
    BY <1>8 DEF TimerReconnects, NewSocket
  <1>9. ASSUME NEW t \in Timers, TimerIgnored(t) \/ TimerRefused(t) PROVE NotAborted'
    BY <1>9 DEF TimerIgnored, TimerRefused
  <1>10. CASE UNCHANGED vars
    BY <1>10 DEF vars, inner, browser
  <1> QED
    BY <1>1, <1>2, <1>3, <1>4, <1>5, <1>6, <1>7, <1>8, <1>9, <1>10
    DEF Next, Call, TimerTask

\* What the simulation rests on.
ContractInv == ReportInv /\ NotAborted

\* schedule_reconnect, when no timeout is pending: retry, give up, or stop.
LEMMA ScheduleFacts ==
  ASSUME ScheduleReconnect(FALSE)
  PROVE  \/ /\ ~auto \/ intentional
            /\ attempts' = attempts /\ state' = "Disconnected"
         \/ /\ auto /\ ~intentional
            /\ ~AttemptsLeft
            /\ attempts' = attempts /\ state' = "Disconnected"
         \/ /\ auto /\ ~intentional
            /\ AttemptsLeft
            /\ attempts' = OneMoreAttempt /\ state' = "Reconnecting"
  BY DEF ScheduleReconnect, StopWithoutAuto, FailReconnect, BeginReconnect

\* Every step of the connection is a step of the contract or a stutter.
LEMMA Simulation ==
  ASSUME "connect" \notin CallbackApi, ContractInv, [Next]_vars
  PROVE  ContractStep
  <1>0. WsInv /\ WsInv' /\ ReportInv'
    BY ReportStep, WsStep DEF ContractInv, ReportInv
  <1>t. TypeOK /\ TypeOK'
    BY <1>0 DEF WsInv
  <1>a. \A op : MayCall(op) => alive
    BY DEF MayCall
  <1> USE NamesAssumption
      DEF ContractStep, Contract!CNext, Contract!cvars, Contract!settings, Link, SocketLink
  <1>1. CASE ConnectNoop
    BY <1>1, <1>a, <1>t DEF ConnectNoop, HasLiveSocket, CancelTimer, TypeOK
  <1>2. CASE ConnectRefused
    BY <1>2, <1>a, <1>t DEF ConnectRefused, HasLiveSocket, Live, CancelTimer, TypeOK,
       Contract!RequestRefused
  <1>3. ASSUME NEW s \in Sockets, ConnectStarted(s) PROVE ContractStep
    BY <1>3, <1>a, <1>t DEF ConnectStarted, HasLiveSocket, Live, CancelTimer, NewSocket, TypeOK,
       Contract!Request
  <1>4. CASE Disconnect
    BY <1>4, <1>a DEF Disconnect, CancelTimer, Contract!HangUp
  <1>5. CASE EnableAuto
    BY <1>5, <1>a DEF EnableAuto, browser, Contract!SetAuto
  <1>6. CASE DisableAuto
    BY <1>6, <1>a DEF DisableAuto, CancelTimer, Contract!SetAuto
  <1>7. ASSUME NEW m \in MaxChoices, SetMax(m) PROVE ContractStep
    BY <1>7, <1>a DEF SetMax, browser, Contract!SetLimit
  <1>8. CASE Free
    BY <1>8, <1>a DEF Free, inner, browser, Contract!Abandon
  <1>9. ASSUME NEW s \in Sockets, OpenEvent(s) PROVE ContractStep
    BY <1>9, <1>0, <1>t DEF OpenEvent, OnOpen, IsCurrent, TypeOK, WsInv, DisconnectIsFinal,
       Contract!Opened
  <1>10. ASSUME NEW s \in Sockets, LateOpenEvent(s) PROVE ContractStep
    BY <1>10, <1>t DEF LateOpenEvent, OnOpen, IsCurrent, TypeOK, ContractInv, NotAborted
  <1>11. ASSUME NEW s \in Sockets, PeerCloses(s) PROVE ContractStep
    BY <1>11, <1>t DEF PeerCloses, inner, TypeOK, Contract!PeerHangsUp
  <1>12. ASSUME NEW s \in Sockets, CloseEvent(s) PROVE ContractStep
    <2>1. CASE ~IsCurrent(s)
      BY <1>12, <2>1, <1>t DEF CloseEvent, OnClose, IsCurrent, TypeOK
    <2>2. CASE IsCurrent(s)
      <3>1. /\ alive /\ alive' /\ phase = "idle"
            /\ ws = s /\ ws' = NoSocket
            /\ UNCHANGED <<maxAttempts, timerId, auto, intentional>>
        BY <1>12, <2>2 DEF CloseEvent, OnClose, IsCurrent
      <3>2. ~intentional /\ timerId = NoTimer
        BY <1>0, <3>1 DEF WsInv, DisconnectIsFinal, ContractInv, ReportInv,
           RetryIsQuiet, Quiet
      <3>3. ScheduleReconnect(FALSE)
        BY <1>12, <2>2, <3>2 DEF CloseEvent, OnClose
      <3>4. Link \in {"opening", "up", "closing"}
        BY <3>1
      <3> QED
        BY <3>1, <3>2, <3>3, <3>4, ScheduleFacts, <1>t
        DEF Contract!Lost, Contract!RetryOrGiveUp, Contract!Exhausted,
            Contract!Another, AttemptsLeft, OneMoreAttempt, TypeOK
    <2> QED
      BY <2>1, <2>2
  <1>13. CASE ArmFails
    BY <1>13 DEF ArmFails, FailReconnect, browser, Contract!CannotWait, ContractInv,
       ReportInv, RetryIsQuiet, Quiet
  <1>14. ASSUME NEW t \in Timers, ArmTimer(t) PROVE ContractStep
    BY <1>14 DEF ArmTimer
  <1>15. ASSUME NEW t \in Timers, TimerIgnored(t) PROVE ContractStep
    <2>1. CASE ~alive
      BY <1>15, <2>1 DEF TimerIgnored, TimerFired
    <2>2. CASE alive
      <3>1. timers = {t} /\ timerId = t
        BY <1>0, <1>15, <2>2 DEF WsInv, TimerIsRecorded, TimerIgnored, TimerFired
      <3>2. ws = NoSocket /\ state = "Disconnected"
        BY <1>15, <2>2, <3>1, <1>t DEF ContractInv, ReportInv, RetryIsQuiet, Quiet,
           TimerIgnored, TimerFired, ShouldContinue, Waiting, TypeOK
      <3> QED
        BY <1>15, <2>2, <3>2 DEF TimerIgnored, Waiting
    <2> QED
      BY <2>1, <2>2
  <1>16. ASSUME NEW t \in Timers, NEW s \in Sockets, TimerReconnects(t, s)
         PROVE  ContractStep
    <2>1. timerId = t
      BY <1>0, <1>16 DEF WsInv, TimerIsRecorded, TimerReconnects, TimerFired
    <2> QED
      BY <1>16, <2>1, <1>t DEF TimerReconnects, TimerFired, NewSocket, ShouldContinue,
         Waiting, TypeOK, Contract!Retry
  <1>17. ASSUME NEW t \in Timers, TimerRefused(t) PROVE ContractStep
    <2>1. timerId = t
      BY <1>0, <1>17 DEF WsInv, TimerIsRecorded, TimerRefused, TimerFired
    <2>2. /\ state = "Reconnecting" /\ ScheduleReconnect(FALSE)
          /\ alive /\ alive' /\ auto /\ ~intentional
          /\ ws = NoSocket /\ ws' = NoSocket /\ timerId' = NoTimer
          /\ UNCHANGED <<maxAttempts, auto, intentional>>
      BY <1>17 DEF TimerRefused, TimerFired, ShouldContinue, Waiting
    <2> QED
      BY <2>1, <2>2, ScheduleFacts, <1>t
      DEF Contract!RetryRefused, Contract!RetryOrGiveUp, Contract!Exhausted,
          Contract!Another, AttemptsLeft, OneMoreAttempt, TypeOK
  <1>18. CASE ReportFailure
    BY <1>18 DEF ReportFailure, browser
  <1>19. CASE UNCHANGED vars
    BY <1>19 DEF vars, inner, browser
  <1> QED
    BY <1>1, <1>2, <1>3, <1>4, <1>5, <1>6, <1>7, <1>8, <1>9, <1>10, <1>11,
       <1>12, <1>13, <1>14, <1>15, <1>16, <1>17, <1>18, <1>19
    DEF Next, Call, Resume, TimerTask

\* Unless it is connected from inside a callback, the connection keeps the
\* safety part of its contract: a loss is retried within the limit or reported by going down,
\* nothing is retried after a hang-up or with reconnection off.
THEOREM Implements ==
  ASSUME "connect" \notin CallbackApi
  PROVE  Spec => Contract!CSafe
  <1>1. Init => ContractInv /\ Contract!CInit
    BY ReportInit, ContractInit DEF ContractInv, NotAborted, Init
  <1>2. ContractInv /\ [Next]_vars => ContractInv'
    BY ReportStep, NotAbortedStep DEF ContractInv, ReportInv, WsInv
  <1>3. ContractInv /\ [Next]_vars => [Contract!CNext]_(Contract!cvars)
    BY Simulation DEF ContractStep
  <1> QED
    BY <1>1, <1>2, <1>3, PTL DEF Spec, Contract!CSafe

=============================================================================
