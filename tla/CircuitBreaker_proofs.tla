----------------------- MODULE CircuitBreaker_proofs -----------------------
(***************************************************************************)
(* Proofs about CircuitBreaker, for any arguments of new() and any number  *)
(* of requests in flight.                                                  *)
(***************************************************************************)
EXTENDS CircuitBreaker, TLAPS

\* The code's counters against the histories, which do not know of them:
\* half_open_count counts the probes, success_count the successes since the
\* circuit became HalfOpen, failure_count no more than the failures in a row.
CountersTellTheTruth ==
    /\ circuit = "HalfOpen" => probes = halfOpen /\ winRun = successes
    /\ circuit = "Closed"   => failures <= failRun

\* No count survives into a state it does not belong to, and a threshold that
\* has been reached has been acted on.
CountersBelongToState ==
    /\ circuit # "Closed"   => failures = 0
    /\ circuit # "HalfOpen" => successes = 0 /\ halfOpen = 0
    /\ failures < FailureThreshold /\ successes < SuccessThreshold

\* Every probe that half_open_count stands for is in flight or has succeeded,
\* unless its outcome was not recorded.  Late outcomes of earlier requests only
\* help: they are counted as successes too.
ProbesAccountedFor ==
    circuit = "HalfOpen" /\ ~unrecorded => halfOpen <= flying + successes

\* The inductive invariant.
CBInv ==
    CBTypeOK /\ CountersBelongToState /\ CountersTellTheTruth /\ ProbesAccountedFor

\* new() leaves thresholds of at least 1, and time is counted up to at least 1.
LEMMA Thresholds ==
  /\ FailureThreshold \in Nat \ {0}
  /\ SuccessThreshold \in Nat \ {0}
  /\ AgeLimit \in Nat \ {0}
  <1>1. FailureThreshold \in Nat \ {0} /\ SuccessThreshold \in Nat \ {0}
    BY ArgumentAssumption DEF FailureThreshold, SuccessThreshold
  <1>2. AgeLimit \in Nat \ {0}
    BY ArgumentAssumption DEF AgeLimit, OpenTimeout
  <1> QED
    BY <1>1, <1>2

\* Counting up to a bound.
LEMMA UpToBound ==
  ASSUME NEW bound \in Nat, NEW n \in 0 .. bound
  PROVE  /\ UpTo(n, bound) \in 0 .. bound
         /\ n < bound => UpTo(n, bound) = n + 1
         /\ UpTo(n, bound) >= n
  BY DEF UpTo

\* A new breaker is Closed, with nothing counted.
LEMMA CBInitInv == CBInit => CBInv
  <1>1. CBInit => unrecorded \in BOOLEAN
    BY DEF CBInit
  <1> QED
    BY <1>1, Thresholds, LoadAssumption
    DEF CBInit, CBInv, CBTypeOK, CountersBelongToState, CountersTellTheTruth,
        ProbesAccountedFor, HalfOpenMaxRequests

\* What the histories of runs become.
LEMMA RunsCount ==
  ASSUME CBInv
  PROVE  /\ UpTo(failRun, FailureThreshold) \in 0 .. FailureThreshold
         /\ UpTo(winRun, SuccessThreshold) \in 0 .. SuccessThreshold
         /\ circuit = "Closed" => failures + 1 <= UpTo(failRun, FailureThreshold)
         /\ circuit = "HalfOpen" => UpTo(winRun, SuccessThreshold) = successes + 1
  <1> USE DEF CBInv, CBTypeOK
  <1>1. /\ UpTo(failRun, FailureThreshold) \in 0 .. FailureThreshold
        /\ UpTo(winRun, SuccessThreshold) \in 0 .. SuccessThreshold
    BY Thresholds, UpToBound
  <1>2. circuit = "Closed" => failures + 1 <= UpTo(failRun, FailureThreshold)
    BY Thresholds DEF CountersBelongToState, CountersTellTheTruth, UpTo
  <1>3. circuit = "HalfOpen" => UpTo(winRun, SuccessThreshold) = successes + 1
    BY Thresholds DEF CountersBelongToState, CountersTellTheTruth, UpTo
  <1> QED
    BY <1>1, <1>2, <1>3

\* Every step keeps the counters in their types and true.
LEMMA CountersStep ==
  CBInv /\ [CBNext]_cbVars =>
     CBTypeOK' /\ CountersBelongToState' /\ CountersTellTheTruth'
  <1> SUFFICES ASSUME CBInv, [CBNext]_cbVars
               PROVE  CBTypeOK' /\ CountersBelongToState' /\ CountersTellTheTruth'
    OBVIOUS
  <1> USE Thresholds, LoadAssumption
      DEF CBInv, CBTypeOK, CountersBelongToState, CountersTellTheTruth,
          HalfOpenMaxRequests, counters, runs
  <1>1. CASE AllowClosed
    BY <1>1 DEF AllowClosed
  <1>2. CASE AllowFirstProbe
    <2>1. unrecorded' \in BOOLEAN
      BY <1>2 DEF AllowFirstProbe
    <2> QED
      BY <1>2, <2>1 DEF AllowFirstProbe, Enter, FirstProbe
  <1>3. CASE AllowProbe
    BY <1>3 DEF AllowProbe, ProbesLeft
  <1>4. CASE ReadState
    <2>1. unrecorded' \in BOOLEAN
      BY <1>4 DEF ReadState
    <2> QED
      BY <1>4, <2>1 DEF ReadState, Enter
  <1>5. CASE RecordSuccess
    <2>1. CASE SuccessClosed
      BY <1>5, <2>1, RunsCount DEF RecordSuccess, Success, SuccessClosed
    <2>2. CASE SuccessHalfOpen
      BY <1>5, <2>2, RunsCount DEF RecordSuccess, Success, SuccessHalfOpen, Enter
    <2>3. CASE SuccessOpen
      BY <1>5, <2>3, RunsCount DEF RecordSuccess, Success, SuccessOpen
    <2> QED
      BY <1>5, <2>1, <2>2, <2>3 DEF RecordSuccess
  <1>6. CASE RecordFailure
    <2>1. CASE FailureClosed
      BY <1>6, <2>1, RunsCount DEF RecordFailure, FailureClosed, Opens, Enter
    <2>2. CASE FailureHalfOpen
      BY <1>6, <2>2, RunsCount DEF RecordFailure, FailureHalfOpen, Opens, Enter
    <2>3. CASE FailureOpen
      BY <1>6, <2>3, RunsCount DEF RecordFailure, FailureOpen
    <2> QED
      BY <1>6, <2>1, <2>2, <2>3 DEF RecordFailure
  <1>7. CASE OutcomeNotRecorded
    BY <1>7 DEF OutcomeNotRecorded
  <1>8. CASE Reset
    BY <1>8 DEF Reset, Enter
  <1>9. CASE Tick
    BY <1>9, UpToBound DEF Tick
  <1>10. CASE AllowRefused \/ UNCHANGED cbVars
    BY <1>10 DEF AllowRefused, cbVars
  <1> QED
    BY <1>1, <1>2, <1>3, <1>4, <1>5, <1>6, <1>7, <1>8, <1>9, <1>10
    DEF CBNext, Allow, Outcome

\* Every step leaves the probes accounted for: allowing one adds it to both
\* sides, a success moves one from those in flight to the successes, and a
\* failure ends the probing.
LEMMA ProbesStep == CBInv /\ [CBNext]_cbVars => ProbesAccountedFor'
  <1> SUFFICES ASSUME CBInv, [CBNext]_cbVars, circuit' = "HalfOpen", ~unrecorded'
               PROVE  halfOpen' <= flying' + successes'
    BY DEF ProbesAccountedFor
  <1> USE DEF CBInv, CBTypeOK, ProbesAccountedFor, HalfOpenMaxRequests, counters, runs
  <1>1. CASE AllowClosed
    BY <1>1 DEF AllowClosed
  <1>2. CASE AllowFirstProbe
    BY <1>2 DEF AllowFirstProbe, Enter, FirstProbe
  <1>3. CASE AllowProbe
    <2>1. ~unrecorded
      BY <1>3 DEF AllowProbe
    <2> QED
      BY <1>3, <2>1 DEF AllowProbe
  <1>4. CASE ReadState
    BY <1>4 DEF ReadState, Enter
  <1>5. CASE RecordSuccess
    <2>1. ~unrecorded
      BY <1>5 DEF RecordSuccess
    <2>2. circuit = "HalfOpen"
      BY <1>5 DEF RecordSuccess, SuccessClosed, SuccessHalfOpen, SuccessOpen
    <2>3. halfOpen' = halfOpen /\ successes' = successes + 1
      BY <1>5, <2>2
      DEF RecordSuccess, SuccessClosed, SuccessHalfOpen, SuccessOpen, Enter
    <2> QED
      BY <1>5, <2>1, <2>2, <2>3 DEF RecordSuccess
  <1>6. CASE RecordFailure
    BY <1>6 DEF RecordFailure, FailureClosed, FailureHalfOpen, FailureOpen, Opens, Enter
  <1>7. CASE OutcomeNotRecorded
    BY <1>7 DEF OutcomeNotRecorded
  <1>8. CASE Reset
    BY <1>8 DEF Reset, Enter
  <1>9. CASE Tick
    <2>1. ~unrecorded
      BY <1>9 DEF Tick
    <2> QED
      BY <1>9, <2>1 DEF Tick
  <1>10. CASE AllowRefused \/ UNCHANGED cbVars
    <2>1. ~unrecorded
      BY <1>10 DEF AllowRefused, cbVars
    <2> QED
      BY <1>10, <2>1 DEF AllowRefused, cbVars
  <1> QED
    BY <1>1, <1>2, <1>3, <1>4, <1>5, <1>6, <1>7, <1>8, <1>9, <1>10
    DEF CBNext, Allow, Outcome

\* Every step keeps the invariant.
LEMMA CBStep == CBInv /\ [CBNext]_cbVars => CBInv'
  BY CountersStep, ProbesStep DEF CBInv

\* The invariant holds in every reachable state.
THEOREM CBInvariant == CBSpec => []CBInv
  BY CBInitInv, CBStep, PTL DEF CBSpec

\* The counters keep their types and bounds.
THEOREM CBTypesAreRight == CBSpec => []CBTypeOK
  <1>1. CBInv => CBTypeOK
    BY DEF CBInv
  <1> QED
    BY <1>1, CBInvariant, PTL

\* The counters belong to the state the circuit is in, and none reaches its
\* threshold unnoticed.
THEOREM CountersCorrect == CBSpec => []CountersBelongToState
  <1>1. CBInv => CountersBelongToState
    BY DEF CBInv
  <1> QED
    BY <1>1, CBInvariant, PTL

\* However many requests are made and however they end, no more than
\* half_open_max_requests of them are let through while the circuit is HalfOpen.
THEOREM AtMostThreeProbes == CBSpec => []ProbesLimited
  <1>1. CBInv => ProbesLimited
    BY DEF CBInv, CBTypeOK, CountersTellTheTruth, ProbesLimited, HalfOpenMaxRequests
  <1> QED
    BY <1>1, CBInvariant, PTL

\* With every outcome recorded and success_threshold at most 3, a circuit that is
\* HalfOpen still has a probe to give, or waits for one in flight.
THEOREM VerdictReachable == CBSpec => []VerdictInReach
  <1>1. CBInv => VerdictInReach
    <2> SUFFICES ASSUME CBInv, SuccessThreshold <= HalfOpenMaxRequests,
                        circuit = "HalfOpen", ~unrecorded, ~ProbesLeft
                 PROVE  flying > 0
      BY DEF VerdictInReach
    <2>1. halfOpen <= flying + successes
      BY DEF CBInv, ProbesAccountedFor
    <2>2. successes < SuccessThreshold
      BY DEF CBInv, CountersBelongToState
    <2> QED
      BY <2>1, <2>2, Thresholds DEF CBInv, CBTypeOK, ProbesLeft, HalfOpenMaxRequests
  <1> QED
    BY <1>1, CBInvariant, PTL

\* The circuit opens from Closed only on failure_threshold failures in a row.
THEOREM OpensOnFailures == CBSpec => OpensOnConsecutiveFailures
  <1>1. CBInv /\ [CBNext]_cbVars =>
          [circuit = "Closed" /\ circuit' = "Open" => failRun' >= FailureThreshold]_cbVars
    <2> SUFFICES ASSUME CBInv, CBNext, circuit = "Closed", circuit' = "Open"
                 PROVE  failRun' >= FailureThreshold
      OBVIOUS
    <2>1. RecordFailure /\ FailureClosed
      BY DEF CBNext, Allow, AllowClosed, AllowFirstProbe, AllowProbe, ReadState,
             Outcome, RecordSuccess, SuccessClosed, SuccessHalfOpen, SuccessOpen,
             RecordFailure, FailureHalfOpen, FailureOpen, OutcomeNotRecorded,
             Reset, Tick, AllowRefused, cbVars, counters
    <2>2. failures + 1 >= FailureThreshold
      BY <2>1 DEF FailureClosed
    <2>3. failRun' = UpTo(failRun, FailureThreshold)
      BY <2>1 DEF RecordFailure
    <2> QED
      BY <2>2, <2>3, RunsCount, Thresholds DEF CBInv, CBTypeOK
  <1> QED
    BY <1>1, CBInvariant, PTL DEF CBSpec, OpensOnConsecutiveFailures

\* The circuit closes, unless it is reset, only on success_threshold successes
\* recorded since it became HalfOpen.
THEOREM ClosesOnSuccesses == CBSpec => ClosesOnConsecutiveSuccesses
  <1>1. CBInv /\ [CBNext]_cbVars =>
          [circuit = "HalfOpen" /\ circuit' = "Closed" =>
              winRun' >= SuccessThreshold \/ Reset]_cbVars
    <2> SUFFICES ASSUME CBInv, CBNext, circuit = "HalfOpen", circuit' = "Closed", ~Reset
                 PROVE  winRun' >= SuccessThreshold
      OBVIOUS
    <2>1. RecordSuccess /\ SuccessHalfOpen
      BY DEF CBNext, Allow, AllowClosed, AllowFirstProbe, AllowProbe, ReadState,
             Outcome, RecordSuccess, SuccessClosed, SuccessHalfOpen, SuccessOpen,
             RecordFailure, FailureClosed, FailureHalfOpen, FailureOpen, Opens,
             Enter, OutcomeNotRecorded, Tick, AllowRefused, cbVars, counters
    <2>2. successes + 1 >= SuccessThreshold
      BY <2>1 DEF SuccessHalfOpen
    <2>3. winRun' = UpTo(winRun, SuccessThreshold)
      BY <2>1 DEF RecordSuccess, Success
    <2> QED
      BY <2>2, <2>3, RunsCount
  <1> QED
    BY <1>1, CBInvariant, PTL DEF CBSpec, ClosesOnConsecutiveSuccesses

\* HalfOpen with the probes used up and no request in flight.
Stuck == circuit = "HalfOpen" /\ ~ProbesLeft /\ flying = 0

\* Nothing but reset() leads out of there: allow() returns false, there is no
\* outcome to record and time does not count.
StuckUntilReset == [][Stuck => Stuck' \/ Reset]_cbVars

\* Which is why VerdictInReach matters: by the theorem VerdictReachable a circuit
\* is stuck only if success_threshold is above half_open_max_requests (the run
\* cb_many_probes) or an outcome was not recorded.
THEOREM StuckIsForGood == CBSpec => StuckUntilReset
  <1>1. CBInv /\ [CBNext]_cbVars => [Stuck => Stuck' \/ Reset]_cbVars
    <2> SUFFICES ASSUME CBInv, CBNext, Stuck, ~Reset PROVE Stuck'
      OBVIOUS
    <2>1. AllowRefused \/ Tick
      BY DEF CBNext, Allow, AllowClosed, AllowFirstProbe, AllowProbe, ReadState,
             Outcome, RecordSuccess, RecordFailure, OutcomeNotRecorded, Stuck
    <2>2. UNCHANGED <<circuit, halfOpen, flying>>
      BY <2>1 DEF AllowRefused, Tick, cbVars, counters
    <2> QED
      BY <2>2 DEF Stuck, ProbesLeft
  <1> QED
    BY <1>1, CBInvariant, PTL DEF CBSpec, StuckUntilReset

=============================================================================
