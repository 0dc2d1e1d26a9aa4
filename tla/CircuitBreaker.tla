--------------------------- MODULE CircuitBreaker ---------------------------
(***************************************************************************)
(* src/circuit_breaker.rs, and the asynchronous requests of an application *)
(* that uses it as its module comment shows: allow(), then the request,    *)
(* then record_success() or record_failure() for its outcome.  Several     *)
(* requests are in flight at once, so an outcome may be recorded in a      *)
(* later state of the circuit than the one the request was allowed in.     *)
(*                                                                         *)
(* Time: `age` is now_ms() - last_failure_at in ticks, counted up to the   *)
(* open timeout, the only value it is compared with.  The clock            *)
(* (performance.now()) does not run backwards.                             *)
(***************************************************************************)
EXTENDS Naturals

CONSTANTS
    FailureArg, SuccessArg, TimeoutArg,   \* the arguments of new()
    NaN,              \* the f64 that an argument left out in JavaScript becomes
    DefaultTimeout,   \* 30 000 ms in ticks
    MaxInFlight       \* bound on the requests in flight

ASSUME ArgumentAssumption ==
    /\ FailureArg \in Nat /\ SuccessArg \in Nat
    /\ NaN \notin Nat
    /\ TimeoutArg \in Nat \union {NaN}
    /\ DefaultTimeout \in Nat \ {0}
ASSUME LoadAssumption == MaxInFlight \in Nat

\* new(): no positive value is the default one; NaN <= 0.0 is false.
FailureThreshold == IF FailureArg = 0 THEN 5 ELSE FailureArg
SuccessThreshold == IF SuccessArg = 0 THEN 2 ELSE SuccessArg
OpenTimeout == IF TimeoutArg = 0 THEN DefaultTimeout ELSE TimeoutArg
HalfOpenMaxRequests == 3

\* How far time is counted.
AgeLimit == IF OpenTimeout = NaN THEN DefaultTimeout ELSE OpenTimeout

VARIABLES
    circuit,        \* CircuitState
    failures,       \* failure_count
    successes,      \* success_count
    halfOpen,       \* half_open_count
    age,            \* time since last_failure_at
    flying,         \* requests allowed whose outcome is not known yet
    probes,         \* history: requests allowed since HalfOpen was entered
    failRun,        \* history: failures recorded since the last success
    winRun,         \* history: successes recorded since HalfOpen was entered
    unrecorded      \* history: since HalfOpen was entered an outcome was not
                    \* recorded

counters == <<failures, successes, halfOpen>>
runs     == <<failRun, winRun>>
cbVars   == <<circuit, counters, age, flying, probes, runs, unrecorded>>

UpTo(n, bound) == IF n < bound THEN n + 1 ELSE bound

(***************************************************************************)
(* transition(): to another state it clears every counter, to the same     *)
(* state it does nothing.  `probed` is half_open_count afterwards.         *)
(***************************************************************************)
EnterUncleared(to, probed) ==
    /\ circuit' = to
    /\ failures' = 0 /\ halfOpen' = probed
    /\ UNCHANGED successes
Enter(to, probed) ==
    /\ circuit' = to
    /\ failures' = 0 /\ successes' = 0 /\ halfOpen' = probed

\* Every comparison with NaN is false.
TimedOut == OpenTimeout # NaN /\ age >= OpenTimeout

(***************************************************************************)
(* allow() and the state getter                                            *)
(***************************************************************************)
FirstProbeUncounted == 0
FirstProbe == 1

ProbesLeft == halfOpen < HalfOpenMaxRequests

AllowClosed ==
    /\ circuit = "Closed"
    /\ flying < MaxInFlight
    /\ flying' = flying + 1
    /\ UNCHANGED <<circuit, counters, age, probes, runs, unrecorded>>

AllowFirstProbe ==
    /\ circuit = "Open" /\ TimedOut
    /\ flying < MaxInFlight
    /\ flying' = flying + 1
    /\ Enter("HalfOpen", FirstProbe)
    /\ probes' = 1
    /\ winRun' = 0
    /\ unrecorded' = FALSE
    /\ UNCHANGED <<age, failRun>>

AllowProbe ==
    /\ circuit = "HalfOpen" /\ ProbesLeft
    /\ flying < MaxInFlight
    /\ flying' = flying + 1
    /\ halfOpen' = halfOpen + 1
    /\ probes' = probes + 1
    /\ UNCHANGED <<circuit, failures, successes, age, runs, unrecorded>>

\* allow() returns false.  The mutated form puts off the next probe.
AllowRefusedRestartsClock ==
    /\ \/ circuit = "Open" /\ ~TimedOut
       \/ circuit = "HalfOpen" /\ ~ProbesLeft
    /\ age' = 0
    /\ UNCHANGED <<circuit, counters, flying, probes, runs, unrecorded>>
AllowRefused ==
    /\ \/ circuit = "Open" /\ ~TimedOut
       \/ circuit = "HalfOpen" /\ ~ProbesLeft
    /\ UNCHANGED cbVars

ReadState ==
    /\ circuit = "Open" /\ TimedOut
    /\ Enter("HalfOpen", 0)
    /\ probes' = 0
    /\ winRun' = 0
    /\ unrecorded' = FALSE
    /\ UNCHANGED <<age, flying, failRun>>

(***************************************************************************)
(* Outcomes                                                                *)
(***************************************************************************)
Success ==
    /\ failRun' = 0
    /\ winRun' = UpTo(winRun, SuccessThreshold)

\* record_success leaves the count of failures alone (a mutated form).
SuccessClosedKeepsFailures ==
    /\ circuit = "Closed"
    /\ UNCHANGED <<circuit, counters>>
SuccessClosed ==
    /\ circuit = "Closed"
    /\ failures' = 0
    /\ UNCHANGED <<circuit, successes, halfOpen>>

SuccessHalfOpenUncounted ==
    /\ circuit = "HalfOpen"
    /\ IF successes + 1 >= SuccessThreshold
         THEN Enter("Closed", 0)
         ELSE UNCHANGED <<circuit, counters>>
SuccessHalfOpen ==
    /\ circuit = "HalfOpen"
    /\ IF successes + 1 >= SuccessThreshold
         THEN Enter("Closed", 0)
         ELSE successes' = successes + 1 /\ UNCHANGED <<circuit, failures, halfOpen>>

SuccessOpen == circuit = "Open" /\ UNCHANGED <<circuit, counters>>

RecordSuccess ==
    /\ flying > 0
    /\ flying' = flying - 1
    /\ SuccessClosed \/ SuccessHalfOpen \/ SuccessOpen
    /\ Success
    /\ UNCHANGED <<age, probes, unrecorded>>

Opens == Enter("Open", 0)

FailureClosed ==
    /\ circuit = "Closed"
    /\ IF failures + 1 >= FailureThreshold
         THEN Opens
         ELSE failures' = failures + 1
              /\ UNCHANGED <<circuit, successes, halfOpen>>

FailureHalfOpenIgnored == circuit = "HalfOpen" /\ UNCHANGED <<circuit, counters>>
FailureHalfOpen == circuit = "HalfOpen" /\ Opens

FailureOpen == circuit = "Open" /\ UNCHANGED <<circuit, counters>>

\* last_failure_at is set first, whatever the state.
RecordFailure ==
    /\ flying > 0
    /\ flying' = flying - 1
    /\ age' = 0
    /\ FailureClosed \/ FailureHalfOpen \/ FailureOpen
    /\ failRun' = UpTo(failRun, FailureThreshold)
    /\ winRun' = 0
    /\ UNCHANGED <<probes, unrecorded>>

\* "non-retryable errors (auth, not found) should not trip the breaker".
OutcomeNotRecorded ==
    /\ flying > 0
    /\ flying' = flying - 1
    /\ unrecorded' = TRUE
    /\ UNCHANGED <<circuit, counters, age, probes, runs>>

Reset ==
    /\ circuit # "Closed"
    /\ Enter("Closed", 0)
    /\ UNCHANGED <<age, flying, probes, runs, unrecorded>>

\* The clock only matters while the circuit is open.
Tick ==
    /\ age < AgeLimit
    /\ age' = age + 1
    /\ UNCHANGED <<circuit, counters, flying, probes, runs, unrecorded>>

(***************************************************************************)
(* The specification                                                       *)
(***************************************************************************)
CBInit ==
    /\ circuit = "Closed"
    /\ failures = 0 /\ successes = 0 /\ halfOpen = 0
    /\ age = AgeLimit               \* last_failure_at = 0.0, long ago
    /\ flying = 0
    /\ probes = 0
    /\ failRun = 0 /\ winRun = 0
    /\ unrecorded = FALSE

Allow == AllowClosed \/ AllowFirstProbe \/ AllowProbe
Outcome == RecordSuccess \/ RecordFailure \/ OutcomeNotRecorded

CBNext == Allow \/ AllowRefused \/ ReadState \/ Outcome \/ Reset \/ Tick

CBSpec == CBInit /\ [][CBNext]_cbVars

\* Requests end, time passes, and the application goes on asking.
CBFairSpec == CBSpec /\ WF_cbVars(Outcome) /\ WF_cbVars(Allow) /\ WF_cbVars(Tick)

(***************************************************************************)
(* Properties                                                              *)
(***************************************************************************)
\* The types of the counters.
CBTypeOK ==
    /\ circuit \in {"Closed", "Open", "HalfOpen"}
    /\ failures \in Nat /\ successes \in Nat /\ halfOpen \in 0 .. HalfOpenMaxRequests
    /\ age \in 0 .. AgeLimit
    /\ flying \in 0 .. MaxInFlight
    /\ probes \in Nat
    /\ failRun \in 0 .. FailureThreshold
    /\ winRun \in 0 .. SuccessThreshold
    /\ unrecorded \in BOOLEAN

\* A recovering server sees a limited number of requests: those allowed since
\* the circuit became HalfOpen, by allow() or by reading the state
\* (CircuitState::HalfOpen, "a limited number of requests").
ProbesLimited == circuit = "HalfOpen" => probes <= HalfOpenMaxRequests

\* While the circuit is HalfOpen either a probe may still be sent or a request
\* is in flight whose outcome may give the verdict: as long as success_threshold
\* is not above half_open_max_requests (allow() never gives a probe back) and
\* every outcome is recorded.
VerdictInReach ==
    SuccessThreshold <= HalfOpenMaxRequests /\ circuit = "HalfOpen" /\ ~unrecorded =>
        ProbesLeft \/ flying > 0

\* The circuit opens from Closed only on failure_threshold consecutive
\* failures, whenever the failed requests were sent.
OpensOnConsecutiveFailures ==
    [][circuit = "Closed" /\ circuit' = "Open" => failRun' >= FailureThreshold]_cbVars

\* The circuit closes by itself only after success_threshold consecutive
\* successes recorded since it became HalfOpen.
ClosesOnConsecutiveSuccesses ==
    [][circuit = "HalfOpen" /\ circuit' = "Closed" =>
          winRun' >= SuccessThreshold \/ Reset]_cbVars

\* Probing comes to a verdict, the circuit closes or opens again, if every
\* outcome is recorded meanwhile.
ProbingEnds == circuit = "HalfOpen" ~> circuit # "HalfOpen" \/ unrecorded

\* An open circuit is probed some day (doc of CircuitBreaker: "Open -> HalfOpen
\* when open_timeout_ms elapses"), although each failure of a request still in
\* flight when it opened puts off the probe.
OpenIsProbed == OpenTimeout # NaN /\ circuit = "Open" ~> circuit # "Open"

=============================================================================
