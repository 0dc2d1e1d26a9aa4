\* Small thresholds, the default number of successes (0 stands for 2).
CONSTANTS
    FailureArg = 2
    SuccessArg = 0
    TimeoutArg = 2
    NaN = NaN
    DefaultTimeout = 3
    MaxInFlight = 4
SPECIFICATION CBFairSpec
INVARIANTS
    ProbesLimited
    VerdictInReach
PROPERTIES
    OpensOnConsecutiveFailures
    ClosesOnConsecutiveSuccesses
    ProbingEnds
    OpenIsProbed
