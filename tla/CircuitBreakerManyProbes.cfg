\* More successes asked for than there are probes.
CONSTANTS
    FailureArg = 2
    SuccessArg = 4
    TimeoutArg = 2
    NaN = NaN
    DefaultTimeout = 3
    MaxInFlight = 3
SPECIFICATION CBFairSpec
PROPERTY ProbingEnds
