\* A topic of five records and integers of three bits, so that the last record
\* but one is the largest i64 and the last is beyond it.
CONSTANTS
    MaxI64 = 3
    MaxOffset = 4
    Arguments <- SomeArguments
    Backlog = 2
    Nothing = Nothing
    Limits = {}
    TriesLimit = 5
SPECIFICATION ConsumerSpec
INVARIANTS
    NotBehind
    NotAhead
    SubscribedWhenUp
CHECK_DEADLOCK FALSE
