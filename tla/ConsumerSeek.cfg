\* What seek() promises of the next record received, on a topic of two records.
CONSTANTS
    MaxI64 = 3
    MaxOffset = 1
    Arguments <- SomeArguments
    Backlog = 2
    Nothing = Nothing
    Limits = {}
    TriesLimit = 1
SPECIFICATION ConsumerSpec
PROPERTY
    SeekIsNext
CHECK_DEADLOCK FALSE
