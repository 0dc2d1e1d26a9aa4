\* Batches of one to three records, flushes that fail or stop half way.
CONSTANTS
    BatchSizes = {1, 3}
    InitialSize = 2
    Validities = {TRUE, FALSE}
    MaxErrors = 1
    MaxRecords = 4
    MaxResends = 1
    SendMayFail = TRUE
SPECIFICATION PSpec
INVARIANTS
    NothingLostOrDuplicated
    FullOnlyAfterFailure
    ErrorTellsWhatIsKept
    TransactionIsolated
PROPERTY KeepsOutbox
