\* What commit_transaction promises, against what it does.
CONSTANTS
    BatchSizes = {}
    InitialSize = 2
    Validities = {TRUE}
    MaxErrors = 1
    MaxRecords = 3
    MaxResends = 0
    SendMayFail = FALSE
SPECIFICATION PSpec
INVARIANT CommitSendsAll
