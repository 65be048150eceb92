\* The task stops when onMessage has returned.
CHECK_DEADLOCK FALSE
SPECIFICATION Spec
CONSTANTS
    MaxDocs = 2
    Docs <- MCDocs
    PageSize = 1
    LogEvery = 2
    BatchSize = 1
    MaxTries = 2
INVARIANTS
    TempRemovedOnlyAfterSuccess
