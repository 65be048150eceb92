\* The task stops when the export has returned or thrown.
CHECK_DEADLOCK FALSE
SPECIFICATION Spec
CONSTANTS
    PageSize = 2
    LogEvery = 2
    NDays = 1
    MaxTotal = 6
    Totals <- MCTotals
    NamedByIndex = TRUE
INVARIANTS
    RowsArePrefix
    ReturnedComplete
    ScrollsReleased
PROPERTIES
    Terminates
