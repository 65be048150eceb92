\* The task stops when the export has returned or thrown.
CHECK_DEADLOCK FALSE
SPECIFICATION Spec
CONSTANTS
    PageSize = 1
    LogEvery = 2
    NDays = 2
    MaxTotal = 3
    Totals <- MCTotals
    NamedByIndex = TRUE
INVARIANTS
    ExportOverMeansAll
