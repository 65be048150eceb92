\* The task stops when it is done.
CHECK_DEADLOCK FALSE
SPECIFICATION Spec
CONSTANTS
    BatchSize = 2
    MaxTries = 2
    MaxLines = 5
    Files <- MCFiles
INVARIANTS
    TypeOK
    Accounted
    EndsWithEveryLine
    AttemptsBounded
    OutcomePerBatch
    ToldIsHandled
PROPERTIES
    NoResendAfterOutcome
    EveryStepCounts
    ImplementsBatchWriter
    Terminates
