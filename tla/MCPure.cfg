\* A query is split once.
CHECK_DEADLOCK FALSE
SPECIFICATION MCSpec
CONSTANTS
    MaxInstant = 7
    DayLength = 2
    WholeKey = WholeKey
    DateFields = {"t"}
    Fields <- MCFields
    Longer <- MCLonger
    Queries <- MCQueries
    Docs <- MCDocs
    Answers <- MCAnswers
INVARIANTS
    DaysPartition
    FileOfItsDay
    OneRowPerBucket
