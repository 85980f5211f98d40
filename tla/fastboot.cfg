SPECIFICATION FairSpec
CONSTANTS
    Pieces = 2
    Chunks = 2
    Timeout = 3
    MaxInfo = 2
    MaxJobs = 3
    Capacity = 3
    MayRefuse = TRUE
    MayUnplug = TRUE
CHECK_DEADLOCK FALSE
INVARIANTS
    TypeOK
    AnswersMatch
    SlowIsNotDead
    PiecesInOrder
PROPERTIES
    ResolvedIsWritten
    DeadlineHolds
    JobsSettle
