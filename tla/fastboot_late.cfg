SPECIFICATION Spec
CONSTANTS
    Pieces = 1
    Chunks = 1
    Timeout = 2
    MaxInfo = 1
    MaxJobs = 2
    Capacity = 1
    MayRefuse = FALSE
    MayUnplug = FALSE
CHECK_DEADLOCK FALSE
INVARIANT AnswersAreOwn
