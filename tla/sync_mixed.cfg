SPECIFICATION FairSpec
CONSTANTS
    stat = stat
    list = list
    pull = pull
    dry = dry
    push = push
    quit = quit
    None = None
    Ops <- MixedOps
    Kind <- MixedKind
    Unsupported = {dry}
    ToDeviceCap = 2
    ToHostCap = 3
    MaxFrames = 1
    MaxCalls = 3
    MayBreak = TRUE
    SourceMayFail = TRUE
    MayHangUp = TRUE
    MayLose = TRUE
CHECK_DEADLOCK FALSE
INVARIANTS
    RepliesAreOwnIfDrained
    FileIsWhole
    TruncationIsReported
PROPERTIES
    OpsSettle
    ServesInOrder
