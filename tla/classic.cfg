SPECIFICATION FairSpec
CONSTANTS
    s1 = s1
    w1 = w1
    Streams <- OneStream
    Writers <- OneWriter
    StreamOf <- OneWriterOf
    Payload <- OneWriterPayload
    MaxPayload = 2
    DelayedAck = FALSE
    Credit = 1
    RecvWindow = 3
    DevSizes = {1}
    MaxDevChunk = 1
    Stream <- TheStream
    MaxReads = 3
    MaxDevWrites = 2
    Misbehave = FALSE
    MayStall = FALSE
    MayUnplug = TRUE
CHECK_DEADLOCK FALSE
INVARIANTS
    NoLostReadWakeup
    NothingBehindClose
    EofMeansDrained
PROPERTIES
    SendsWithinGrant
    AcksWhatIsRead
    OpenSettles
    WriteSettles
    CloseReclaims
    ReadIsAcked
