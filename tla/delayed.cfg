SPECIFICATION FairSpec
CONSTANTS
    s1 = s1
    w1 = w1
    Streams <- OneStream
    Writers <- OneWriter
    StreamOf <- OneWriterOf
    Payload <- OneWriterPayload
    MaxPayload = 2
    DelayedAck = TRUE
    Credit = 1
    RecvWindow = 3
    DevSizes = {1, 2}
    MaxDevChunk = 2
    Stream <- TheStream
    MaxReads = 2
    MaxDevWrites = 2
    Misbehave = FALSE
    MayStall = FALSE
    MayUnplug = TRUE
CHECK_DEADLOCK FALSE
INVARIANTS
    TypeOK
PROPERTIES
    SendsWithinGrant
    AcksWhatIsRead
    WriteSettles
