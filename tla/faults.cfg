SPECIFICATION Spec
CONSTANTS
    s1 = s1
    s2 = s2
    w1 = w1
    w2 = w2
    Streams <- TwoStreams
    Writers <- TwoWriters
    StreamOf <- SharedStreamOf
    Payload <- SharedPayload
    MaxPayload = 2
    DelayedAck = TRUE
    Credit = 2
    RecvWindow = 3
    DevSizes = {2}
    MaxReads = 0
    MaxDevWrites = 1
    Misbehave = TRUE
    MayStall = TRUE
    MayUnplug = FALSE
CHECK_DEADLOCK FALSE
INVARIANTS
    NoLostSendWakeup
    SendCreditConserved
    OvershootBounded
