SPECIFICATION FairSpec
CHECK_DEADLOCK FALSE
CONSTANTS
    pem = pem
    old = old
    new1 = new1
    Tabs = {1, 2}
    PemKeys <- PemFiles
    NewKeys <- Generated
    NoItem = NoItem
    Corrupt = Corrupt
    FirstItems <- SomeItems
    Known <- KnownKeys
    HeaderSize = 24
    TokenSize = 20
    BannerSize = 60
    MaxAttempts = 2
    MaxActions = 3
    MaxFaults = 1
PROPERTIES
    KeysLeaveOnlyByDeletion
    DeletedIsGone
    PromptOnlyIfUnknown
    ConnectSettles
