SPECIFICATION Spec
CHECK_DEADLOCK FALSE
CONSTANTS
    ours = ours
    theirs = theirs
    Phones <- TwoPhones
    Ours <- ours
    HasSerial = TRUE
    Twin = TRUE
    OtherModes = {"fastbootd"}
    Logical <- Dynamic
    Sources <- OneSource
    Scripts <- NoScripts
    Options <- OneOption
    Starts <- OneStart
    MaxFaults = 0
    MaxUnplugs = 0
PROPERTY OnlyOurs
