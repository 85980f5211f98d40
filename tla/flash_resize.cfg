SPECIFICATION Spec
CHECK_DEADLOCK FALSE
CONSTANTS
    ours = ours
    theirs = theirs
    Phones <- TwoPhones
    Ours <- ours
    HasSerial = TRUE
    Twin = TRUE
    OtherModes = {"android"}
    Logical <- Dynamic
    Sources <- OneSource
    Scripts <- SuperScripts
    Options <- OneOption
    Starts <- OneStart
    MaxFaults = 0
    MaxUnplugs = 0
PROPERTY CommitsWhole
