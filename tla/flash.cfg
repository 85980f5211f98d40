SPECIFICATION FairSpec
CHECK_DEADLOCK FALSE
CONSTANTS
    ours = ours
    theirs = theirs
    Phones <- TwoPhones
    Ours <- ours
    HasSerial = TRUE
    Twin = TRUE
    OtherModes = {"bootloader", "android"}
    Logical <- Dynamic
    Sources <- FullImages
    Scripts <- SafeScripts
    Options <- SomeOptions
    Starts <- SomeStarts
    MaxFaults = 1
    MaxUnplugs = 1
INVARIANT UserspaceOnly
PROPERTIES CommitsWhole OnlyOurs InstallSettles UnplugIsReported
