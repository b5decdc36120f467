SPECIFICATION Spec
CONSTANTS
    Releases <- MCReleases
    DeveloperSequence <- MCDeveloperSequence
    MaxGeneration = 5
    Syncs = {TRUE, FALSE}
    LauncherSequence = 1
    InitialImages = {1, 2}
    Openings = {"Settled"}
INVARIANTS
    KnownGoodLaunches
    OneUnattendedTrial
PROPERTIES
    BootsProvenOrOnTrial
    FloorKept
    ImplementsRegister
