SPECIFICATION FairSpec
CHECK_DEADLOCK FALSE
CONSTANTS
    f1 = f1  f2 = f2  l1 = l1  l2 = l2
    None = None  Unknown = Unknown
    Forwarders = {f1, f2}
    Locators = {l1, l2}
    Home <- HomeTwo
    Others = {Unknown}
    Crashes = TRUE
    LocationService = TRUE
    Preset = FALSE
    Bgns = FALSE
    MinTimeout = 1
    MaxTimeout = 2
    IntMax = 127
    MayClose = TRUE
    MaxMoves = 4
    MaxFaults = 1
INVARIANTS StillSearching ReadyIsAnnounced
PROPERTY FindsForwarder
