SPECIFICATION FairSpec
CHECK_DEADLOCK FALSE
CONSTANTS
    s1 = s1  s2 = s2
    Servers = {s1, s2}
    Preconfigured = {s1}
    Prompt = FALSE
    MayFail = {"register"}
    MaxFaults = 2
    MaxMoves = 1
    MaxStops = 1
INVARIANTS StartsAlone DisabledHasReason
PROPERTY Elected
