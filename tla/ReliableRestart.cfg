SPECIFICATION Spec
CHECK_DEADLOCK FALSE
CONSTANTS
    MaxSnr = 2
    CountMod = 2
    Durable = TRUE
    MustAck = TRUE
    Depth = 2
    Lifespan = TRUE
    Restarts = TRUE
    CacheAcks = TRUE
    MaxSamples = 2
    MaxBits = 2
    MaxHb = 1
    MaxAck = 1
    MaxFaults = 1
    Overtaking = TRUE
INVARIANTS
    ConfirmedIsReceived
PROPERTIES
    Reliable
