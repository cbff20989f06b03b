SPECIFICATION Spec
CHECK_DEADLOCK FALSE
CONSTANTS
    MaxSnr = 3
    CountMod = 2
    Durable = TRUE
    MustAck = FALSE
    Depth = 2
    Lifespan = FALSE
    Restarts = FALSE
    CacheAcks = TRUE
    MaxSamples = 2
    MaxBits = 3
    MaxHb = 1
    MaxAck = 1
    MaxFaults = 0
    Overtaking = FALSE
INVARIANTS
    
    OnlyDroppedGivenUp
PROPERTIES
    Reliable
