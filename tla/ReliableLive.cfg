SPECIFICATION LiveSpec
CHECK_DEADLOCK FALSE
CONSTANTS
    MaxSnr = 2
    CountMod = 3
    Durable = FALSE
    MustAck = TRUE
    Depth = 2
    Lifespan = FALSE
    Restarts = FALSE
    CacheAcks = TRUE
    MaxSamples = 2
    MaxBits = 2
    MaxHb = 1
    MaxAck = 1
    MaxFaults = 1
    Overtaking = FALSE
PROPERTIES
    EventuallyDelivered
