SPECIFICATION WriterSpec
CONSTANTS
    MaxSnr = 3
    Durable = TRUE
    MustAck = FALSE
    Depth = 2
    Lifespan = TRUE
    Restarts = TRUE
    CountMod = 2
INVARIANTS
    WriterTypeOK
    ListWellFormed
    UnsentReachable
    WaitedForIsQueued
    RepairScheduled
    HeartbeatSparesSamples
