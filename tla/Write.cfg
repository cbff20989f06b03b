SPECIFICATION FairSpec
CONSTANTS
    Threads = {t1, t2}
    Core = core
    ListenerWrites = FALSE
    Readers = {r1, r2}
    Slots = {c1, c2, c3, c4, c5}
    Null = null
    Durabilities = {TRUE, FALSE}
    MaxSamples = 2
    Forever = FALSE
    Waiting = {TRUE}
    Reuse = FALSE
    MaxSnr = 3
CHECK_DEADLOCK FALSE
INVARIANTS
    
    UnackedExact
    NoLostWakeup
PROPERTY WaitsEnd
