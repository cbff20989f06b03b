SPECIFICATION FairSpec
CONSTANTS
    Threads = {t1, t2}
    ReadConds = {c1, c2}
    GuardConds = {g1}
    Null = null
    Deletes = TRUE
    UndoTail = FALSE
    DeleteReader = TRUE
    DetachLast = FALSE
    MaxDeferred = 2
CHECK_DEADLOCK FALSE
INVARIANTS
    NoLostWakeup
    
PROPERTY SleeperWakes
