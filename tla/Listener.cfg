SPECIFICATION FairSpec
CONSTANTS
    Threads = {t1, t2}
    Readers = {r1, r2}
    Sub = sub
    Null = null
    Inherit = FALSE
    Relisten = TRUE
    MaxPipe = 2
CHECK_DEADLOCK FALSE
INVARIANTS
    NoWorkAsleep
    NoDeadCallback
    NoCallbackAfterRemove
PROPERTY DataDelivered
