SPECIFICATION Spec
CHECK_DEADLOCK FALSE
CONSTANTS
    r1 = r1
    r2 = r2
    Null = Null
    Readers <- Two
    Total = 3
    Burst = 3
    PerMsg = 2
    NackBits = 4
    Drops = TRUE
    MaxFill = 1
    MaxNet = 2
INVARIANTS DeliveredWhole ContextExact 
