SPECIFICATION Spec
CHECK_DEADLOCK FALSE
CONSTANTS
    r1 = r1
    r2 = r2
    Null = Null
    Readers <- One
    Total = 3
    PerMsg = 1
    Small = {}
    MaxSnr = 2
INVARIANT FirstMissingExact
