CONSTANTS
    p1 = p1
    p2 = p2
    p3 = p3
    p4 = p4
    Producers = {p1, p2}
    Batch <- OneBatch
    Stalls = TRUE
    Removals = TRUE
    MaxLost = 1
    MaxCounter = 5
SPECIFICATION Spec
INVARIANT TypeOK
INVARIANT VisibleBatchWhole
INVARIANT AckedVisible
CHECK_DEADLOCK FALSE
