CONSTANTS
    p1 = p1
    p2 = p2
    p3 = p3
    p4 = p4
    Producers = {p1, p2, p3, p4}
    Batch <- Singles
    Stalls = FALSE
    Removals = FALSE
    MaxLost = 0
    MaxCounter = 9
SYMMETRY Symmetry
SPECIFICATION Spec
INVARIANT ObserverMissesNothing
CHECK_DEADLOCK FALSE
