CONSTANTS
    p1 = p1
    p2 = p2
    p3 = p3
    p4 = p4
    Producers = {p1, p2, p3}
    Batch <- Singles
    Stalls = TRUE
    Removals = FALSE
    MaxLost = 0
    MaxCounter = 9
SPECIFICATION FairSpec
PROPERTY PostsEnd
CHECK_DEADLOCK FALSE
