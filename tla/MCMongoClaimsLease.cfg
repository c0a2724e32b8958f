CONSTANTS
    MsgIds = {1}
    Claims = {c1, c2}
    NoClaim = NoClaim
    Deleters = {d1}
    Poppers = {p1}
    ClaimTtls = {1, 2}
    Graces = {0}
    MsgTtls = {1}
    Limit = 1
    PopLimit = 1
    MaxTime = 3
SYMMETRY Symmetry
SPECIFICATION Spec
PROPERTY ImplementsLease
 
CHECK_DEADLOCK FALSE
