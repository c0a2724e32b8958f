CONSTANTS
    Msgs = {1, 2}
    Claims = {c1, c2}
    NoClaim = none
    Deleters = {d1}
    ClaimTtls = {1}
    Graces = {0}
    MsgTtls = {2}
    Limits = {2}
    PageSize = 1
    Retry = FALSE
    MaxTime = 2
SYMMETRY Symmetry
SPECIFICATION Spec
INVARIANTS  ReadsOwn 
 
CHECK_DEADLOCK FALSE
