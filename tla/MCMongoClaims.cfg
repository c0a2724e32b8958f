CONSTANTS
    MsgIds = {1, 2}
    Claims = {c1, c2}
    NoClaim = NoClaim
    Deleters = {}
    Poppers = {}
    ClaimTtls = {1, 2}
    Graces = {1}
    MsgTtls = {1}
    Limit = 2
    PopLimit = 1
    MaxTime = 2
SYMMETRY Symmetry
SPECIFICATION Spec
INVARIANT TypeOK
 
INVARIANT HeldOutlivesLease
INVARIANT OrphanedClaimsRunOut
CHECK_DEADLOCK FALSE
