CONSTANTS
    Msgs = {m1, m2}
    Claims = {c1}
    NoClaim = NoClaim
    Deleters = {d1}
    ClaimTtls = {2}
    Graces = {1}
    MsgTtls = {2}
    Limits = {2}
    GcBatch = 1
    MaxTime = 3
SPECIFICATION FairSpec
INVARIANTS MessageKept RemovedStaysOut RunningClaimRecorded
PROPERTY ExpiredIdsCollected
CHECK_DEADLOCK FALSE
