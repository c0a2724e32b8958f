CONSTANTS
    Procs = {p1, p2}
    Pools = {1, 2}
    Weight <- MCWeight
    Default = default
    NoEntry = none
    Msgs = {m1}
    Virtual = TRUE
    Shared = TRUE
    Sql = TRUE
    CacheTTL = 1
SPECIFICATION FairSpec
INVARIANTS  WeightedShare
PROPERTIES  RoutesForgotten
CHECK_DEADLOCK FALSE
