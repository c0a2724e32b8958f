\* One queue, two clients at two API processes, two messages.
CONSTANTS
    c1 = c1
    c2 = c2
    m1 = m1
    m2 = m2
    Clients <- MCClients
    Msgs <- MCMsgs
    None = None
    New = New
    Gone = Gone
    MinTtl = 1
    MaxTtl = 1
    MaxSize = 2
    MaxMetadata = 1
    MaxPage = 1
    MaxClaim = 1
    MinLease = 1
    MaxLease = 1
    MinGrace = 1
    MaxGrace = 1
    DefaultTtl = 1
    PopLimit = 1
SPECIFICATION Spec
SYMMETRY MCSymmetry
INVARIANTS StoredValid PurgedGone LazyPosts
