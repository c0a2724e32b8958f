SPECIFICATION Spec
CONSTANTS
    Ids = {1, 2}
    Sources = {q1}
    Subscribers = {mail, sock, ftp}
    Supported = {mail, sock}
    a = a
    b = b
    Callers = {a, b}
    Ops <- MCOps
    Stores = {"mongodb", "redis", "swift"}
    None = None
    NoSub = NoSub
    PageLimit = 1
    MaxPage = 1
    MinTtl = 2
    MaxTtl = 2
    RequireConfirmation = TRUE
SYMMETRY SubscriberSymmetry
INVARIANTS   Listed
PROPERTY DeletedStaysGone
