SPECIFICATION SessionSpec
CONSTANTS
    Ids = {1, 2}
    Sources = {q1}
    Subscribers = {mail, sock, ftp}
    Supported = {mail, sock}
    a = a
    w = w
    Callers = {a, w}
    Ops <- MCOps
    Stores = {"mongodb"}
    None = None
    NoSub = NoSub
    PageLimit = 1
    MaxPage = 1
    MinTtl = 2
    MaxTtl = 2
    RequireConfirmation = FALSE
    Conn = w
    Socket = sock
    MaxTokens = 2
    Length = 2
INVARIANTS SessionTypeOK CutByLatestToken DeliveredWhole 
PROPERTIES  WalkEnds
