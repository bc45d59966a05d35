SPECIFICATION Spec
CONSTANTS
    None = None
    u = u
    v = v
    w = w
    x = x
    local = local
    moved = moved
    bare = bare
    closed = closed
    hole = hole
    remote = remote
    nowhere = nowhere
    Conns = {c1}
    Users <- MCUsers
    Addrs <- MCKept
    InRouter <- MCInRouter
    Bare <- MCBare
    StoreUsers <- MCStoreUsers
    OutRouter <- MCOutRouter
    BareOut <- MCNobody
    HasDomain <- MCHasDomain
    DbFaults = {"route", "store"}
    PoolSize = 2
    MaxRcpt = 2
    FailLimit <- MCFailLimit
    MaxScore = 0
    ListenerTls = "NONE"
    AuthOffer = "ANY"
    AuthRequire = TRUE
    FixedUser = None
    MaxSize = 0
    HeaderLen = 1
    LineLens = {}
    MaxData = 6
    MaxHops = 1
    LinesAfterClose = FALSE
INVARIANTS
    AcceptedIsKept
    SendsFromOwnPaths
