SPECIFICATION LoopSpec
CONSTANTS
    None = None
    u = u
    local = local
    Conns = {c1, c2}
    Users <- MCUsers
    Addrs <- MCAddrs
    InRouter <- MCInRouter
    Bare <- MCNobody
    StoreUsers <- MCStoreUsers
    OutRouter <- MCOutRouter
    BareOut <- MCNobody
    HasDomain <- MCAddrs
    DbFaults = {}
    PoolSize = 2
    MaxRcpt = 2
    FailLimit <- MCFailLimit
    MaxScore = 0
    ListenerTls = "NONE"
    AuthOffer = "ANY"
    AuthRequire = FALSE
    FixedUser = None
    MaxSize = 0
    HeaderLen = 1
    LineLens = {}
    MaxData = 2
    MaxHops = 1
    LinesAfterClose = FALSE
INVARIANTS
    NoSharedPath
    BusyIsReferred
PROPERTIES
    ImplementsService
    PathsReturned
