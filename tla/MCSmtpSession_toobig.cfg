SPECIFICATION Spec
CONSTANTS
    None = None
    u = u
    v = v
    w = w
    x = x
    local = local
    moved = moved
    bare = bare
    closed = closed
    hole = hole
    remote = remote
    nowhere = nowhere
    Conns = {c1}
    Users <- MCOneUser
    Addrs <- MCOneAddr
    InRouter <- MCInRouter
    Bare <- MCBare
    StoreUsers <- MCStoreUsers
    OutRouter <- MCOutRouter
    BareOut <- MCNobody
    HasDomain <- MCHasDomain
    DbFaults = {}
    PoolSize = 1
    MaxRcpt = 2
    FailLimit <- MCFailLimit
    MaxScore = 0
    ListenerTls = "NONE"
    AuthOffer = "ANY"
    AuthRequire = FALSE
    FixedUser = None
    MaxSize = 5
    HeaderLen = 1
    LineLens = {0, 1, 2}
    MaxData = 8
    MaxHops = 1
    LinesAfterClose = FALSE
INVARIANTS
    SizeLimited
