SPECIFICATION Spec
CONSTANTS
    None = None
    u = u
    v = v
    w = w
    x = x
    local = local
    moved = moved
    bare = bare
    closed = closed
    hole = hole
    remote = remote
    nowhere = nowhere
    Conns = {c1}
    Users <- MCOneUser
    Addrs <- MCRefused
    InRouter <- MCInRouter
    Bare <- MCBare
    StoreUsers <- MCStoreUsers
    OutRouter <- MCOutRouter
    BareOut <- MCNobody
    HasDomain <- MCHasDomain
    DbFaults = {"resolve"}
    PoolSize = 3
    MaxRcpt = 2
    FailLimit <- MCFailLimit
    MaxScore = 0
    ListenerTls = "NEGOTIATE"
    AuthOffer = "TLSONLY"
    AuthRequire = FALSE
    FixedUser = None
    MaxSize = 5
    HeaderLen = 1
    LineLens = {1, 2}
    MaxData = 6
    MaxHops = 1
    LinesAfterClose = TRUE
INVARIANTS
    TypeOK
    RelayForUsersOnly
    NoEarlyExit
    NoNameWithoutUser
    UserImpliesTls
    CutOnlyAtLimit
