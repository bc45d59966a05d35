SPECIFICATION LoopSpec
CONSTANTS
    a = a
    b = b
    ma = ma
    mb = mb
    ua = ua
    None = None
    Conns = {c1, c2}
    Users <- MCUsers
    Mails <- MCMails
    Owner <- MCOwner
    HasUserDb <- MCHasUserDb
    UserDbMails <- MCUserDbMails
    FailLimit <- MCFailLimit
    ListenerTls = "NEGOTIATE"
    TlsRequire = TRUE
    Faults = {}
    LinesAfterClose = FALSE
    Unlocks = "never"
    MayCrash = FALSE
INVARIANTS
    OwnMailOnly
    LoginNeedsTls
PROPERTIES
    QuitExpunges
    ImplementsService
    LockReleased
