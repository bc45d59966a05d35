SPECIFICATION Spec
CONSTANTS
    a = a
    b = b
    ma = ma
    ua = ua
    None = None
    Conns = {c1, c2}
    Users <- MCUsers
    Mails <- MCMails
    Owner <- MCOwner
    HasUserDb <- MCHasUserDb
    UserDbMails <- MCUserDbMails
    FailLimit <- MCFailLimit
    ListenerTls = "ONLY"
    TlsRequire = FALSE
    Faults = {"read", "attach", "mark", "delete", "unlock"}
    LinesAfterClose = FALSE
    Unlocks = "careful"
    MayCrash = TRUE
INVARIANTS
    TypeOK
    MutualExclusion
PROPERTIES
    ExpungeOnlyFlagged
