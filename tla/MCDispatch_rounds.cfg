SPECIFICATION Spec
CONSTANTS
    m1 = m1
    m2 = m2
    m3 = m3
    alice = alice
    bob = bob
    d1 = d1
    d2 = d2
    d3 = d3
    h = h
    None = None
    Mails <- MCPair
    Notices = {n1, n2, n3, n4}
    Addresses <- MCAddresses
    Remotes <- MCDomains
    Handoffs = {}
    BadHosts <- MCUnnamed
    SenderOf <- MCSender
    RemoteOf <- MCRemote
    LetterOf <- MCLetter
    HomeOf <- MCHomeless
    BounceTo <- MCNoCopy
    Retries = 1
    Chunk = 10
    Faults = {"query", "lookup", "log", "delete", "insert", "dns", "crash", "another"}
    MaxMishaps = 1
    MaxLate = 1
    Coalesce = FALSE
SYMMETRY MCSame
INVARIANTS
    TypeOK
    NothingLost
    TwiceOnlyInDoubt
    NoRowSkipped
    ContentIsContent
PROPERTIES
    OneFailureAnAttempt
    ImplementsService
