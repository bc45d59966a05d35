SPECIFICATION FairSpec
CONSTANTS
    m1 = m1
    m2 = m2
    m3 = m3
    alice = alice
    bob = bob
    d1 = d1
    d2 = d2
    d3 = d3
    h = h
    None = None
    Mails <- MCTwo
    Notices = {n1, n2}
    Addresses <- MCAddresses
    Remotes <- MCHandedOver
    Handoffs <- MCHandoffs
    BadHosts <- MCUnnamed
    SenderOf <- MCSender
    RemoteOf <- MCHanded
    LetterOf <- MCLetter
    HomeOf <- MCHalfHome
    BounceTo <- MCNoCopy
    Retries = 2
    Chunk = 1
    Faults = {}
    MaxMishaps = 0
    MaxLate = 0
    Coalesce = FALSE
PROPERTIES
    EventuallyLeaves
