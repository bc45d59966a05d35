SPECIFICATION Spec
CONSTANTS
    None = None
    alice = alice
    bob = bob
    f1 = f1
    f2 = f2
    exact = exact
    any = any
    p1 = p1
    p2 = p2
    Users <- MCUsers
    Files <- MCFiles
    Exprs <- MCExprs
    Orders = {1, 2, 3}
    Routers = {"any", "drop"}
    Perms = {"admin"}
    Rights0 <- MCRights
    Addrs0 <- MCAddrs
    Seq0 = 2
    ToolFaults = {"delete", "update", "insert", "commit"}
    MaxEdits = 2
    Paths <- MCPaths
    Matches <- MCMatches
    StoreFaults = {"master", "file"}
    MaxMails = 2
    MaxBreaks = 1
INVARIANTS
    NothingInherited
    KeptIsListed
PROPERTIES
    MasterForCause
    SwapKeepsRows
