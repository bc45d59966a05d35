SPECIFICATION FairSpec
CONSTANTS
    Pids = {1, 2, 3, 4}
    MaxAlive <- MCMaxAlive
    Starters = {"root"}
    Accounts = {"mail", "post"}
    None = None
    Options <- MCOptions
    Installations <- MCInstallations
    AddressesOf <- MCAddressesOf
INVARIANTS
    ServesAsConfigured
    PidfileNamesServer
PROPERTIES
    StopsWhenTold
CHECK_DEADLOCK FALSE
