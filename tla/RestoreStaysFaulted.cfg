CONSTANTS
    None = None
    Launches = {l1, l2, l3}
    Clients <- MCClients
    Binaries <- MCBinaries
    BinaryOf <- MCBinaryOf
    Commands = {}
    Hazards = {}
    MaxMishaps = 2
    old = old
    new = new
    hook = hook
    user = user
SPECIFICATION FairSpec
PROPERTIES
    RestoreBringsOwner
CHECK_DEADLOCK FALSE
