CONSTANTS
    None = None
    Launches = {l1, l2, l3}
    Clients <- MCClients
    Binaries <- MCBinaries
    BinaryOf <- MCBinaryOf
    Commands = {"start"}
    Hazards = {}
    MaxMishaps = 2
    old = old
    new = new
    hook = hook
    user = user
SPECIFICATION FairSpec
PROPERTIES
    HooksRestoreOwner
CHECK_DEADLOCK FALSE
