CONSTANTS
    None = None
    Launches = {l1, l2, l3}
    Clients <- MCClients
    Binaries <- MCBinaries
    BinaryOf <- MCBinaryOf
    Commands = {"start", "repair", "forget"}
    Hazards = {"damage", "contract"}
    MaxMishaps = 2
    old = old
    new = new
    hook = hook
    user = user
SPECIFICATION Spec
INVARIANTS
    TypeOK
    ReadyOwnerIsFound
PROPERTIES
    SuccessMeansReady
    OwnershipIsExclusive
CHECK_DEADLOCK FALSE
SYMMETRY MCSymmetry
