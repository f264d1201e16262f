SPECIFICATION Spec
CONSTANTS
    None = None
    Error = Error
    Depth = 16
    Documents <- MCDocuments
    Accepts <- MCAccepts
    TabIds = {"t1", "t2"}
    PaneIds = {"p1", "p2", "p3", "gone"}
    Directories = {"", "/c", "/f"}
    Additive <- MCAdditive
    Upgraded <- MCUpgraded
    Releases <- MCReleases
    MinimumVersion <- MCMinimumVersion
    MinimumProtocol = 19
    MaxMishaps = 3
INVARIANTS
    ContractTypeOK
    AcceptedRequestsPass
    AcceptedRepliesDecode
    SteadyHerdrIsAccepted
    OneReleaseAnswered
    FocusIsCoherent
\* The validation ends.
CHECK_DEADLOCK FALSE
