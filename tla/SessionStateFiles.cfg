CONSTANTS
    Sessions = {s1, s2}
    Base = Base
    Pids = {p1, p2}
    Evidence = {e1, e2}
    Torn = Torn
    None = None
    MaxSequence = 3
    MaxMishaps = 2
SPECIFICATION Spec
INVARIANTS
    TypeOK
    AcknowledgedSurvives
    EvidenceKept
PROPERTIES
    StoreIsAtomic
SYMMETRY MCSymmetry
CHECK_DEADLOCK FALSE
