CONSTANTS
    None = None
    Tabs = {t1, t2}
    Labels <- MCLabels
    Candidates <- MCCandidates
    Evidence <- MCEvidence
    NumberLabel <- MCNumberLabel
    RequiredObservations = 2
    Grace = 4
    Quiet = 2
    Deadline = 5
    Poll = 1
    MaxSamples = 3
    Period = 10
    DirectoryCandidate <- Directory
    Hazards = {"damage", "late"}
    MaxChurn = 3
    MCStartLabels = {"1"}
SPECIFICATION MCSpec
INVARIANTS
    TypeOK
    IntentDiscipline
    ScheduleAgrees
PROPERTIES
    ManualLabelKept
    RenameIsWriteAhead
    LocksAreManual
