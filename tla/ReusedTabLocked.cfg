CONSTANTS
    None = None
    Tabs = {t1}
    Labels <- MCLabels
    Candidates <- MCCandidates
    Evidence <- MCEvidence
    NumberLabel <- MCNumberLabel
    RequiredObservations = 2
    Grace = 4
    Quiet = 2
    Deadline = 5
    Poll = 1
    MaxSamples = 3
    Period = 10
    DirectoryCandidate <- Directory
    Hazards = {"reuse"}
    MaxChurn = 2
    MCStartLabels = {"1"}
SPECIFICATION MCSpec
PROPERTIES
    DefaultLabelNeverLocked
