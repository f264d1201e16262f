SPECIFICATION FairSpec
CONSTANTS
    Requests <- MCRequests
    Ids <- MCIds
    None = None
    IdOf <- MCIdOf
    Kind <- MCKind
    Workers = 2
    QueueLimit = 2
    RecentLimit = 1
INVARIANTS TypeOK AcceptedMeansApplied NoReplay HandoffIsLast ActionableTriggerKept
PROPERTIES EveryRequestIsAnswered HandoffEndsOwner
CHECK_DEADLOCK FALSE
