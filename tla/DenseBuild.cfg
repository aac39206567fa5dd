SPECIFICATION Spec
CONSTANTS
    EntryCount = 8
    Kind <- MCKind
    Limits = {4, 6, 9}
    SameLimit = TRUE
    Batching <- MCBatching
    MaxRuns = 3
    None = None
    Torn = Torn
CHECK_DEADLOCK FALSE
INVARIANTS
    CheckpointIsTruth
    OpenedIsComplete
PROPERTY OpenedStays
