SPECIFICATION Spec
CONSTANTS
    p = p
    q = q
    Passages = {p, q}
    MaxPacket = 2
    MaxCalls = 1
    OperatingCeiling = 9
    NewestBudget = 5
    FullWeight = 3
    PointerWeight = 1
    Settings <- HostSearching
    UserWeights = {1, 6}
    ResearchCap = 2
    CalcCap = 1
    MaxQueries = 1
    SubjectChanges = FALSE
    MaxTurns = 3
    MaxRounds = 0
SYMMETRY Symm
INVARIANTS
    EvidenceTextOnce
    OversizedRequestExplained
    HeldIsNamed
PROPERTIES
    PrefixKept
    ResumeExtendsSaved
    EvictKeepsCited
