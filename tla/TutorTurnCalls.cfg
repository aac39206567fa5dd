SPECIFICATION Spec
CONSTANTS
    p = p
    q = q
    Passages = {p}
    MaxPacket = 1
    MaxCalls = 2
    OperatingCeiling = 9
    NewestBudget = 4
    FullWeight = 3
    PointerWeight = 1
    Settings <- JustDefault
    UserWeights = {1, 5}
    ResearchCap = 2
    CalcCap = 1
    MaxQueries = 1
    SubjectChanges = TRUE
    MaxTurns = 2
    MaxRounds = 1
INVARIANTS
    RequestsReplayable
    AnswerClosesTurn
    ResearchBounded
PROPERTIES
    ResumeExtendsSaved
