SPECIFICATION Spec
CONSTANTS
    Unit = 6000
    Questions <- MCQuestions
    Archives <- MCArchives
    Tier <- MCTier
    Articles <- MCArticles
    Count <- MCCount
    Suggested <- MCSuggested
    Parts <- MCParts
    Halves <- MCHalves
    Joined <- MCJoined
    Variants <- MCVariants
    Dense <- MCDense
    Generic <- MCGeneric
    Structural <- MCStructural
    Numbers <- MCNumbers
    Years <- MCYears
    Superlatives <- MCSuperlatives
    Cues <- MCCues
    Soft = 1
    Hard = 2
    Cap = 2
    Budget = 5
    CacheSize = 1
    MaxRequests = 2
    MaxFailures = 1
INVARIANTS StatusHonest OvertimeBounded ResponseBounded Citable
PROPERTIES RequestsEnd
