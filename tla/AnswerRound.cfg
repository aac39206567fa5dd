SPECIFICATION Spec
CONSTANTS
    Units <- Sentences
    MaxUnits = 4
    MaxCalls = 2
    InFlight = 3
    Preamble = 1
    MinRepeats = 3
    MinPeriods = 2
    Periods = {2}
    TailSkip = 1
    Interpreter = 1
    Library = 2
    Works = {0, 1, 3}
    MemoryLimit = 3
    CalcCap = 1
INVARIANTS
    LoopFree
    WholeAnswer
    NoOrphan
PROPERTIES
    StopEnds
