SPECIFICATION LiveSpec
CONSTANTS
    q1 = q1
    d = d
    Clients = {q1, d}
    Direct = {d}
    MaxCalls = 2
    NoWorker = NoWorker
CHECK_DEADLOCK FALSE
INVARIANTS
    ClosedStaysDown
    PipeIsClean
PROPERTIES
    ImplementsService
    CallsReturn
