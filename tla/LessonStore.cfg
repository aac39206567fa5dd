SPECIFICATION Spec
CONSTANTS
    Clients = {c1, c2}
    Subjects = {"maths"}
    Retries = 2
    MaxLessons = 2
    MaxSessions = 2
    MaxTurns = 2
    MaxFailures = 1
    MaxCrashes = 1
SYMMETRY Windows
CONSTRAINT OneFault
INVARIANTS
    KeptInOrder
    OwnLesson
PROPERTIES
    LogKeepsTurns
    TurnComesWithLog
CHECK_DEADLOCK FALSE
