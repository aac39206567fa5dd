SPECIFICATION LiveSpec
CONSTANTS
    MaxSends = 3
    MaxEarly = 2
    MaxTroubles = 1
INVARIANTS
    StopReachesTurn
    MarksAreOwn
PROPERTIES
    SendsEnd
CHECK_DEADLOCK FALSE
