SPECIFICATION GateLiveSpec
CONSTANTS
    t1 = t1
    t2 = t2
    Turns = {t1, t2}
    NoTurn = NoTurn
    MaxFrames = 1
CHECK_DEADLOCK FALSE
INVARIANTS
    StopReachesConnected
PROPERTIES
    StopEndsTurn
    SessionFreed
