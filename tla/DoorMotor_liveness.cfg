SPECIFICATION FairSpec
CONSTANTS
    MaxRead = 4
    LowThreshold = 1
    HighThreshold = 3
    PrecisionMul = 1
    DirectionToClose = 0
    Conns = {c1, c2}
    NoConn = NoConn
    MotorThreshold = 2
    MaxRequests = 2
    MaxTurns = 0
    MaxCrashes = 1
PROPERTIES
    EveryRequestAnswered
    ProgressEnds
CHECK_DEADLOCK FALSE
