SPECIFICATION GuardedFairSpec
CONSTANTS
    MaxRead = 4
    LowThreshold = 1
    HighThreshold = 3
    PrecisionMul = 1
    DirectionToClose = 1
    Conns = {c1}
    NoConn = NoConn
    MotorThreshold = 2
    MaxRequests = 1
    MaxTurns = 1
    MaxCrashes = 0
    MaxListeners = 2

    
PROPERTIES
    BreakInNoticed
    AlertClears
CHECK_DEADLOCK FALSE
