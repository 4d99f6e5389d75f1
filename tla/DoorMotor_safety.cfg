SPECIFICATION Spec
CONSTANTS
    MaxRead = 6
    LowThreshold = 2
    HighThreshold = 4
    PrecisionMul = 1
    DirectionToClose = 1
    Conns = {c1, c2}
    NoConn = NoConn
    MotorThreshold = 3
    MaxRequests = 2
    MaxTurns = 1
    MaxCrashes = 1
SYMMETRY Sym
INVARIANTS
    NoOverrun
    RelayCut
    OneAtATime
    NoStuckProgress
    FieldsAgree
    MessageTrue
PROPERTIES
    MovesAsAsked
    ImplementsLockService
CHECK_DEADLOCK FALSE
