SPECIFICATION FairSpec
CONSTANTS
    Conns = {c1, c2}
    NoConn = NoConn
    Backoff = 0
    MaxRequests = 2
    MaxLosses = 1
    MaxSilent = 0
    MaxLine = 3
PROPERTIES
    ConfirmedOrRecovering
    AlarmConverges
CHECK_DEADLOCK FALSE
