SPECIFICATION Spec
CONSTANTS
    Conns = {c1, c2}
    NoConn = NoConn
    Backoff = 2
    MaxRequests = 3
    MaxLosses = 1
    MaxSilent = 4
    MaxLine = 3
SYMMETRY Sym
INVARIANTS
    BtIsRecent
    WaiterWaits
    AnsweredAsAsked
CHECK_DEADLOCK FALSE
