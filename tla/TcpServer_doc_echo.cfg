SPECIFICATION Spec
CONSTANTS
    MaxSessions = 1
    RxSize = 2
    TxSize = 2
    MaxConn = 1
    MaxBytes = 3
INVARIANT Echo
CHECK_DEADLOCK FALSE
