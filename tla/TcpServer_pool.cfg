SPECIFICATION Spec
CONSTANTS
    MaxSessions = 2
    RxSize = 1
    TxSize = 1
    MaxConn = 3
    MaxBytes = 2
INVARIANTS
    TypeOK
    NoDanglingHandler
    ReadOutstanding
    AcceptBudget
PROPERTIES
    StartedSessionStays
CHECK_DEADLOCK FALSE
