SPECIFICATION FairSpec
CONSTANTS
    MaxSessions = 1
    RxSize = 2
    TxSize = 3
    MaxConn = 1
    MaxBytes = 4
INVARIANTS
    EchoUnlessOverlapped
    EchoLengthConserved
PROPERTIES
    GoneSessionDrains
CHECK_DEADLOCK FALSE
