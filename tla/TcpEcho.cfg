SPECIFICATION ClientSpec
CONSTANTS
    Clients = {c1, c2}
    Blocking = {c2}
    None = None
    maxLength = 2
    MaxBytes = 3
INVARIANTS
    ConnectionHasOneOwner
    DroppedOnlyOnError
    ReplyIsRequest
PROPERTIES
    ImplementsEcho
    ClientEnds
