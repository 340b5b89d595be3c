SPECIFICATION FairSpec
CONSTANTS
    Clients = {c1}
    None = None
    Requests <- MixedRequests
    Width = 1
    MaxReqs = 2
INVARIANTS
    AnsweredInOrder
    FramedUnless
PROPERTIES
    OrderlyClose
    SessionEnds
CHECK_DEADLOCK FALSE
