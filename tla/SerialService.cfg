SPECIFICATION FairSpec
CONSTANTS
    Lines <- SomeLines
    MaxLines = 2
    MaxKeys = 2
    LineMax = 0
INVARIANTS
    OneOperation
    ShownInOrder
PROPERTIES
    StopEnds
CHECK_DEADLOCK FALSE
