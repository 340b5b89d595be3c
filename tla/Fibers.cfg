SPECIFICATION FibersSpec
CONSTANT N = 60
INVARIANTS
    NeverEmpty
    ConsumedInOrder
CHECK_DEADLOCK FALSE
