\* Five handlers on a strand and three threads, as in the code; pools of three
\* threads with four tasks.
SPECIFICATION Spec
CONSTANTS
    Posts = 5
    Runners = 3
    PoolTasks = 4
    PoolSize = 3
    MaxNow = 7
INVARIANTS
    NoDanglingContext
    GuardHolds
    NothingForgotten
    StrandSerial
    TimerPace
    CancelInTimeFails
PROPERTIES
    ProgramEnds
CHECK_DEADLOCK FALSE
