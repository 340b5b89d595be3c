SPECIFICATION Spec
INVARIANTS
    DoneMeansAnswered
    AnswerShown
PROPERTIES
    ClientEnds
CHECK_DEADLOCK FALSE
