SPECIFICATION FairSpec
CONSTANTS
    Clients = {c1}
    None = None
    Copied = 1
    MaxLen = 2
    MaxMsgs = 2
INVARIANTS
    AnswersMatch
PROPERTIES
    IntactUnlessLate
    SessionProgress
CHECK_DEADLOCK FALSE
