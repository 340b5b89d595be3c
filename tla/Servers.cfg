\* Two clients with two messages each.
SPECIFICATION Spec
CONSTANTS
    Clients = {c1, c2}
    MaxMsgs = 2
INVARIANTS
    AnswersOwn
    
PROPERTIES
    Served
CHECK_DEADLOCK FALSE
