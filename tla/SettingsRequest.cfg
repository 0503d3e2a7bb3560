CONSTANTS
    Clients = {c1, c2}
    MaxRequests = 3
    MaxOpens = 3
SPECIFICATION Spec
INVARIANTS AnswersArriveRight
PROPERTIES Answered
CHECK_DEADLOCK FALSE
