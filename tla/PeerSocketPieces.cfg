SPECIFICATION Spec
CONSTANTS
    MaxRequests = 4
    Timeout = 2
    Parts = 2
INVARIANTS
    AnswerMatchesRequest
CHECK_DEADLOCK FALSE
