SPECIFICATION FairSpec
CONSTANTS
    MaxRequests = 6
    Timeout = 4
    Parts = 1
INVARIANTS
    TypeOK
    AnswerMatchesRequest
PROPERTIES
    RequestsReturn
    ImplementsRequests
CHECK_DEADLOCK FALSE
