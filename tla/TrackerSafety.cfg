SPECIFICATION FairSpec
CONSTANTS
    ThreadLimit = 3
    FdLimit = 2
    MaxMessages = 2
    NoThread = NoThread
INVARIANTS
    TypeOK
    ExitsForCause
    AnswersReachAsker
    NoDescriptorLost
PROPERTIES
    MessagesReceived
    DescriptorsReturned
CHECK_DEADLOCK FALSE
