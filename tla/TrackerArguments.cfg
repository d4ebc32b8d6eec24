SPECIFICATION Spec
CONSTANTS
    ThreadLimit = 3
    FdLimit = 2
    MaxMessages = 2
    NoThread = NoThread
INVARIANTS
    OneThreadPerClient
CHECK_DEADLOCK FALSE
