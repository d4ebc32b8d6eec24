SPECIFICATION FairSpec
CONSTANTS
    r1 = r1
    w1 = w1
    w2 = w2
    f1 = f1
    f2 = f2
    Readers = {r1}
    Writers = {w1, w2}
    NoThread = NoThread
    Files = {f1, f2}
    Segments = {0}
    MaxCalls = 2
    Spurious = FALSE
INVARIANTS
    WriteLocksAccounted
PROPERTIES
    MutexesReleased
    StoreReturns
CHECK_DEADLOCK FALSE
