SPECIFICATION Spec
CONSTANTS
    r1 = r1
    r2 = r2
    w1 = w1
    f1 = f1
    Readers = {r1, r2}
    Writers = {w1}
    NoThread = NoThread
    Files = {f1}
    Segments = {0}
    MaxCalls = 3
    Spurious = TRUE
INVARIANTS
    SessionKeepsLock
SYMMETRY Symmetry
CHECK_DEADLOCK FALSE
