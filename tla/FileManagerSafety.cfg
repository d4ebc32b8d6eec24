SPECIFICATION Spec
CONSTANTS
    r1 = r1
    r2 = r2
    r3 = r3
    w1 = w1
    f1 = f1
    f2 = f2
    Readers = {r1, r2, r3}
    Writers = {w1}
    NoThread = NoThread
    Files = {f1, f2}
    Segments = {0}
    MaxCalls = 2
    Spurious = TRUE
INVARIANTS
    TypeOK
    MutexesBalanced
    OneEntryPerFile
    EntryHasSession
    ReadsOwnSegment
PROPERTIES
    ImplementsFileLocks
SYMMETRY Symmetry
CHECK_DEADLOCK FALSE
