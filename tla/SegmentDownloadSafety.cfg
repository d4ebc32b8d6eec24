SPECIFICATION FairSpec
CONSTANTS
    w1 = w1
    w2 = w2
    s1 = s1
    s2 = s2
    x = x
    Workers = {w1, w2}
    Segments = {s1, s2}
    Others = {x}
    NoSegment = NoSegment
    Lists <- SomeLists
    MayRecreate = TRUE
INVARIANTS
    TypeOK
    ExclusiveClaim
    ClaimsMatch
    CompletedIsFinal
    CompleteIsStored
    MissingWasTried
PROPERTIES
    StoredBytesKept
    WorkersFinish
    ImplementsLedger
CHECK_DEADLOCK FALSE
