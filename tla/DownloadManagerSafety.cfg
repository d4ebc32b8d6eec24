SPECIFICATION FairSpec
CONSTANTS
    a1 = a1
    a2 = a2
    b1 = b1
    Addresses = {a1, a2, b1}
    IPv6 = {b1}
    GivenPeers <- Lists
    MaxPeers = 4
    MaxAnswer = 2
INVARIANTS
    TypeOK
    OneWorkerPerPeer
    UnnoticedForCause
    NoThreadLeft
PROPERTIES
    ManagerEnds
CHECK_DEADLOCK FALSE
