SPECIFICATION FairSpec
CONSTANTS
    a1 = a1
    a2 = a2
    b1 = b1
    Addresses = {a1, b1}
    IPv6 = {b1}
    GivenPeers <- NoPeers
    MaxPeers = 4
    MaxAnswer = 2
PROPERTY
    ReportedPeerGetsWorker
CHECK_DEADLOCK FALSE
