CONSTANTS
    p1 = p1
    p2 = p2
    NoPeer = NoPeer
    Peer = {p1, p2}
    l1 = l1
    Link = {l1}
    Length = {2}
    Size = {2}
    ScanMode = {"first", "never"}
    QueueSize = 2
    MaxDatagram = 3
    MaxUnblock = 2
    MaxFault = 1
SPECIFICATION FairSpec
INVARIANTS
    FixedSizeWhole
PROPERTIES
    UnblockFrees
CHECK_DEADLOCK FALSE
