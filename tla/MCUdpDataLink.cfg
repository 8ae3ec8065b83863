CONSTANTS
    p1 = p1
    p2 = p2
    NoPeer = NoPeer
    Peer = {p1, p2}
    l1 = l1
    l2 = l2
    Link = {l1, l2}
    Length = {0, 1, 3}
    Size = {2}
    ScanMode = {"first", "never"}
    QueueSize = 2
    MaxDatagram = 2
    MaxUnblock = 1
    MaxFault = 1
SPECIFICATION Spec
SYMMETRY Symmetry
INVARIANTS
    TypeOK
    CutOnlyWhenFull
    AuthorKnown
    NoEarlyReturn
CHECK_DEADLOCK FALSE
