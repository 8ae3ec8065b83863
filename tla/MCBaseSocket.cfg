CONSTANTS
    s1 = s1
    s2 = s2
    s3 = s3
    s4 = s4
    Socket = {s1, s2, s3, s4}
    Fd = {0, 1, 2, 3, 4, 5, 6}
    Std = {0, 1, 2}
    MaxFile = 7
SPECIFICATION Spec
SYMMETRY ObjectSymmetry
INVARIANTS
    TypeOK
    UniqueOwner
    HoldsItsFile
    NoLeak
PROPERTIES
    ClosedByOwner
