CONSTANTS
    LittleEndian = TRUE
    n1 = n1
    n2 = n2
    Name = {n1, n2}
    NoName = NoName
    Known <- MCKnown
    Answer <- MCAnswer
    MaxChange = 1
SPECIFICATION Spec
SYMMETRY Symmetry
INVARIANTS
    ChosenFits
    TextIsEnough
CHECK_DEADLOCK FALSE
