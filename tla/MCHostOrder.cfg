CONSTANTS
    o1 = o1
    o2 = o2
    Object = {o1, o2}
    Value <- MCValue
    Registered <- MCRegistered
    NoValue = NoValue
    SenderLittle = FALSE
    ReceiverLittle = TRUE
SPECIFICATION OrderSpec
SYMMETRY Symmetry
INVARIANTS
    ValueArrives
