SPECIFICATION FairSpec
CONSTANTS
    c1 = c1
    c2 = c2
    NoClient = NoClient
    Client <- ClientValue
    Transport <- TransportValue
    Requests <- RequestsValue
    Pieces = 2
    Capacity = 2
    SleepSuffices = TRUE
    MaxFault = 1
INVARIANTS TypeOK  EndsComplete ServerSurvives
PROPERTIES  Served
CHECK_DEADLOCK FALSE
