CONSTANTS
    c1 = c1
    c2 = c2
    x1 = x1
    x2 = x2
    Client = {c1, c2}
    Server = "server"
    Place = {x1, x2}
    Fd <- MCFd
    Std <- MCStd
    MaxFile = 5
    Backlog = 1
    MaxHandle = 2
SPECIFICATION Spec
SYMMETRY Symmetry
INVARIANTS
    TypeOK
    LinkUsable
    SocketForRetry
    ConnectionKept
    SocketsHeld
CHECK_DEADLOCK FALSE
