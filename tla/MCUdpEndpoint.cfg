SPECIFICATION Spec
CONSTANTS
    c1 = c1
    c2 = c2
    x1 = x1
    x2 = x2
    Client = {c1, c2}
    Server = "server"
    Waiter = {x1, x2}
    Fd <- MCFd
    Std <- MCStd
    MaxFile = 4
SYMMETRY Symmetry
INVARIANTS LinkOnOwnFile SocketsHeld
CHECK_DEADLOCK FALSE
