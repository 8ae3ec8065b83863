CONSTANTS
    Byte <- MCByte
    EndByte <- MCEndByte
    Sender = {"a", "b"}
    Message <- TwoSenders
    Size = {0, 2, 3}
    ScanMode = {"first", "full", "mark"}
    SocketFd = 3
    SigpipeIgnored = FALSE
    BufferSize = 2
    MaxSent = 3
    MaxUnblock = 1
    MaxFault = 1
SPECIFICATION Spec
INVARIANTS
    TypeOK
    StreamOrder
    PerSenderOrder
    ShortReadMeansEnd
PROPERTIES
    StreamSpec
CHECK_DEADLOCK FALSE
