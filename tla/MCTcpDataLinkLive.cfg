CONSTANTS
    Byte <- MCByte
    EndByte <- MCEndByte
    Sender = {"a"}
    Message <- OneSender
    Size = {2}
    ScanMode = {"first"}
    SocketFd = 3
    SigpipeIgnored = FALSE
    BufferSize = 2
    MaxSent = 3
    MaxUnblock = 2
    MaxFault = 1
SPECIFICATION LoopSpec
PROPERTIES
    UnblockFrees
    SendEnds
    AllTaken
CHECK_DEADLOCK FALSE
