CONSTANTS
    Byte <- MCByte
    EndByte <- MCEndByte
    Sender = {"a"}
    Message <- OneSender
    Size = {3}
    ScanMode = {"full"}
    SocketFd = 3
    SigpipeIgnored = FALSE
    BufferSize = 2
    MaxSent = 2
    MaxUnblock = 1
    MaxFault = 0
SPECIFICATION LoopSpec
PROPERTIES
    UnblockFrees
CHECK_DEADLOCK FALSE
