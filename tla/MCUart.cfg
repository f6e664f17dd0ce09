SPECIFICATION UartSpec
CONSTANTS
    None = None
    Port <- MCPorts
    FullChunk = 2
    Announce = 3
    BufLen = 3
    QueueLen = 2
    BusLen = 2
CHECK_DEADLOCK FALSE
INVARIANT UartTypeOK
PROPERTY BytesAnnounced
