SPECIFICATION UartSpec
CONSTANTS
    None = None
    Port <- MCPortZero
    FullChunk = 2
    Announce = 3
    BufLen = 3
    QueueLen = 2
    BusLen = 2
CHECK_DEADLOCK FALSE
PROPERTY BytesAnnounced
