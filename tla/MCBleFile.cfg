SPECIFICATION FairFileSpec
CONSTANTS
    f = f
    g = g
    NULL = NULL
    GONE = GONE
    LONG = LONG
    Name <- MCName
    Request <- MCRequest
    Length <- MCLength
    BUFFER_SIZE = 2
    MaxBytes = 3
    MaxFrames = 4
    MaxAhead = 1
    FlashMayFail = TRUE
CHECK_DEADLOCK FALSE
INVARIANTS
    FileTypeOK
    NothingLostOnTheWay
    OpenFileHasTotal
PROPERTIES
    CompleteMeansStored
    WriteEnds
