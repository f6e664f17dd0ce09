SPECIFICATION FairConsoleSpec
CONSTANTS
    c1 = c1
    c2 = c2
    Chunk <- MCChunk
    MaxWrites = 6
CHECK_DEADLOCK FALSE
INVARIANT
    ConsoleTypeOK
PROPERTIES
    NoTextRunsTwice
    AbortEndsScript
    IdleRequestRuns
