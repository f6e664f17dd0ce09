SPECIFICATION FairConsoleSpec
CONSTANTS
    c1 = c1
    c2 = c2
    Chunk <- MCChunk
    MaxWrites = 5
CHECK_DEADLOCK FALSE
INVARIANT
    NoPanic
