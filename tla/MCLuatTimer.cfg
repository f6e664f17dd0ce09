SPECIFICATION TimerSpec
CONSTANTS
    b1 = b1
    b2 = b2
    NULL = NULL
    TimerId <- MCTimerId
    Repeat <- MCRepeat
    Block <- MCBlock
    SlotCount = 2
    BusLen = 2
    LossyCommands = TRUE
SYMMETRY MCSymmetry
INVARIANTS
    TimerTypeOK
    SlotsOwnBlocks
    RepeatMatchesReload
PROPERTY
    OnlyFullBusLosesExpiry
    ImplementsService
