SPECIFICATION GpioSpec
CONSTANTS
    h1 = h1
    h2 = h2
    NULL = NULL
    Timer <- MCTimer
    IrqType <- MCIrqType
    Cooldown = 2
    TickMod = 5
    CmdLen = 3
    BusLen = 2
    MaxEdges = 3
    MaxCalls = 4
CHECK_DEADLOCK FALSE
INVARIANTS
    GpioTypeOK
    TimerOwned
PROPERTIES
    DebounceKept
    CooldownHolds
