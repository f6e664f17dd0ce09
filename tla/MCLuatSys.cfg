SPECIFICATION SysSpec
CONSTANTS
    b1 = b1
    b2 = b2
    t1 = t1
    t2 = t2
    f1 = f1
    m1 = m1
    e1 = e1
    NULL = NULL
    Main = Main
    Block <- MCBlock
    Task <- MCTask
    Fn <- MCFn
    ArgFn <- MCFn
    Traceback <- MCTraceback
    Topic <- MCTopic
    TimerId <- MCTimerId
    Repeat <- MCLoops
    SlotCount = 2
    BusLen = 2
    LossyCommands = TRUE
    TASK_TIMER_ID_MAX = 7
    MSG_TIMER_ID_MAX = 12
    MaxCalls = 5
SYMMETRY MCSymmetry
CHECK_DEADLOCK FALSE
INVARIANTS
    SysTypeOK
    TimersResumeSleepers
    TimersHaveOwners
    ArgumentsFollowTimers
PROPERTIES
    CopiedTasksSuspended
    OnlyFullBusLosesWakeup
    TimerWakesOnTime
    OnlyFullBusLosesError
