SPECIFICATION FairSysSpec
CONSTANTS
    b1 = b1
    b2 = b2
    t1 = t1
    t2 = t2
    f1 = f1
    m1 = m1
    e1 = e1
    NULL = NULL
    Main = Main
    Block <- MCBlock
    Task <- MCTask
    Fn <- MCFn
    ArgFn <- MCNone
    Traceback <- MCTraceback
    Topic <- MCTopic
    TimerId <- MCTimerId
    Repeat <- MCOneShot
    SlotCount = 2
    BusLen = 6
    LossyCommands = FALSE
    TASK_TIMER_ID_MAX = 7
    MSG_TIMER_ID_MAX = 9
    MaxCalls = 4
CHECK_DEADLOCK FALSE
PROPERTIES
    SleepersWake
    MessagesDispatched
    ErrorsEndLoop
    UsesTimersRightly
