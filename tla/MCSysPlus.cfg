SPECIFICATION FairSpec
CONSTANTS
    NoTarget = "none"
    Param <- MCParam
    Targets <- MCBoth
    Timeouts = {TRUE, FALSE}
    TimerMayFail = TRUE
    MayDelete = TRUE
    MaxSends = 4
CHECK_DEADLOCK FALSE
INVARIANTS
    TypeOK
    TimeoutIsOwn
    AnyMessageHasWakeup
    LoopDiesWithWaiter
PROPERTIES
    AnyWaitEnds
