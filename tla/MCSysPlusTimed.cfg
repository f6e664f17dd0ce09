SPECIFICATION FairSpec
CONSTANTS
    NoTarget = "none"
    Param <- MCParam
    Targets <- MCAsk
    Timeouts <- MCTimed
    TimerMayFail = FALSE
    MayDelete = FALSE
    MaxSends = 4
CHECK_DEADLOCK FALSE
PROPERTIES
    TimedWaitEnds
