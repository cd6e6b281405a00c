SPECIFICATION FairSpec
CONSTANTS
    MaxTimers = 3
    Delays = {1, 3}
    Periods = {2}
    LoopLimit = 1
    Slack = 1
    MaxLag = 3
    OnePeriodic = TRUE
CHECK_DEADLOCK FALSE
 
INVARIANT UsedIdsMatchList
PROPERTY DueTimerServed
