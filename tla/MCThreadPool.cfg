CONSTANTS
    NumThreads = 3
    UserTasks = {a, b}
    UserPriority <- AllMedium
    MaxThreads = 2
    MaxCalls = 3
    LateInsert = FALSE
SPECIFICATION FairPoolSpec
INVARIANTS
    PoolTypeOK
    NoLostWakeup
    ThreadsAddUp
    EveryThreadIsKnown
    StoppedMeansEnded
PROPERTIES
    EveryCallReturns
CHECK_DEADLOCK FALSE
