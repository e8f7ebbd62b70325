CONSTANTS
    NumThreads = 3
    UserTasks = {a, b}
    UserPriority <- AllMedium
    MaxThreads = 2
    MaxCalls = 1
    LateInsert = FALSE
    BuffParts = 2
    PipeCapacity = 2
    MaxHandles = 3
SPECIFICATION FairEncryptorSpec
INVARIANTS
    CallbackSeesTheWholeBuffer
    EventIsOnItsWay
PROPERTIES
    EveryBufferIsDone
CHECK_DEADLOCK FALSE
