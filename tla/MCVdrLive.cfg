CONSTANTS
    NumMinions = 2
    NumBlocks = 2
    BLOCK_SIZE = 4
    IDs = {r1, r2}
    ReuseIds = FALSE
    MaxHandles = 5
    MaxWrites = 2
    Timely = TRUE
    Duplicates = FALSE
    MaxLosses = 2
    SocketChoices <- LastBoundSocket
SPECIFICATION FairVSpec
INVARIANTS
    NoWriteIsAnswered
PROPERTIES
    EveryReadIsAnswered
CHECK_DEADLOCK FALSE
