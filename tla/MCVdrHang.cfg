CONSTANTS
    NumMinions = 2
    NumBlocks = 2
    BLOCK_SIZE = 4
    IDs = {r1}
    ReuseIds = FALSE
    MaxHandles = 4
    MaxWrites = 1
    Timely = TRUE
    Duplicates = FALSE
    MaxLosses = 0
    SocketChoices <- LastBoundSocket
SPECIFICATION FairVSpec
PROPERTIES
    EveryRequestIsAnswered
CHECK_DEADLOCK FALSE
