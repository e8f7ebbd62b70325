CONSTANTS
    NumMinions = 2
    NumBlocks = 2
    BLOCK_SIZE = 4
    IDs = {r1, r2}
    ReuseIds = FALSE
    MaxHandles = 4
    MaxWrites = 2
    Timely = TRUE
    Duplicates = FALSE
    MaxLosses = 0
    SocketChoices <- LastBoundSocket
SPECIFICATION VSpec
INVARIANTS
    WriteCarriesItsOwnData
CHECK_DEADLOCK FALSE
