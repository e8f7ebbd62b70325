CONSTANTS
    NumMinions = 2
    NumBlocks = 2
    BLOCK_SIZE = 4
    IDs = {r1, r2}
    ReuseIds = FALSE
    MaxHandles = 3
    MaxWrites = 2
    Timely = FALSE
    Duplicates = TRUE
    MaxLosses = 0
    SocketChoices <- OwnOrLastSocket
SPECIFICATION VSpec
INVARIANTS
    EveryRequestHasItsWakeup
    PendingIsHeldOnce
    NoUnmatchedNbdReply
    NoAssertFails
    WaitsForTheUncredited
SYMMETRY IdSymmetry
CHECK_DEADLOCK FALSE
