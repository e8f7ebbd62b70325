CONSTANTS
    NumMinions = 2
    NumBlocks = 2
    BLOCK_SIZE = 4
    IDs = {r1, r2}
    ReuseIds = FALSE
    MaxHandles = 6
    MaxWrites = 1
    Timely = TRUE
    Duplicates = FALSE
    MaxLosses = 3
    SocketChoices <- AnySockets
SPECIFICATION VSpec
INVARIANTS
    VTypeOK
    WriteCarriesItsOwnData
    AnsweredWriteIsOnEveryReplica
PROPERTIES
    ImplementsBlockDevice
SYMMETRY IdSymmetry
CHECK_DEADLOCK FALSE
