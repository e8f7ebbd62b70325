CONSTANTS
    NumMinions = 3
    NumBlocks = 12
    BLOCK_SIZE = 4
    MaxOffset = 59
SPECIFICATION Spec
INVARIANTS
    LoopsMatchClosedForm
    TwoReplicas
    NoSlotSharedByTwoBlocks
