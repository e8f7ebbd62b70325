CONSTANTS
    NumAddresses = 4
    MaxDepth = 1
SPECIFICATION FairSpec
INVARIANTS
    IteratorsAreValid
    BothSidesAgree
    EachIsCalledOnce
PROPERTIES
    DispatchReturns
CHECK_DEADLOCK FALSE
