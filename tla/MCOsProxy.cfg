CONSTANTS
    Places <- VdrPlaces
    HDR_SIZE = 2
    BLOCK_SIZE = 2
    SockCapacity = 3
    MaxRequests = 3
    MaxWrites = 1
SPECIFICATION FairOsProxySpec
INVARIANTS
    RequestsArriveInOrder
    ReplyStreamIsWhole
    WatchedWhileQueued
    WriteStaysInTheBuffer
PROPERTIES
    EveryReplyIsReceived
CHECK_DEADLOCK FALSE
