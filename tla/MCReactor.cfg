CONSTANTS
    Places <- SocketPlaces
SPECIFICATION FairSpec
INVARIANTS
    WatchesTheRegistered
PROPERTIES
    ReadyIsServed
CHECK_DEADLOCK FALSE
