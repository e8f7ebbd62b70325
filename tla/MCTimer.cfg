CONSTANTS
    Places <- TwoSocketsAndTimer
    m_timerFd = 4
    Durations = {2}
    SameTick = FALSE
    DueNow = FALSE
    MaxHandles = 3
    LastSet = 3
    MaxTime = 6
SPECIFICATION FairTimerSpec
INVARIANTS
    TimerTypeOK
    RegisteredWhileArmed
    MapIsWhatWasSet
    TimerfdIsSetForTheFirst
    OldestRunsFirst
PROPERTIES
    EveryTimerEnds
CHECK_DEADLOCK FALSE
