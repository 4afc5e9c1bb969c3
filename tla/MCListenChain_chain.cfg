CONSTANTS
    MAX_LISTENING_COUNT = 4
    MaxThreads = 5
    AcceptRace = FALSE
SPECIFICATION FairSpec
INVARIANTS TypeOK AllListenersJoined ListensWhileSlots
PROPERTY ShutdownEnds
CHECK_DEADLOCK FALSE
