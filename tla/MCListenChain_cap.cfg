CONSTANTS
    MAX_LISTENING_COUNT = 4
    MaxThreads = 5
    AcceptRace = FALSE
SPECIFICATION Spec
INVARIANT ListensWhileRunning
CHECK_DEADLOCK FALSE
