CONSTANTS
    MAX_LISTENING_COUNT = 4
    MaxThreads = 5
    AcceptRace = TRUE
SPECIFICATION Spec
INVARIANT CountsListeners
CHECK_DEADLOCK FALSE
