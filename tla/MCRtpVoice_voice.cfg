CONSTANTS
    Threads = {1, 2}
    Requests <- MCRequests
    MaxRequests = 1
    MaxSessions = 3
SPECIFICATION FairSpec
INVARIANTS TypeOK PollEndsFirst ChannelHears VoiceCleanedUp FaultsExplained
PROPERTY ShutdownEnds
CHECK_DEADLOCK FALSE
