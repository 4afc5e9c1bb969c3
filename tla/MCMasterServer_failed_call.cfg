CONSTANTS
    Clients = {1}
    Sends <- MCSends
    Groups = {0, 910, 911, 912}
    MaxRequests = 2
    FrameLen = 2
SPECIFICATION FairSpec
PROPERTY FailedCallIsEnded
CHECK_DEADLOCK FALSE
