CONSTANTS
    Clients = {1, 2}
    Sends <- MCSends
    Groups = {0, 910, 911, 912}
    MaxRequests = 2
    FrameLen = 2
SPECIFICATION FairSpec
INVARIANTS TypeOK PeerReadsAnswers ConfirmedChannelExists
PROPERTIES ImplementsService EveryRequestAnswered
CHECK_DEADLOCK FALSE
