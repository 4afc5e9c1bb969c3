CONSTANTS
    Conns = {c1, c2}
    Fds = {f1, f2}
    None = none
    NoticeSlots = 1
    MAX_LISTENING_COUNT = 4
    MaxRequests = 1
SPECIFICATION FairSpec
INVARIANTS TypeOK OneDestructor NothingOutlivesObject ForgottenWereEarly NothingLeftBehind OwnDescriptors KeysDiffer
PROPERTIES ImplementsRegistry StraysOnlyFromDestroyed LeaversRecovered AcceptedRegistered ShutdownEnds
CHECK_DEADLOCK FALSE
