\* A peer leaves before its client is registered.
CONSTANTS
    Conns = {c1, c2}
    Fds = {f1, f2}
    None = none
    NoticeSlots = 2
    MAX_LISTENING_COUNT = 4
    MaxRequests = 1
SPECIFICATION Spec
INVARIANT NoClientForgotten
CHECK_DEADLOCK FALSE
