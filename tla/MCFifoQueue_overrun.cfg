\* One packet more waits than the ring has slots.
CONSTANTS
    Producers = {p1, p2}
    Consumer = c
    NoOne = noone
    Ring = 3
    SemMax = 4
    Window = 4
    MaxPush = 7
SPECIFICATION Spec
INVARIANT TakesTheFirst
