\* A queue whose producers respect the ring: two producers, as for the
\* deletion notices of two clients.
CONSTANTS
    Producers = {p1, p2}
    Consumer = c
    NoOne = noone
    Ring = 3
    SemMax = 4
    Window = 3
    MaxPush = 7
SPECIFICATION FairSpec
INVARIANTS TypeOK NoEmptyTake WakeupForEveryPacket ExactlyOnceInOrder
PROPERTIES ImplementsChannel EveryPacketTaken
