\* The same stream, cut anywhere.
CONSTANTS
    Stream <- MCStream
    Frames <- MCFrames
    Intact <- MCIntact
    Chunks <- AllChunks
    MaxRecv = 20
    MaxPacket = 7
    BUFLENGTH = 32
    Descriptor <- MCDescriptor
    FdSize = 2
    SlotSize = 7
    Ring = 3
    Objects <- MCObjects
SPECIFICATION PathSpec
INVARIANT InOrder
CHECK_DEADLOCK FALSE
