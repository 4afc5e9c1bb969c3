\* Cut anywhere but inside a header, and one message to a chunk where frames
\* are damaged.  BUFLENGTH is the least that the longest frame and a chunk
\* behind it need.
CONSTANTS
    Stream <- MCStream
    Frames <- MCFrames
    Intact <- MCIntact
    Chunks <- WholeHeaders
    MaxRecv = 20
    MaxPacket = 7
    BUFLENGTH = 32
    Descriptor <- MCDescriptor
    FdSize = 2
    SlotSize = 7
    Ring = 3
    Objects <- MCObjects
SPECIFICATION FairPathSpec
INVARIANTS PathTypeOK NothingWithheld OnlyWholeFrames BufferNotOverrun ParsedAsSent
PROPERTY EveryChunkFinishes
CHECK_DEADLOCK FALSE
