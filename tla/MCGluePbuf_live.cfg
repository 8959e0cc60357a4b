CONSTANTS
    Pbufs = {p1, p2}
    BlobPbufs = {b1}
    Ebs = {e1}
    NULL = NULL
    BlockSize = 1
    MaxBlocks = 2
    EarlyFree = FALSE
SPECIFICATION FairSpec
INVARIANT CaptureSeesOwnPacket
PROPERTIES
    DescriptorRecycled
    DroppedIsFreed
    WrapperReturns
