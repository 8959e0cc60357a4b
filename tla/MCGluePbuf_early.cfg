CONSTANTS
    Pbufs = {p1, p2, p3}
    BlobPbufs = {b1, b2}
    Ebs = {e1}
    NULL = NULL
    BlockSize = 2
    MaxBlocks = 1
    EarlyFree = TRUE
SPECIFICATION Spec
SYMMETRY Symmetry
INVARIANTS
    RefsExact
    WrappersPartitioned
    LentValid
    DescriptorsConserved
PROPERTY RefinesPbufLoan
