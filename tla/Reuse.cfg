SPECIFICATION Spec
CONSTANTS
    MaxFields = 14
    Capacity = 18
    ProtocolCode <- FIXT11
    DataTags <- XmlData
    Bodies <- ReuseWholes
    Encoded <- NoBodies
    Buffers <- ReuseBuffers
    MaxParses = 2
    Uint32 = 268435456
    Uint64 = 268435456
INVARIANTS WholeMessageAccepted TokensInPlace
CHECK_DEADLOCK FALSE
