SPECIFICATION Spec
CONSTANTS
    MaxFields = 14
    Capacity = 18
    ProtocolCode <- FIXT11
    DataTags <- NoDataFields
    Bodies <- ShortTails
    Encoded <- NoBodies
    Buffers <- WholeBuffers
    MaxParses = 1
    Uint32 = 268435456
    Uint64 = 268435456
INVARIANTS WholeMessageAccepted
CHECK_DEADLOCK FALSE
