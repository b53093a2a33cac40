SPECIFICATION FairReceiveSpec
CONSTANTS
    MaxFields = 14
    Capacity = 16
    ProtocolCode <- FIXT11
    DataTags <- NoDataFields
    Buffers = {}
    MaxParses = 0
    Uint32 = 268435456
    Uint64 = 268435456
    Streams <- StreamsOf
    Records <- RecordsOf
    SenderCompId <- Them
    TargetCompId <- Us
    MaxDeliveries = 2
INVARIANTS WholeHandled HandledInArrived
PROPERTIES Drained OnlyVouchedHandled
CHECK_DEADLOCK FALSE
