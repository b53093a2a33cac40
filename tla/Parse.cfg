SPECIFICATION FairResendSpec
CONSTANTS
    MaxFields = 14
    Capacity = 18
    ProtocolCode <- FIXT11
    DataTags <- XmlData
    Bodies <- AllWholes
    Encoded <- EncodedWholes
    Buffers <- AllBuffers
    MaxParses = 1
    Uint32 = 268435456
    Uint64 = 268435456
    CurrentTime <- Now
INVARIANTS TypeOK SumExact TagLanesExact ReadsInBuffer AnswerSound ClosedTokensExact TagsParallel DataExact ResendExact
PROPERTIES Implements Vouches
CHECK_DEADLOCK FALSE
