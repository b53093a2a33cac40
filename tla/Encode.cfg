SPECIFICATION Spec
CONSTANTS
    BeginString <- BeginOf
    Sender <- SenderOf
    Target <- TargetOf
    Types <- TypesOf
    Headers <- HeadersOf
    Texts <- TextsOf
    Numbers <- NumbersOf
    Payloads <- PayloadsOf
    Size = 360
    LaneModulus = 512
    Room = 180
    MaxBody = 3
    MaxWraps = 3
INVARIANTS TypeOK PackedExact
PROPERTY CompleteMessagesKept
CHECK_DEADLOCK FALSE
