SPECIFICATION Spec
CONSTANTS
    NoGroup = NoGroup
    Legs    = Legs
    Nested  = Nested
    Deepest = Deepest
    Hops    = Hops
    MaxGroupDepth = 2
    Groups   <- Schema
    Parent   <- ParentOf
    CountTag <- CountTags
    Messages <- Received
INVARIANT OwnEntryRead
