SPECIFICATION Spec
CONSTANTS
    NoGroup = NoGroup
    Legs    = Legs
    Nested  = Nested
    Deepest = Deepest
    Hops    = Hops
    MaxGroupDepth = 2
    Groups   <- Schema
    Parent   <- ParentOf
    CountTag <- CountTags
    Messages <- Received
INVARIANTS TypeOK EntryExact ScopesOwned ScopesNested LiveEnclosed
PROPERTY EnclosingEntriesKept
VIEW Seen
