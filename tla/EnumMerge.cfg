SPECIFICATION SchemaSpec
CONSTANTS
    Primitives <- PrimitivesOf
    MaxGroupDepth = 2
    Specifications <- SpecificationsOf
INVARIANT ValuesMergedOnce
CHECK_DEADLOCK FALSE
