SPECIFICATION PartsSpec
CONSTANTS
    Starts <- StartsOf
    Walk = 10
    Moments <- MomentsOf
    Foreign <- ForeignOf
    Chunk = 4
    Uint32Max = 42949
    Int32Max = 21474
    Int64Max = 131071
    MaxUint32Digits = 5
    MaxInt32Chars = 6
    MaxDecimalChars = 7
    Places = 2
    Uints <- UintsOf
    Ints <- IntsOf
    Decimals <- DecimalsOf
    Texts <- TextsOf
    Root = 32
    Scale = 10
    Limit = 22
    IntHalf = 8
    Operands <- OperandsOf
    Primitives <- PrimitivesOf
    MaxGroupDepth = 2
    Specifications <- SpecificationsOf
INVARIANTS StampExact ReadExact NumbersKept TextsExact ShortProductsRight QuotientsExact
INVARIANTS NullFirst QuotientsOfValues
INVARIANTS FieldsAsDeclared MembersFirst DataFieldsKnown SessionCodesKept
PROPERTY CachesUnseen
CHECK_DEADLOCK FALSE
