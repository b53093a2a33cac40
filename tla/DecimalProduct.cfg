SPECIFICATION CalculationSpec
CONSTANTS
    Root = 32
    Scale = 10
    Limit = 22
    IntHalf = 8
    Operands <- OperandsOf
INVARIANT ProductsRight
CHECK_DEADLOCK FALSE
