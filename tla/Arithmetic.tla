----------------------------- MODULE Arithmetic -----------------------------
(***************************************************************************)
(* What an application calculates with the values of fields: FixedDecimal  *)
(* (utils/FixedDecimal.hpp), a 64-bit mantissa of units of 10^-8, and      *)
(* OptionalInt (utils/OptionalInt.hpp), an integer one of whose values     *)
(* stands for null.  One object of either, changed by a compound           *)
(* assignment; nothing is kept but the result.                             *)
(*                                                                         *)
(* The width of the integers is a parameter, given by the square root of   *)
(* the number of their values, so that the multipliers that stand for a    *)
(* division, of 64 and 96 bits, are powers of it.  Signed overflow wraps,   *)
(* as in the builds of the library.                                        *)
(***************************************************************************)
EXTENDS Integers, FiniteSets

CONSTANTS
    Root,       \* 2^32
    Scale,      \* 10^8
    Limit,      \* Max64BitProductLimit: the largest number whose square is an int64_t
    IntHalf,    \* 2^31 for an OptionalInt of 32 bits
    Operands    \* mantissas the application calculates with

Range64 == Root * Root
Largest == Range64 \div 2 - 1

\* The reciprocal is never exact.
ASSUME ArithmeticAssumption ==
    /\ Root \in Nat \ {0} /\ Root % 2 = 0
    /\ Scale \in Nat \ {0} /\ Range64 % Scale # 0
    /\ Limit \in Nat /\ Limit * Limit <= Largest
    /\ IntHalf \in Nat \ {0}
    /\ Operands \subseteq -Largest .. Largest

VARIABLES
    decimal,    \* m_mantissa
    optional,   \* m_value
    signed,     \* whether T is a signed type
    done        \* history: the operation, what it was on and with

calculations == <<decimal, optional, signed, done>>

Did(op, left, right) == [op |-> op, left |-> left, right |-> right]
Nothing == Did("nothing", 0, 0)

Abs(n) == IF n < 0 THEN -n ELSE n
Sign(n) == IF n < 0 THEN -1 ELSE 1

\* n as a signed integer with twice as many values as `half`; n / d in C++.
Signed(n, half) == ((n + half) % (2 * half)) - half
Truncated(n, d) == (Sign(n) * Sign(d)) * (Abs(n) \div Abs(d))

-----------------------------------------------------------------------------
(***************************************************************************)
(* FixedDecimal.                                                           *)
(***************************************************************************)
MaxSafeDivRounded == Largest \div Scale + 1  \* Mutant: rounded up.
MaxSafeDiv == Largest \div Scale
SignedReciprocal64  == (Range64 + Scale - 1) \div Scale
SignedReciprocal128 == (Range64 * Root + Scale - 1) \div Scale

Wrapped64(n)  == Signed(n, Range64 \div 2)
Wrapped128(n) == Signed(n, (Range64 * Range64) \div 2)

\* Mutant: the sign is not corrected for.
ShortProductFloor(x, y) == (x * y * SignedReciprocal64) \div Range64

\* The upper half of the product with a reciprocal, corrected for its sign.
ShortProduct(x, y) ==
    ((x * y * SignedReciprocal64) \div Range64) + IF x * y < 0 THEN 1 ELSE 0

\* The product with the longer reciprocal does not fit twice the width, and the
\* sign bits are added as the number -1.
LongProduct(x, y) ==
    Wrapped64((Wrapped128(x * y * SignedReciprocal128) \div (Range64 * Root))
          + IF x * y < 0 THEN -1 ELSE 0)

times(x, y) ==
    IF Abs(x) <= Limit /\ Abs(y) <= Limit THEN ShortProduct(x, y) ELSE LongProduct(x, y)

\* By zero: zero.  The numerator is scaled in 64 bits up to a limit, in 128 beyond.
dividedBy(x, y) ==
    IF y = 0 THEN y
    ELSE LET numerator == IF Abs(x) <= MaxSafeDiv THEN Wrapped64(x * Scale) ELSE x * Scale
         IN  Wrapped64(Truncated(numerator, y))

InRange(n) == n \in -Largest .. Largest

Calculate(op, result, operand) ==
    /\ done = Nothing
    /\ decimal' = result
    /\ done' = Did(op, decimal, operand)
    /\ UNCHANGED <<optional, signed>>

Add      == \E y \in Operands : Calculate("plus", Wrapped64(decimal + y), y)
Subtract == \E y \in Operands : Calculate("minus", Wrapped64(decimal - y), y)
Multiply == \E y \in Operands : Calculate("times", times(decimal, y), y)
Divide   == \E y \in Operands : Calculate("by", dividedBy(decimal, y), y)

-----------------------------------------------------------------------------
(***************************************************************************)
(* OptionalInt.                                                            *)
(***************************************************************************)
Representable == IF signed THEN -IntHalf .. IntHalf - 1 ELSE 0 .. 2 * IntHalf - 1
NullLargest == IF signed THEN IntHalf - 1 ELSE 2 * IntHalf - 1   \* Mutant: max() for both.
Null == IF signed THEN -IntHalf ELSE 2 * IntHalf - 1
hasValue(v) == v # Null

\* static_cast<T>.
Cast(n) == IF signed THEN Signed(n, IntHalf) ELSE n % (2 * IntHalf)

BothHaveValues(v, w) == hasValue(v) /\ hasValue(w)

Plus(v, w)  == IF BothHaveValues(v, w) THEN Cast(v + w) ELSE Null
Minus(v, w) == IF BothHaveValues(v, w) THEN Cast(v - w) ELSE Null
Times(v, w) == IF BothHaveValues(v, w) THEN Cast(v * w) ELSE Null
Quotient(v, w) ==
    IF BothHaveValues(v, w) /\ w # 0 THEN Cast(Truncated(v, w)) ELSE Null
Remainder(v, w) ==
    IF BothHaveValues(v, w) /\ w # 0 THEN Cast(v - w * Truncated(v, w)) ELSE Null

\* Mutant: the values are compared, whatever they stand for.
LessByValue(v, w) == v < w

\* operator<=> says less.
Less(v, w) ==
    \/ ~hasValue(v) /\ hasValue(w)
    \/ hasValue(v) /\ hasValue(w) /\ v < w

Assign(op, result, operand) ==
    /\ done = Nothing
    /\ optional' = result
    /\ done' = Did(op, optional, operand)
    /\ UNCHANGED <<decimal, signed>>

AssignPlus  == \E w \in Representable : Assign("optional plus", Plus(optional, w), w)
AssignMinus == \E w \in Representable : Assign("optional minus", Minus(optional, w), w)
AssignTimes == \E w \in Representable : Assign("optional times", Times(optional, w), w)
AssignQuotient  == \E w \in Representable : Assign("optional by", Quotient(optional, w), w)
AssignRemainder == \E w \in Representable : Assign("optional mod", Remainder(optional, w), w)

-----------------------------------------------------------------------------
CalculationInit ==
    /\ signed \in BOOLEAN
    /\ \/ decimal \in Operands /\ optional = Null /\ ~signed
       \/ decimal = 0 /\ optional \in Representable
    /\ done = Nothing

CalculationNext ==
    \/ Add \/ Subtract \/ Multiply \/ Divide
    \/ AssignPlus \/ AssignMinus \/ AssignTimes \/ AssignQuotient \/ AssignRemainder

CalculationSpec == CalculationInit /\ [][CalculationNext]_calculations

-----------------------------------------------------------------------------
\* p is the product of x and y to a unit: truncated, or the next one away from zero,
\* and exact when there is nothing to round.
IsProduct(x, y, p) ==
    LET exact == Truncated(x * y, Scale)
    IN  /\ p \in {exact, exact + Sign(x * y)}
        /\ (x * y) % Scale = 0 => p = exact

\* Multiplying with a rounded-up reciprocal is right to a unit for operands of
\* either sign up to the limit of the short product (FixedDecimal.hpp:104-112).
ShortProductsRight ==
    done.op = "times" /\ Abs(done.left) <= Limit /\ Abs(done.right) <= Limit =>
        IsProduct(done.left, done.right, decimal)

\* n = q * d + r, truncated towards zero, said without a division of signed numbers.
IsQuotient(n, d, q) ==
    /\ Abs(q) * Abs(d) <= Abs(n) /\ Abs(n) < (Abs(q) + 1) * Abs(d)
    /\ q # 0 => Sign(q) = Sign(n) * Sign(d)

IsRemainder(n, d, r) ==
    /\ Abs(r) < Abs(d) /\ (n - r) % Abs(d) = 0
    /\ r # 0 => Sign(r) = Sign(n)

\* A quotient that fits is right, for a numerator scaled in 64 bits as for one that
\* would overflow them (FixedDecimal.hpp:128-136): none of those up to the limit does.
QuotientsExact ==
    /\ done.op = "by" /\ done.right # 0
    /\ Abs(done.left) * Scale < (Largest + 1) * Abs(done.right)
    => IsQuotient(done.left * Scale, done.right, decimal)

\* Null comes before every number, also in an unsigned type, where it is stored as
\* the largest; the rest is a total order (OptionalInt.hpp:16-19, 252-269).
NullFirst ==
    /\ \A v \in Representable : hasValue(v) => Less(Null, v) /\ ~Less(v, Null)
    /\ \A v \in Representable : Less(v, optional) \/ Less(optional, v) <=> v # optional
    /\ \A v, w \in Representable : Less(v, optional) /\ Less(optional, w) => Less(v, w)

\* The quotient and the remainder of two values are values, and right: min() being
\* null, the one division that overflows cannot be asked for, and no quotient or
\* remainder is the number that stands for null (OptionalInt.hpp:29-31, 126-142).
QuotientsOfValues ==
    /\ done.op \in {"optional by", "optional mod"}
    /\ hasValue(done.left) /\ hasValue(done.right) /\ done.right # 0
    => /\ hasValue(optional)
       /\ done.op = "optional by" => IsQuotient(done.left, done.right, optional)
       /\ done.op = "optional mod" => IsRemainder(done.left, done.right, optional)

-----------------------------------------------------------------------------
\* "price * qty; // 31.50" (FixedDecimalTest.cpp:55-57): a product that fits is right
\* to a unit.
ProductsRight ==
    done.op = "times" /\ InRange(Truncated(done.left * done.right, Scale)) =>
        IsProduct(done.left, done.right, decimal)
=============================================================================
