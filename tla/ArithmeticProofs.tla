-------------------------- MODULE ArithmeticProofs --------------------------
(***************************************************************************)
(* What holds of the arithmetic for every width of the integers, every     *)
(* scale and every limit, by an invariant of the one object calculated     *)
(* with: the multiplication with a reciprocal, the quotients, and null.    *)
(***************************************************************************)
EXTENDS Arithmetic, TLAPS

-----------------------------------------------------------------------------
(***************************************************************************)
(* Integers.                                                               *)
(***************************************************************************)
LEMMA Quotients ==
    ASSUME NEW n \in Int, NEW d \in Nat \ {0}
    PROVE  /\ n \div d \in Int
           /\ d * (n \div d) <= n
           /\ n < d * (n \div d) + d
    OBVIOUS

LEMMA Remainders ==
    ASSUME NEW n \in Int, NEW d \in Nat \ {0}
    PROVE  n % d \in 0 .. d - 1
    OBVIOUS

LEMMA Division ==
    ASSUME NEW n \in Int, NEW d \in Nat \ {0}
    PROVE  n = d * (n \div d) + (n % d)
    OBVIOUS

LEMMA QuotientIs ==
    ASSUME NEW n \in Int, NEW d \in Nat \ {0}, NEW q \in Int,
           d * q <= n, n < d * q + d
    PROVE  n \div d = q
<1>1. /\ n \div d \in Int
      /\ d * (n \div d) <= n
      /\ n < d * (n \div d) + d
  BY Quotients
<1> DEFINE r == n \div d
<1>2. r \in Int /\ d * r <= n /\ n < d * r + d  BY <1>1
<1> HIDE DEF r
<1>3. ~ (q >= r + 1)
  <2>1. SUFFICES ASSUME q >= r + 1 PROVE FALSE OBVIOUS
  <2>2. d * q >= d * (r + 1) BY <1>2, <2>1
  <2> QED BY <1>2, <2>2
<1>4. ~ (r >= q + 1)
  <2>1. SUFFICES ASSUME r >= q + 1 PROVE FALSE OBVIOUS
  <2>2. d * r >= d * (q + 1) BY <1>2, <2>1
  <2> QED BY <1>2, <2>2
<1>5. r = q BY <1>2, <1>3, <1>4
<1> QED BY <1>5 DEF r

LEMMA RemainderIs ==
    ASSUME NEW n \in Int, NEW d \in Nat \ {0}, NEW q \in Int, NEW t \in 0 .. d - 1,
           n = d * q + t
    PROVE  n \div d = q /\ n % d = t
    <1>1. n \div d = q BY QuotientIs
    <1>2. n % d = t BY <1>1, Division
    <1> QED BY <1>1, <1>2

\* M the range, S the scale, R the reciprocal.
LEMMA Reciprocal ==
    ASSUME NEW M \in Nat \ {0}, NEW S \in Nat \ {0}, M % S # 0
    PROVE  LET R == (M + S - 1) \div S
           IN  /\ R \in Nat \ {0}
               /\ S * R \in M + 1 .. M + S - 1
<1> DEFINE R == (M + S - 1) \div S
<1>1. R \in Int /\ S * R <= M + S - 1 /\ M + S - 1 < S * R + S
  BY Quotients, M + S - 1 \in Int
<1> HIDE DEF R
<1>2. S * R >= M BY <1>1
<1>3. S * R # M
  <2>1. SUFFICES ASSUME S * R = M PROVE FALSE OBVIOUS
  <2>2. 0 \in 0 .. S - 1 /\ M = S * R + 0 BY <2>1, <1>1
  <2>3. M % S = 0 BY <2>2, RemainderIs, <1>1, M \in Int
  <2> QED BY <2>3
<1>4. R >= 1
  <2>1. SUFFICES ASSUME R <= 0 PROVE FALSE BY <1>1
  <2>2. S * R <= 0 BY <2>1, <1>1
  <2> QED BY <2>2, <1>2, <1>1
<1>5. /\ R \in Nat \ {0}
      /\ S * R \in M + 1 .. M + S - 1
  BY <1>1, <1>2, <1>3, <1>4
<1> QED BY <1>5 DEF R

\* The quotient or one more, and exact when there is nothing to round.
Near(r, P, S) == r \in {P \div S, (P \div S) + 1} /\ (P % S = 0 => r = P \div S)

\* The upper half of the product with a reciprocal that is rounded up, also of a
\* negative number once one is added.
LEMMA UpperHalf ==
    ASSUME NEW M \in Nat \ {0}, NEW S \in Nat \ {0}, NEW R \in Nat \ {0},
           S * R \in M + 1 .. M + S - 1,
           NEW P \in Nat, P < M
    PROVE  Near((P * R) \div M, P, S)
    BY SMTT(60) DEF Near

LEMMA UpperHalfOfNegative ==
    ASSUME NEW M \in Nat \ {0}, NEW S \in Nat \ {0}, NEW R \in Nat \ {0},
           S * R \in M + 1 .. M + S - 1,
           NEW P \in Nat \ {0}, P < M
    PROVE  Near(-((((-P) * R) \div M) + 1), P, S)
    BY SMTT(60) DEF Near

-----------------------------------------------------------------------------
(***************************************************************************)
(* Products.                                                               *)
(***************************************************************************)
LEMMA Widths ==
    /\ Range64 \in Nat \ {0} /\ Largest \in Nat
    /\ Range64 \div 2 = Largest + 1
    /\ Limit * Limit < Range64
<1>1. PICK h \in Int : Root = 2 * h
  <2>1. Root = 2 * (Root \div 2) + (Root % 2) /\ Root \div 2 \in Int
    BY ArithmeticAssumption, Division, Quotients
  <2> QED BY <2>1, ArithmeticAssumption
<1>2. h >= 1 BY <1>1, ArithmeticAssumption
<1>3. Range64 = 2 * (2 * (h * h)) BY <1>1 DEF Range64
<1>4. h * h \in Nat \ {0} BY <1>1, <1>2
<1>5. Range64 \div 2 = 2 * (h * h) BY <1>3, <1>4
<1>6. Limit * Limit <= Largest /\ Limit * Limit \in Nat BY ArithmeticAssumption
<1> QED BY <1>3, <1>4, <1>5, <1>6 DEF Largest

\* The product of two operands below the limit is a product to a unit.
LEMMA ShortProductIsProduct ==
    ASSUME NEW x \in Int, NEW y \in Int, Abs(x) <= Limit, Abs(y) <= Limit
    PROVE  IsProduct(x, y, times(x, y))
<1> DEFINE p == x * y
           R == SignedReciprocal64
<1>1. p \in Int /\ Abs(p) < Range64
  <2>1. Abs(x) * Abs(y) <= Limit * Limit
    BY ArithmeticAssumption DEF Abs
  <2>2. Abs(p) = Abs(x) * Abs(y)
    <3>1. CASE x >= 0 /\ y >= 0 BY <3>1 DEF Abs
    <3>2. CASE x >= 0 /\ y < 0 BY <3>2 DEF Abs
    <3>3. CASE x < 0 /\ y >= 0 BY <3>3 DEF Abs
    <3>4. CASE x < 0 /\ y < 0 BY <3>4 DEF Abs
    <3> QED BY <3>1, <3>2, <3>3, <3>4
  <2>3. Limit * Limit \in Int /\ Abs(p) \in Int /\ p \in Int BY ArithmeticAssumption DEF Abs
  <2> HIDE DEF p
  <2> QED BY <2>1, <2>2, <2>3, Widths
<1>2. R \in Nat \ {0} /\ Scale * R \in Range64 + 1 .. Range64 + Scale - 1
  BY Reciprocal, Widths, ArithmeticAssumption DEF SignedReciprocal64
<1>3. times(x, y) = ((p * R) \div Range64) + IF p < 0 THEN 1 ELSE 0
  BY DEF times, ShortProduct
<1> HIDE DEF p, R
<1>4. CASE p >= 0
  <2>1. times(x, y) = (p * R) \div Range64 /\ p \in Nat /\ p < Range64
    <3>1. (p * R) \div Range64 \in Int BY Quotients, Widths, <1>1, <1>2, p * R \in Int
    <3> QED BY <1>3, <1>4, <1>1, <3>1 DEF Abs
  <2>2. /\ times(x, y) \in {p \div Scale, (p \div Scale) + 1}
        /\ p % Scale = 0 => times(x, y) = p \div Scale
    <3>1. /\ (p * R) \div Range64 \in {p \div Scale, (p \div Scale) + 1}
          /\ p % Scale = 0 => (p * R) \div Range64 = p \div Scale
      <4>1. Near((p * R) \div Range64, p, Scale)
        BY <2>1, <1>2, UpperHalf, Widths, ArithmeticAssumption
      <4> QED BY <4>1 DEF Near
    <3> QED BY <2>1, <3>1, Zenon
  <2>3. Truncated(p, Scale) = p \div Scale /\ Sign(p) = 1
    <3>1. Sign(p) = 1 /\ Sign(Scale) = 1 /\ Abs(p) = p /\ Abs(Scale) = Scale
      BY <1>4, <1>1, ArithmeticAssumption DEF Sign, Abs
    <3>2. p \div Scale \in Int BY Quotients, <1>1, ArithmeticAssumption
    <3> QED BY <3>1, <3>2 DEF Truncated
  <2> QED BY <2>2, <2>3 DEF IsProduct, p
<1>5. CASE p < 0
  <2> DEFINE P == -p
  <2>1. P \in Nat \ {0} /\ P < Range64 /\ p = -P BY <1>5, <1>1 DEF Abs
  <2> HIDE DEF P
  <2>2. times(x, y) = (((-P) * R) \div Range64) + 1 BY <1>3, <1>5, <2>1
  <2>3. Near(-times(x, y), P, Scale)
    <3>1. (((-P) * R) \div Range64) + 1 = times(x, y) BY <2>2
    <3>2. Near(-((((-P) * R) \div Range64) + 1), P, Scale)
      BY <2>1, <1>2, UpperHalfOfNegative, Widths, ArithmeticAssumption
    <3> QED BY <3>1, <3>2
  <2>4. Truncated(p, Scale) = -(P \div Scale) /\ Sign(p) = -1
    <3>1. Sign(p) = -1 /\ Sign(Scale) = 1 /\ Abs(p) = P /\ Abs(Scale) = Scale
      BY <1>5, <2>1, ArithmeticAssumption DEF Sign, Abs
    <3>2. P \div Scale \in Int BY Quotients, <2>1, ArithmeticAssumption
    <3> QED BY <3>1, <3>2 DEF Truncated
  <2>5. p % Scale = 0 => P % Scale = 0
    <3>1. SUFFICES ASSUME p % Scale = 0 PROVE P % Scale = 0 OBVIOUS
    <3>2. p \div Scale \in Int /\ p = Scale * (p \div Scale) + (p % Scale)
      BY Quotients, Division, <1>1, ArithmeticAssumption
    <3>3. PICK k \in Int : P = Scale * k + 0
      <4>1. P = Scale * (-(p \div Scale)) + 0 BY <3>1, <3>2, <2>1, ArithmeticAssumption
      <4>2. -(p \div Scale) \in Int BY <3>2
      <4> QED BY <4>1, <4>2
    <3>4. 0 \in 0 .. Scale - 1 BY ArithmeticAssumption
    <3> QED BY <3>3, <3>4, RemainderIs, P \in Int, ArithmeticAssumption, Zenon
  <2>6. P \div Scale \in Int BY Quotients, <2>1, ArithmeticAssumption
  <2>7. times(x, y) \in Int BY <2>2, Quotients, <1>2, <2>1, (-P) * R \in Int, Widths
  <2> QED BY <2>3, <2>4, <2>5, <2>6, <2>7 DEF IsProduct, Near, p
<1> QED BY <1>1, <1>4, <1>5

-----------------------------------------------------------------------------
(***************************************************************************)
(* Quotients.                                                              *)
(***************************************************************************)
LEMMA SignedIs ==
    ASSUME NEW half \in Nat \ {0}, NEW n \in -half .. half - 1
    PROVE  Signed(n, half) = n
<1>1. n + half \in 0 .. 2 * half - 1 /\ n + half \in Int /\ n + half = 2 * half * 0 + (n + half)
  OBVIOUS
<1>2. (n + half) % (2 * half) = n + half
  BY <1>1, RemainderIs, 2 * half \in Nat \ {0}
<1> QED BY <1>2 DEF Signed

LEMMA WrapsNothing ==
    ASSUME NEW n \in Int, InRange(n)
    PROVE  Wrapped64(n) = n
<1>1. Largest + 1 \in Nat \ {0} /\ n \in -(Largest + 1) .. (Largest + 1) - 1
  BY Widths DEF InRange
<1> QED BY <1>1, SignedIs, Widths DEF Wrapped64

\* Truncation is what a quotient is.
LEMMA TruncatedIs ==
    ASSUME NEW n \in Int, NEW d \in Int \ {0}
    PROVE  Truncated(n, d) \in Int /\ IsQuotient(n, d, Truncated(n, d))
<1>1. Abs(n) \in Nat /\ Abs(d) \in Nat \ {0} /\ Sign(n) * Sign(d) \in {1, -1}
  BY DEF Abs, Sign
<1> DEFINE k == Abs(n) \div Abs(d)
<1>2. k \in Int /\ Abs(d) * k <= Abs(n) /\ Abs(n) < Abs(d) * k + Abs(d)
  <2>1. Abs(n) \in Int /\ Abs(d) \in Nat \ {0} BY <1>1
  <2> QED BY <2>1, Quotients, Zenon
<1>3. Truncated(n, d) = (Sign(n) * Sign(d)) * k BY DEF Truncated
<1> HIDE DEF k
<1>4. k \in Nat
  <2>1. SUFFICES ASSUME k <= -1 PROVE FALSE BY <1>2
  <2>2. Abs(d) * k <= Abs(d) * (-1) BY <1>1, <1>2, <2>1
  <2> QED BY <1>1, <1>2, <2>2
<1> DEFINE q == Truncated(n, d)
<1>5. q \in Int /\ Abs(q) = k /\ (q # 0 => Sign(q) = Sign(n) * Sign(d))
  <2>1. CASE Sign(n) * Sign(d) = 1 BY <2>1, <1>3, <1>4 DEF Abs, Sign
  <2>2. CASE Sign(n) * Sign(d) = -1 BY <2>2, <1>3, <1>4 DEF Abs, Sign
  <2> QED BY <2>1, <2>2, <1>1
<1>6. Abs(q) * Abs(d) <= Abs(n) /\ Abs(n) < (Abs(q) + 1) * Abs(d)
  BY <1>1, <1>2, <1>4, <1>5
<1> QED BY <1>5, <1>6 DEF IsQuotient

\* What is left of the number has its sign, and is less than the divisor.
LEMMA RemainderOf ==
    ASSUME NEW n \in Int, NEW d \in Int \ {0}
    PROVE  LET r == n - d * Truncated(n, d)
           IN  r \in Int /\ IsRemainder(n, d, r) /\ Abs(r) <= Abs(n)
<1> DEFINE q == Truncated(n, d)
           r == n - d * q
<1>1. q \in Int /\ IsQuotient(n, d, q) BY TruncatedIs
<1> HIDE DEF q
<1>2. /\ Abs(q) * Abs(d) <= Abs(n) /\ Abs(n) < (Abs(q) + 1) * Abs(d)
      /\ q # 0 => Sign(q) = Sign(n) * Sign(d)
  BY <1>1 DEF IsQuotient
<1> DEFINE m == Abs(q) * Abs(d)
<1>3. m \in Nat /\ m <= Abs(n) /\ Abs(n) < m + Abs(d) /\ Abs(d) \in Nat \ {0}
  BY <1>1, <1>2 DEF Abs
<1>4. d * q = Sign(n) * m
  <2>1. CASE q = 0 BY <2>1 DEF Abs, Sign
  <2>2. CASE q # 0 /\ d > 0 /\ n >= 0 BY <1>1, <1>2, <2>2 DEF Abs, Sign
  <2>3. CASE q # 0 /\ d > 0 /\ n < 0 BY <1>1, <1>2, <2>3 DEF Abs, Sign
  <2>4. CASE q # 0 /\ d < 0 /\ n >= 0 BY <1>1, <1>2, <2>4 DEF Abs, Sign
  <2>5. CASE q # 0 /\ d < 0 /\ n < 0 BY <1>1, <1>2, <2>5 DEF Abs, Sign
  <2> QED BY <1>1, <2>1, <2>2, <2>3, <2>4, <2>5
<1>5. /\ r \in Int /\ Abs(r) = Abs(n) - m
      /\ r # 0 => Sign(r) = Sign(n)
  <2> HIDE DEF m
  <2>1. CASE n >= 0 BY <2>1, <1>3, <1>4 DEF Abs, Sign
  <2>2. CASE n < 0 BY <2>2, <1>3, <1>4 DEF Abs, Sign
  <2> QED BY <2>1, <2>2
<1>6. (n - r) % Abs(d) = 0
  <2>1. PICK k \in Int : n - r = Abs(d) * k
    <3>1. n - r = d * q BY <1>1
    <3>2. CASE d > 0 BY <3>1, <3>2, <1>1 DEF Abs
    <3>3. CASE d < 0
      <4>1. d * q = Abs(d) * (-q) BY <3>3, <1>1 DEF Abs
      <4> QED BY <3>1, <4>1, <1>1, -q \in Int
    <3> QED BY <3>2, <3>3
  <2>2. n - r \in Int /\ n - r = Abs(d) * k + 0 /\ 0 \in 0 .. Abs(d) - 1
    BY <2>1, <1>3, <1>5
  <2> HIDE DEF r
  <2> QED BY <2>2, <1>3, RemainderIs
<1>7. Abs(r) < Abs(d) /\ Abs(r) <= Abs(n)
  <2> HIDE DEF r, m
  <2> QED BY <1>3, <1>5 DEF Abs
<1>8. r \in Int /\ IsRemainder(n, d, r) /\ Abs(r) <= Abs(n)
  BY <1>5, <1>6, <1>7 DEF IsRemainder
<1> QED BY <1>8 DEF q

\* Up to the limit, scaling a number does not leave 64 bits.
LEMMA ScalesInRange ==
    ASSUME NEW x \in Int, Abs(x) <= MaxSafeDiv
    PROVE  x * Scale \in Int /\ InRange(x * Scale)
<1>1. Scale \in Nat \ {0} /\ Largest \in Nat BY ArithmeticAssumption, Widths
<1>2. MaxSafeDiv \in Int /\ Scale * MaxSafeDiv <= Largest
  BY <1>1, Quotients DEF MaxSafeDiv
<1> DEFINE m == MaxSafeDiv
<1>3. m \in Int /\ Scale * m <= Largest /\ Abs(x) <= m BY <1>2
<1> HIDE DEF m
<1>4. Abs(x) * Scale <= m * Scale BY <1>1, <1>3 DEF Abs
<1>5. Abs(x) * Scale <= Largest BY <1>1, <1>3, <1>4 DEF Abs
<1>6. CASE x >= 0 BY <1>1, <1>5, <1>6 DEF Abs, InRange
<1>7. CASE x < 0
  <2>1. Abs(x) * Scale = -(x * Scale) BY <1>1, <1>7 DEF Abs
  <2>2. x * Scale \in Int /\ x * Scale <= 0 BY <1>1, <1>7
  <2> QED BY <1>1, <1>5, <2>1, <2>2 DEF InRange
<1> QED BY <1>6, <1>7

LEMMA QuotientRight ==
    ASSUME NEW x \in Int, NEW y \in Int \ {0}, Abs(x) * Scale < (Largest + 1) * Abs(y)
    PROVE  IsQuotient(x * Scale, y, dividedBy(x, y))
<1> DEFINE n == x * Scale
           q == Truncated(n, y)
<1>1. n \in Int /\ Largest \in Nat /\ Scale \in Nat \ {0}
  BY ArithmeticAssumption, Widths
<1>2. dividedBy(x, y) = Wrapped64(q)
  <2>1. Abs(x) <= MaxSafeDiv => Wrapped64(n) = n BY ScalesInRange, WrapsNothing
  <2> QED BY <2>1 DEF dividedBy
<1>3. Abs(n) = Abs(x) * Scale
  <2>1. CASE x >= 0 BY <2>1, <1>1 DEF Abs
  <2>2. CASE x < 0
    <3>1. CASE n < 0 BY <2>2, <3>1, <1>1 DEF Abs
    <3>2. CASE n >= 0
      <4>1. n < 0 BY <2>2, <1>1
      <4> QED BY <3>2, <4>1, <1>1
    <3> QED BY <3>1, <3>2, <1>1
  <2> QED BY <2>1, <2>2
<1> HIDE DEF n
<1>4. q \in Int /\ IsQuotient(n, y, q) BY <1>1, TruncatedIs
<1> HIDE DEF q
<1>5. InRange(q)
  <2>1. Abs(q) * Abs(y) < (Largest + 1) * Abs(y) BY <1>1, <1>3, <1>4 DEF IsQuotient, Abs
  <2>2. Abs(q) \in Nat /\ Abs(y) \in Nat \ {0} BY <1>4 DEF Abs
  <2>3. Abs(q) < Largest + 1
    <3>1. SUFFICES ASSUME Abs(q) >= Largest + 1 PROVE FALSE BY <1>1, <2>2
    <3>2. Abs(q) * Abs(y) >= (Largest + 1) * Abs(y) BY <3>1, <2>2, <1>1
    <3> QED BY <2>1, <2>2, <3>2, <1>1
  <2> QED BY <2>3, <1>1, <1>4 DEF InRange, Abs
<1>6. dividedBy(x, y) = q BY <1>2, <1>4, <1>5, WrapsNothing
<1> QED BY <1>4, <1>6 DEF n

-----------------------------------------------------------------------------
(***************************************************************************)
(* Optional integers.                                                      *)
(***************************************************************************)
LEMMA CastRepresentable ==
    ASSUME NEW n \in Int, signed \in BOOLEAN
    PROVE  Cast(n) \in Representable
<1>1. IntHalf \in Nat \ {0} /\ 2 * IntHalf \in Nat \ {0} BY ArithmeticAssumption
<1>2. n % (2 * IntHalf) \in 0 .. 2 * IntHalf - 1 BY <1>1, Remainders
<1>3. (n + IntHalf) % (2 * IntHalf) \in 0 .. 2 * IntHalf - 1
  BY <1>1, Remainders, n + IntHalf \in Int
<1> QED BY <1>1, <1>2, <1>3 DEF Cast, Signed, Representable

LEMMA NullRepresentable == signed \in BOOLEAN => Null \in Representable
  BY ArithmeticAssumption DEF Null, Representable

LEMMA Results ==
    ASSUME signed \in BOOLEAN, NEW v \in Representable, NEW w \in Representable
    PROVE  /\ Plus(v, w) \in Representable /\ Minus(v, w) \in Representable
           /\ Times(v, w) \in Representable
           /\ Quotient(v, w) \in Representable /\ Remainder(v, w) \in Representable
<1>1. v \in Int /\ w \in Int BY ArithmeticAssumption DEF Representable
<1>2. w # 0 => Truncated(v, w) \in Int BY <1>1, TruncatedIs
<1>3. v + w \in Int /\ v - w \in Int /\ v * w \in Int /\ (w # 0 => v - w * Truncated(v, w) \in Int)
  BY <1>1, <1>2
<1> QED
  BY <1>2, <1>3, CastRepresentable, NullRepresentable
  DEF Plus, Minus, Times, Quotient, Remainder

\* A value divided by a value fits its type, and so does what is left.
LEMMA ValuesDivide ==
    ASSUME signed \in BOOLEAN,
           NEW v \in Representable, NEW w \in Representable,
           hasValue(v), hasValue(w), w # 0
    PROVE  /\ hasValue(Quotient(v, w)) /\ IsQuotient(v, w, Quotient(v, w))
           /\ hasValue(Remainder(v, w)) /\ IsRemainder(v, w, Remainder(v, w))
<1>1. v \in Int /\ w \in Int \ {0} /\ IntHalf \in Nat \ {0}
  BY ArithmeticAssumption DEF Representable
<1> DEFINE q == Truncated(v, w)
           r == v - w * q
<1>2. q \in Int /\ IsQuotient(v, w, q) BY <1>1, TruncatedIs
<1>3. r \in Int /\ IsRemainder(v, w, r) /\ Abs(r) <= Abs(v) BY <1>1, RemainderOf
<1>4. Quotient(v, w) = Cast(q) /\ Remainder(v, w) = Cast(r)
  BY DEF Quotient, Remainder, BothHaveValues
<1> HIDE DEF q, r
<1>5. Abs(q) <= Abs(v)
  <2>1. Abs(q) \in Nat /\ Abs(w) \in Nat \ {0} /\ Abs(v) \in Nat
    BY <1>1, <1>2 DEF Abs
  <2>2. Abs(q) * Abs(w) >= Abs(q) * 1 BY <2>1
  <2>3. Abs(q) * Abs(w) <= Abs(v) BY <1>2 DEF IsQuotient
  <2> QED BY <2>1, <2>2, <2>3
<1>6. CASE signed
  <2>1. v \in -IntHalf + 1 .. IntHalf - 1
    BY <1>6, <1>1 DEF Representable, hasValue, Null
  <2>2. \A n \in Int : Abs(n) <= Abs(v) => n \in -IntHalf + 1 .. IntHalf - 1
    BY <2>1, <1>1 DEF Abs
  <2>3. q \in -IntHalf + 1 .. IntHalf - 1 /\ r \in -IntHalf + 1 .. IntHalf - 1
    BY <2>2, <1>2, <1>3, <1>5
  <2>4. Cast(q) = q /\ Cast(r) = r BY <2>3, <1>6, <1>1, SignedIs DEF Cast
  <2>5. q # Null /\ r # Null BY <2>3, <1>6, <1>1 DEF Null
  <2> QED BY <1>2, <1>3, <1>4, <2>4, <2>5 DEF hasValue
<1>7. CASE ~signed
  <2>1. v \in 0 .. 2 * IntHalf - 2 /\ w \in 0 .. 2 * IntHalf - 1
    BY <1>7, <1>1 DEF Representable, hasValue, Null
  <2>2. Sign(v) = 1 /\ Sign(w) = 1 BY <2>1 DEF Sign
  <2>3. q >= 0 BY <1>1, <1>2, <2>2 DEF IsQuotient, Sign
  <2>4. r >= 0 BY <1>1, <1>3, <2>2 DEF IsRemainder, Sign
  <2>5. q \in 0 .. 2 * IntHalf - 2 /\ r \in 0 .. 2 * IntHalf - 2
    BY <2>1, <2>3, <2>4, <1>1, <1>2, <1>3, <1>5 DEF Abs
  <2>6. \A n \in 0 .. 2 * IntHalf - 2 : Cast(n) = n
    <3>1. TAKE n \in 0 .. 2 * IntHalf - 2
    <3>2. n \in 0 .. 2 * IntHalf - 1 /\ n = 2 * IntHalf * 0 + n BY <1>1
    <3>3. n % (2 * IntHalf) = n
      <4>1. n \in Int /\ 2 * IntHalf \in Nat \ {0} BY <1>1
      <4> QED BY <3>2, <4>1, RemainderIs
    <3> QED BY <3>3, <1>7 DEF Cast
  <2>7. q # Null /\ r # Null BY <2>5, <1>7, <1>1 DEF Null
  <2> QED BY <1>2, <1>3, <1>4, <2>5, <2>6, <2>7 DEF hasValue
<1> QED BY <1>6, <1>7

\* Null is the least in the order, and the rest is ordered as numbers are.
LEMMA OrderRight ==
    ASSUME signed \in BOOLEAN, optional \in Representable
    PROVE  NullFirst
  BY ArithmeticAssumption, NullRepresentable DEF NullFirst, Less, hasValue, Null, Representable

-----------------------------------------------------------------------------
CalculationInv ==
    /\ done = Nothing => decimal \in Int
    /\ signed \in BOOLEAN /\ optional \in Representable
    /\ ShortProductsRight /\ QuotientsExact /\ QuotientsOfValues

LEMMA CalculationInvInit == CalculationInit => CalculationInv
<1> SUFFICES ASSUME CalculationInit PROVE CalculationInv OBVIOUS
<1>1. done = Nothing /\ signed \in BOOLEAN BY DEF CalculationInit
<1>2. decimal \in Int /\ optional \in Representable
  <2>1. \A n \in Operands : n \in Int BY ArithmeticAssumption, Widths
  <2>2. decimal \in Operands \/ decimal = 0 BY DEF CalculationInit
  <2>3. optional = Null \/ optional \in Representable BY DEF CalculationInit
  <2>4. decimal \in Int BY <2>1, <2>2
  <2>5. optional \in Representable BY <2>3, <1>1, NullRepresentable
  <2> QED BY <2>4, <2>5
<1>3. ShortProductsRight /\ QuotientsExact /\ QuotientsOfValues
  BY <1>1 DEF ShortProductsRight, QuotientsExact, QuotientsOfValues, Nothing, Did
<1> QED BY <1>1, <1>2, <1>3 DEF CalculationInv

\* A calculation that is no product and no quotient of decimals.
LEMMA SumKept ==
    ASSUME CalculationInv, NEW op \in {"plus", "minus"}, NEW r, NEW y, Calculate(op, r, y)
    PROVE  CalculationInv'
<1>1. optional' = optional /\ signed' = signed /\ done' = Did(op, decimal, y)
  BY DEF Calculate
<1>0. done' # Nothing BY <1>1 DEF Nothing, Did
<1>2. optional' \in Representable' /\ signed' \in BOOLEAN
  BY <1>1 DEF CalculationInv, Representable
<1>3. ShortProductsRight' /\ QuotientsExact' /\ QuotientsOfValues'
  BY <1>1 DEF ShortProductsRight, QuotientsExact, QuotientsOfValues, Did
<1> QED BY <1>0, <1>2, <1>3 DEF CalculationInv

LEMMA ProductKept ==
    ASSUME CalculationInv, NEW y \in Operands, Calculate("times", times(decimal, y), y)
    PROVE  CalculationInv'
<1>1. /\ optional' = optional /\ signed' = signed
      /\ done' = Did("times", decimal, y) /\ decimal' = times(decimal, y)
  BY DEF Calculate
<1>0. done' # Nothing BY <1>1 DEF Nothing, Did
<1>2. optional' \in Representable' /\ signed' \in BOOLEAN
  BY <1>1 DEF CalculationInv, Representable
<1>3. decimal \in Int /\ y \in Int
  BY ArithmeticAssumption, Widths DEF CalculationInv, Calculate
<1>4. ShortProductsRight'
  <2>1. Abs(decimal) <= Limit /\ Abs(y) <= Limit => IsProduct(decimal, y, decimal')
    BY <1>1, <1>3, ShortProductIsProduct
  <2>2. done'.left = decimal /\ done'.right = y BY <1>1 DEF Did
  <2> QED BY <2>1, <2>2 DEF ShortProductsRight
<1>5. QuotientsExact' /\ QuotientsOfValues'
  BY <1>1 DEF QuotientsExact, QuotientsOfValues, Did
<1> QED BY <1>0, <1>2, <1>4, <1>5 DEF CalculationInv

LEMMA QuotientKept ==
    ASSUME CalculationInv, NEW y \in Operands, Calculate("by", dividedBy(decimal, y), y)
    PROVE  CalculationInv'
<1>1. /\ optional' = optional /\ signed' = signed
      /\ done' = Did("by", decimal, y) /\ decimal' = dividedBy(decimal, y)
  BY DEF Calculate
<1>0. done' # Nothing BY <1>1 DEF Nothing, Did
<1>2. optional' \in Representable' /\ signed' \in BOOLEAN
  BY <1>1 DEF CalculationInv, Representable
<1>3. decimal \in Int /\ y \in Int
  BY ArithmeticAssumption, Widths DEF CalculationInv, Calculate
<1>4. QuotientsExact'
  <2>1. y # 0 /\ Abs(decimal) * Scale < (Largest + 1) * Abs(y) =>
            IsQuotient(decimal * Scale, y, decimal')
    BY <1>1, <1>3, QuotientRight
  <2>2. done'.left = decimal /\ done'.right = y BY <1>1 DEF Did
  <2> QED BY <2>1, <2>2 DEF QuotientsExact
<1>5. ShortProductsRight' /\ QuotientsOfValues'
  BY <1>1 DEF ShortProductsRight, QuotientsOfValues, Did
<1> QED BY <1>0, <1>2, <1>4, <1>5 DEF CalculationInv

LEMMA AssignmentKept ==
    ASSUME CalculationInv, NEW op, op \notin {"nothing", "times", "by"},
           NEW r \in Representable, NEW w, Assign(op, r, w),
           op \in {"optional by", "optional mod"} /\ hasValue(optional) /\ hasValue(w) /\ w # 0 =>
               /\ hasValue(r)
               /\ op = "optional by" => IsQuotient(optional, w, r)
               /\ op = "optional mod" => IsRemainder(optional, w, r)
    PROVE  CalculationInv'
<1>1. optional' = r /\ decimal' = decimal /\ signed' = signed /\ done' = Did(op, optional, w)
  BY DEF Assign
<1>0. done' # Nothing BY <1>1 DEF Nothing, Did
<1>2. optional' \in Representable' /\ signed' \in BOOLEAN
  BY <1>1 DEF CalculationInv, Representable
<1>3. QuotientsOfValues'
  BY <1>1 DEF QuotientsOfValues, Did, hasValue, Null
<1>4. ShortProductsRight' /\ QuotientsExact'
  BY <1>1 DEF ShortProductsRight, QuotientsExact, Did
<1> QED BY <1>0, <1>2, <1>3, <1>4 DEF CalculationInv

LEMMA CalculationInvStep ==
    CalculationInv /\ [CalculationNext]_calculations => CalculationInv'
<1> SUFFICES ASSUME CalculationInv, [CalculationNext]_calculations PROVE CalculationInv'
  OBVIOUS
<1>1. CASE Add BY <1>1, SumKept DEF Add
<1>2. CASE Subtract BY <1>2, SumKept DEF Subtract
<1>3. CASE Multiply BY <1>3, ProductKept DEF Multiply
<1>4. CASE Divide BY <1>4, QuotientKept DEF Divide
<1>0. signed \in BOOLEAN /\ optional \in Representable BY DEF CalculationInv
<1>5. CASE AssignPlus
  <2>1. PICK w \in Representable : Assign("optional plus", Plus(optional, w), w)
    BY <1>5 DEF AssignPlus
  <2>2. Plus(optional, w) \in Representable BY <1>0, Results
  <2> QED BY <2>1, <2>2, AssignmentKept
<1>6. CASE AssignMinus
  <2>1. PICK w \in Representable : Assign("optional minus", Minus(optional, w), w)
    BY <1>6 DEF AssignMinus
  <2>2. Minus(optional, w) \in Representable BY <1>0, Results
  <2> QED BY <2>1, <2>2, AssignmentKept
<1>7. CASE AssignTimes
  <2>1. PICK w \in Representable : Assign("optional times", Times(optional, w), w)
    BY <1>7 DEF AssignTimes
  <2>2. Times(optional, w) \in Representable BY <1>0, Results
  <2> QED BY <2>1, <2>2, AssignmentKept
<1>8. CASE AssignQuotient
  <2>1. PICK w \in Representable : Assign("optional by", Quotient(optional, w), w)
    BY <1>8 DEF AssignQuotient
  <2>2. Quotient(optional, w) \in Representable BY <1>0, Results
  <2>3. hasValue(optional) /\ hasValue(w) /\ w # 0 =>
            hasValue(Quotient(optional, w)) /\ IsQuotient(optional, w, Quotient(optional, w))
    BY <1>0, ValuesDivide
  <2> QED BY <2>1, <2>2, <2>3, AssignmentKept
<1>9. CASE AssignRemainder
  <2>1. PICK w \in Representable : Assign("optional mod", Remainder(optional, w), w)
    BY <1>9 DEF AssignRemainder
  <2>2. Remainder(optional, w) \in Representable BY <1>0, Results
  <2>3. hasValue(optional) /\ hasValue(w) /\ w # 0 =>
            hasValue(Remainder(optional, w)) /\ IsRemainder(optional, w, Remainder(optional, w))
    BY <1>0, ValuesDivide
  <2> QED BY <2>1, <2>2, <2>3, AssignmentKept
<1>10. CASE UNCHANGED calculations
  BY <1>10 DEF CalculationInv, calculations, ShortProductsRight, QuotientsExact,
               QuotientsOfValues, hasValue, Null, Representable
<1> QED
  BY <1>1, <1>2, <1>3, <1>4, <1>5, <1>6, <1>7, <1>8, <1>9, <1>10 DEF CalculationNext

\* What is calculated with keeps its type, and what was calculated is right.
THEOREM CalculationInvHolds == CalculationSpec => []CalculationInv
  BY CalculationInvInit, CalculationInvStep, PTL DEF CalculationSpec

\* For every width and scale, the multiplication with the reciprocal rounds to a unit,
\* for operands of both signs up to any limit whose square fits
\* (FixedDecimal.hpp:104-112).
THEOREM ShortProductsAreRight == CalculationSpec => []ShortProductsRight
<1>1. CalculationInv => ShortProductsRight BY DEF CalculationInv
<1> QED BY <1>1, CalculationInvHolds, PTL

\* No numerator that is scaled in 64 bits overflows them, and a quotient that fits is
\* right on either side of the limit (FixedDecimal.hpp:120-136).
THEOREM QuotientsAreExact == CalculationSpec => []QuotientsExact
<1>1. CalculationInv => QuotientsExact BY DEF CalculationInv
<1> QED BY <1>1, CalculationInvHolds, PTL

\* Null is the least value of every signed and unsigned type, and the order is total
\* (OptionalInt.hpp:252-269).
THEOREM NullIsFirst == CalculationSpec => []NullFirst
<1>1. CalculationInv => NullFirst BY OrderRight DEF CalculationInv
<1> QED BY <1>1, CalculationInvHolds, PTL

\* Quotients and remainders of values are values, and right, whatever the width and
\* the sign of the type (OptionalInt.hpp:29-31, 126-142).
THEOREM ValuesAreDivided == CalculationSpec => []QuotientsOfValues
<1>1. CalculationInv => QuotientsOfValues BY DEF CalculationInv
<1> QED BY <1>1, CalculationInvHolds, PTL
=============================================================================
