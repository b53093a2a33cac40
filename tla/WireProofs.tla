----------------------------- MODULE WireProofs -----------------------------
(***************************************************************************)
(* What the conversions of Wire return, as far as others need it: that it  *)
(* is a sequence, and how long it is; the laws of byte sums, on which      *)
(* every incremental checksum rests; and that a number written with        *)
(* leading zeroes in up to eight digits is read back as itself.            *)
(***************************************************************************)
EXTENDS Wire, Scans, FiniteSets, FiniteSetTheorems, WellFoundedInduction, SequenceTheorems, TLAPS

\* Least picks the smallest member.  The intervals 0 .. x, for the members x, are
\* finite sets of numbers, which the strict subset relation orders well: the
\* smallest interval belongs to the smallest member.
LEMMA LeastOfNat ==
    ASSUME NEW S \in SUBSET Nat, S # {}
    PROVE  Least(S) \in S /\ \A y \in S : Least(S) <= y
<1> DEFINE R == StrictSubsetOrdering(Nat)
           T == {0 .. x : x \in S}
<1>1. IsWellFoundedOn(R, FiniteSubsetsOf(Nat))
  BY FS_StrictSubsetOrderingWellFounded
<1>2. T \subseteq FiniteSubsetsOf(Nat) /\ T # {}
  <2>1. ASSUME NEW x \in S PROVE IsFiniteSet(0 .. x)
    BY FS_Interval
  <2>2. ASSUME NEW x \in S PROVE 0 .. x \in FiniteSubsetsOf(Nat)
    BY <2>1 DEF FiniteSubsetsOf
  <2> QED BY <2>2
<1>3. PICK I \in T : \A J \in T : ~ (<<J, I>> \in R)
  <2> HIDE DEF T, R
  <2> QED BY <1>1, <1>2, WFMin
<1>4. PICK x \in S : I = 0 .. x
  OBVIOUS
<1>5. ASSUME NEW y \in S PROVE x <= y
  <2>1. SUFFICES ASSUME y < x PROVE FALSE
    OBVIOUS
  <2>2. 0 .. y \subseteq 0 .. x /\ x \in 0 .. x /\ x \notin 0 .. y
    BY <2>1
  <2>3. <<0 .. y, 0 .. x>> \in R
    BY <2>2 DEF StrictSubsetOrdering
  <2> QED BY <1>3, <1>4, <2>3
<1> QED BY <1>4, <1>5 DEF Least

IsSequence(s) == \E S : s \in Seq(S)

LEMMA LengthOfSequence == ASSUME NEW s, IsSequence(s) PROVE Len(s) \in Nat
  BY DEF IsSequence

\* Joined sequences are a sequence, as long as both.
LEMMA JoinedSequences ==
    ASSUME NEW s, NEW t, IsSequence(s), IsSequence(t)
    PROVE  IsSequence(s \o t) /\ Len(s \o t) = Len(s) + Len(t)
<1>1. PICK S : s \in Seq(S)
  BY DEF IsSequence
<1>2. PICK T : t \in Seq(T)
  BY DEF IsSequence
<1>3. s \in Seq(S \union T) /\ t \in Seq(S \union T)
  BY <1>1, <1>2
<1>4. s \o t \in Seq(S \union T)
  BY <1>3
<1>5. Len(s \o t) = Len(s) + Len(t)
  BY <1>3
<1> QED BY <1>4, <1>5 DEF IsSequence

\* A padded number is as wide as it should be, whatever it is.
LEMMA PaddedSequence ==
    ASSUME NEW n, NEW w \in Nat
    PROVE  IsSequence(Padded(n, w)) /\ Len(Padded(n, w)) = w
<1> DEFINE S == {Padded(n, w)[i] : i \in 1 .. w}
<1>1. Padded(n, w) \in [1 .. w -> S]
  BY DEF Padded
<1>2. Padded(n, w) \in Seq(S)
  <2> HIDE DEF S
  <2> QED BY <1>1
<1>3. Len(Padded(n, w)) = w
  BY DEF Padded
<1> QED BY <1>2, <1>3 DEF IsSequence

LEMMA OneSequence == ASSUME NEW b PROVE IsSequence(<<b>>)
<1>1. <<b>> \in Seq({b})
  OBVIOUS
<1> QED BY <1>1 DEF IsSequence

\* How wide a decimal is: as many digits as the number has, at least one.
LEMMA DecimalWidth ==
    ASSUME NEW n \in Int
    PROVE  \E w \in 1 .. MaxNumberLength :
               /\ Decimal(n) = Padded(n, w)
               /\ w = MaxNumberLength \/ n < 10 * Weight[w]
               /\ w = 1 \/ n >= Weight[w]
<1> DEFINE Fits(w) == /\ w = MaxNumberLength \/ n < 10 * Weight[w]
                      /\ w = 1 \/ n >= Weight[w]
           width == CHOOSE w \in 1 .. MaxNumberLength : Fits(w)
<1>1. \E w \in 1 .. MaxNumberLength : Fits(w)
  <2>1. CASE n < 10
    BY <2>1 DEF MaxNumberLength, Weight
  <2>2. CASE n >= 10 /\ n < 10000
    <3>1. Fits(2) \/ Fits(3) \/ Fits(4)
      BY <2>2 DEF MaxNumberLength, Weight
    <3> QED BY <3>1 DEF MaxNumberLength
  <2>3. CASE n >= 10000
    <3>1. Fits(5) \/ Fits(6) \/ Fits(7) \/ Fits(8)
      BY <2>3 DEF MaxNumberLength, Weight
    <3> QED BY <3>1 DEF MaxNumberLength
  <2> QED BY <2>1, <2>2, <2>3
<1>2. width \in 1 .. MaxNumberLength /\ Fits(width)
  BY <1>1
<1>3. Decimal(n) = Padded(n, width)
  BY DEF Decimal
<1> HIDE DEF width
<1> QED BY <1>2, <1>3

LEMMA DecimalSequence ==
    ASSUME NEW n \in Int
    PROVE  IsSequence(Decimal(n))
<1>1. PICK w \in 1 .. MaxNumberLength : Decimal(n) = Padded(n, w)
  BY DecimalWidth
<1>2. w \in Nat
  BY DEF MaxNumberLength
<1> QED BY <1>1, <1>2, PaddedSequence

\* A field of the wire.
LEMMA FieldSequence ==
    ASSUME NEW tag \in Nat, NEW value, IsSequence(value)
    PROVE  IsSequence(FieldBytes([tag |-> tag, value |-> value]))
<1>1. IsSequence(Decimal(tag)) /\ IsSequence(<<TagEnd>>) /\ IsSequence(<<FieldEnd>>)
  BY DecimalSequence, OneSequence
<1>2. IsSequence(Decimal(tag) \o <<TagEnd>> \o value \o <<FieldEnd>>)
  <2>1. IsSequence(Decimal(tag) \o <<TagEnd>>)
    BY <1>1, JoinedSequences
  <2>2. IsSequence((Decimal(tag) \o <<TagEnd>>) \o value)
    BY <2>1, JoinedSequences
  <2> QED BY <1>1, <2>2, JoinedSequences
<1> QED BY <1>2 DEF FieldBytes

-----------------------------------------------------------------------------
(***************************************************************************)
(* Sums over sequences of every length.  The induction is over the lengths: *)
(* a least length at which the claim failed would have a shorter one, for  *)
(* which it holds, right below it.                                         *)
(***************************************************************************)
AreSums(sum, s, n) == sum = [i \in 0 .. n |-> IF i = 0 THEN 0 ELSE sum[i - 1] + s[i]]

\* The recursion has a solution.
LEMMA SumsExist ==
    ASSUME NEW s, NEW n \in Nat
    PROVE  \E sum : AreSums(sum, s, n)
<1> DEFINE Bad == {m \in 0 .. n : ~ \E sum : AreSums(sum, s, m)}
<1>1. SUFFICES ASSUME Bad # {} PROVE FALSE
  <2>1. n \in 0 .. n
    OBVIOUS
  <2> QED BY <2>1
<1>2. PICK m \in Bad : \A k \in Bad : m <= k
  <2>1. Bad \in SUBSET Nat
    OBVIOUS
  <2> HIDE DEF Bad
  <2> QED BY <1>1, <2>1, LeastOfNat
<1>3. CASE m = 0
  <2> DEFINE none == [i \in 0 .. m |-> 0]
  <2>1. \A i \in 0 .. m : i = 0
    BY <1>3
  <2>2. none = [i \in 0 .. m |-> IF i = 0 THEN 0 ELSE none[i - 1] + s[i]]
    BY <2>1
  <2> QED BY <1>2, <2>2 DEF AreSums
<1>4. CASE m > 0
  <2>1. m - 1 \in 0 .. n /\ m - 1 \notin Bad /\ m \in Nat
    BY <1>2, <1>4
  <2>2. PICK shorter : AreSums(shorter, s, m - 1)
    BY <2>1
  <2> DEFINE longer == [i \in 0 .. m |-> IF i = m THEN shorter[m - 1] + s[m] ELSE shorter[i]]
  <2>3. \A i \in 0 .. m - 1 : shorter[i] = IF i = 0 THEN 0 ELSE shorter[i - 1] + s[i]
    BY <2>2, Zenon DEF AreSums
  <2>4. \A i \in 0 .. m - 1 : longer[i] = shorter[i]
    BY <2>1
  <2>5. ASSUME NEW i \in 0 .. m
        PROVE  longer[i] = IF i = 0 THEN 0 ELSE longer[i - 1] + s[i]
    <3>1. CASE i = m
      <4>1. longer[m] = shorter[m - 1] + s[m] /\ m \in 0 .. m /\ m - 1 \in 0 .. m - 1
        BY <1>4, <2>1
      <4> HIDE DEF longer
      <4> QED BY <1>4, <2>4, <3>1, <4>1
    <3>2. CASE i < m
      <4>1. i \in 0 .. m - 1 /\ (i # 0 => i - 1 \in 0 .. m - 1)
        BY <2>1, <3>2
      <4> HIDE DEF longer
      <4> QED BY <2>3, <2>4, <4>1
    <3> QED BY <2>1, <3>1, <3>2
  <2>6. longer = [i \in 0 .. m |-> IF i = 0 THEN 0 ELSE longer[i - 1] + s[i]]
    <3>1. longer = [i \in 0 .. m |-> longer[i]]
      OBVIOUS
    <3> HIDE DEF longer
    <3> QED BY <2>5, <3>1
  <2> HIDE DEF longer
  <2> QED BY <1>2, <2>6 DEF AreSums
<1> QED BY <1>2, <1>3, <1>4

\* So the partial sums are what they say.
LEMMA PartialSumsAre ==
    ASSUME NEW s, Len(s) \in Nat
    PROVE  /\ PartialSums(s)[0] = 0
           /\ \A i \in 1 .. Len(s) : PartialSums(s)[i] = PartialSums(s)[i - 1] + s[i]
<1>1. PartialSums(s) = CHOOSE sum : AreSums(sum, s, Len(s))
  BY DEF PartialSums, AreSums
<1>2. AreSums(PartialSums(s), s, Len(s))
  <2>1. \E sum : AreSums(sum, s, Len(s))
    BY SumsExist
  <2> QED BY <1>1, <2>1
<1> DEFINE sums == PartialSums(s)
<1>3. sums = [i \in 0 .. Len(s) |-> IF i = 0 THEN 0 ELSE sums[i - 1] + s[i]]
  BY <1>2 DEF AreSums
<1> HIDE DEF sums
<1>4. sums[0] = 0 /\ \A i \in 1 .. Len(s) : sums[i] = sums[i - 1] + s[i]
  <2>1. \A i \in 0 .. Len(s) : sums[i] = IF i = 0 THEN 0 ELSE sums[i - 1] + s[i]
    BY <1>3, Zenon
  <2> QED BY <2>1
<1> QED BY <1>4 DEF sums

LEMMA PartialSumsType ==
    ASSUME NEW s \in Seq(Int)
    PROVE  \A i \in 0 .. Len(s) : PartialSums(s)[i] \in Int
<1> DEFINE sums == PartialSums(s)
           Bad  == {i \in 0 .. Len(s) : sums[i] \notin Int}
<1>1. Len(s) \in Nat /\ \A i \in 1 .. Len(s) : s[i] \in Int
  OBVIOUS
<1>2. sums[0] = 0 /\ \A i \in 1 .. Len(s) : sums[i] = sums[i - 1] + s[i]
  BY <1>1, PartialSumsAre
<1> HIDE DEF sums
<1>3. SUFFICES ASSUME Bad # {} PROVE FALSE
  BY DEF sums
<1>4. PICK m \in Bad : \A k \in Bad : m <= k
  <2>1. Bad \in SUBSET Nat
    OBVIOUS
  <2> HIDE DEF Bad
  <2> QED BY <1>3, <2>1, LeastOfNat
<1>5. m # 0
  BY <1>2, <1>4
<1>6. m - 1 \in 0 .. Len(s) /\ m - 1 \notin Bad /\ m \in 1 .. Len(s)
  BY <1>1, <1>4, <1>5
<1> QED BY <1>1, <1>2, <1>4, <1>6, SMTT(20)

LEMMA SumOfType ==
    ASSUME NEW s \in Seq(Int)
    PROVE  SumOf(s) \in Int
BY PartialSumsType DEF SumOf

\* The sum of a slice is the difference of two partial sums, so a sum can be
\* extended over the bytes that follow and cut back from the bytes behind.
LEMMA SumOfSlice ==
    ASSUME NEW s \in Seq(Int), NEW from \in Nat, NEW to \in Nat, from <= to, to <= Len(s)
    PROVE  SumOf(Slice(s, from, to)) = PartialSums(s)[to] - PartialSums(s)[from]
<1> DEFINE slice == Slice(s, from, to)
           sums  == PartialSums(s)
           part  == PartialSums(slice)
           Bad   == {i \in 0 .. to - from : part[i] # sums[from + i] - sums[from]}
<1>1. Len(s) \in Nat /\ \A i \in 1 .. Len(s) : s[i] \in Int
  OBVIOUS
<1>2. /\ slice \in Seq(Int) /\ Len(slice) = to - from
      /\ \A i \in 1 .. to - from : slice[i] = s[from + i]
  <2>1. slice = SubSeq(s, from + 1, to)
    BY DEF Slice
  <2> HIDE DEF slice
  <2> QED BY <1>1, <2>1
<1>3. sums[0] = 0 /\ \A i \in 1 .. Len(s) : sums[i] = sums[i - 1] + s[i]
  BY <1>1, PartialSumsAre
<1>4. part[0] = 0 /\ \A i \in 1 .. to - from : part[i] = part[i - 1] + slice[i]
  BY <1>1, <1>2, PartialSumsAre
<1>5. \A i \in 0 .. Len(s) : sums[i] \in Int
  BY PartialSumsType
<1>6. SumOf(slice) = part[to - from]
  BY <1>2 DEF SumOf
<1> HIDE DEF slice, sums, part
<1>7. SUFFICES ASSUME Bad # {} PROVE FALSE
  <2>1. to - from \in 0 .. to - from /\ from + (to - from) = to
    OBVIOUS
  <2>2. Bad = {} => part[to - from] = sums[to] - sums[from]
    BY <2>1
  <2> QED BY <1>6, <2>2 DEF slice, sums
<1>8. PICK m \in Bad : \A k \in Bad : m <= k
  <2>1. Bad \in SUBSET Nat
    OBVIOUS
  <2> HIDE DEF Bad
  <2> QED BY <1>7, <2>1, LeastOfNat
<1>9. m # 0
  BY <1>1, <1>4, <1>5, <1>8
<1>10. /\ m \in 1 .. to - from /\ m - 1 \in 0 .. to - from /\ m - 1 \notin Bad
       /\ from + m \in 1 .. Len(s) /\ from + (m - 1) = (from + m) - 1
  BY <1>1, <1>8, <1>9
<1>11. part[m - 1] = sums[(from + m) - 1] - sums[from]
  BY <1>10
<1>12. part[m] = part[m - 1] + s[from + m] /\ sums[from + m] = sums[(from + m) - 1] + s[from + m]
  BY <1>2, <1>3, <1>4, <1>10
<1>13. sums[(from + m) - 1] \in Int /\ sums[from] \in Int /\ s[from + m] \in Int
  BY <1>1, <1>5, <1>10
<1> QED BY <1>8, <1>11, <1>12, <1>13

\* Slices that do not hold a byte.
LEMMA SumOfNothing ==
    ASSUME NEW s \in Seq(Int), NEW from \in Nat, NEW to \in Int, to <= from
    PROVE  SumOf(Slice(s, from, to)) = 0
<1>1. Slice(s, from, to) = <<>>
  BY DEF Slice
<1>2. SumOf(<<>>) = PartialSums(<<>>)[0] /\ Len(<<>>) = 0
  BY DEF SumOf
<1> QED BY <1>1, <1>2, PartialSumsAre

\* The digit loop, by the same induction.
AreLoops(loop, s, range, n) ==
    loop = [i \in 0 .. n |-> IF i = 0 THEN 0 ELSE Appended(loop[i - 1], s[i], range)]

\* The recursion has a solution.
LEMMA LoopsExist ==
    ASSUME NEW s, NEW range, NEW n \in Nat
    PROVE  \E loop : AreLoops(loop, s, range, n)
<1> DEFINE Bad == {m \in 0 .. n : ~ \E loop : AreLoops(loop, s, range, m)}
<1>1. SUFFICES ASSUME Bad # {} PROVE FALSE
  <2>1. n \in 0 .. n
    OBVIOUS
  <2> QED BY <2>1
<1>2. PICK m \in Bad : \A k \in Bad : m <= k
  <2>1. Bad \in SUBSET Nat
    OBVIOUS
  <2> HIDE DEF Bad
  <2> QED BY <1>1, <2>1, LeastOfNat
<1>3. CASE m = 0
  <2> DEFINE none == [i \in 0 .. m |-> 0]
  <2>1. \A i \in 0 .. m : i = 0
    BY <1>3
  <2>2. none = [i \in 0 .. m |-> IF i = 0 THEN 0 ELSE Appended(none[i - 1], s[i], range)]
    BY <2>1
  <2> QED BY <1>2, <2>2 DEF AreLoops
<1>4. CASE m > 0
  <2>1. m - 1 \in 0 .. n /\ m - 1 \notin Bad /\ m \in Nat
    BY <1>2, <1>4
  <2>2. PICK shorter : AreLoops(shorter, s, range, m - 1)
    BY <2>1
  <2> DEFINE longer == [i \in 0 .. m |-> IF i = m THEN Appended(shorter[m - 1], s[m], range) ELSE shorter[i]]
  <2>3. \A i \in 0 .. m - 1 : shorter[i] = IF i = 0 THEN 0 ELSE Appended(shorter[i - 1], s[i], range)
    BY <2>2, Zenon DEF AreLoops
  <2>4. \A i \in 0 .. m - 1 : longer[i] = shorter[i]
    BY <2>1
  <2>5. ASSUME NEW i \in 0 .. m
        PROVE  longer[i] = IF i = 0 THEN 0 ELSE Appended(longer[i - 1], s[i], range)
    <3>1. CASE i = m
      <4>1. longer[m] = Appended(shorter[m - 1], s[m], range) /\ m \in 0 .. m /\ m - 1 \in 0 .. m - 1
        BY <1>4, <2>1
      <4> HIDE DEF longer
      <4> QED BY <1>4, <2>4, <3>1, <4>1
    <3>2. CASE i < m
      <4>1. i \in 0 .. m - 1 /\ (i # 0 => i - 1 \in 0 .. m - 1)
        BY <2>1, <3>2
      <4> HIDE DEF longer
      <4> QED BY <2>3, <2>4, <4>1
    <3> QED BY <2>1, <3>1, <3>2
  <2>6. longer = [i \in 0 .. m |-> IF i = 0 THEN 0 ELSE Appended(longer[i - 1], s[i], range)]
    <3>1. longer = [i \in 0 .. m |-> longer[i]]
      OBVIOUS
    <3> HIDE DEF longer
    <3> QED BY <2>5, <3>1
  <2> HIDE DEF longer
  <2> QED BY <1>2, <2>6 DEF AreLoops
<1> QED BY <1>2, <1>3, <1>4

Loop(s, range) == CHOOSE loop : AreLoops(loop, s, range, Len(s))

LEMMA LoopsAre ==
    ASSUME NEW s, NEW range, Len(s) \in Nat
    PROVE  /\ Loop(s, range)[0] = 0
           /\ \A i \in 1 .. Len(s) : Loop(s, range)[i] = Appended(Loop(s, range)[i - 1], s[i], range)
<1>2. AreLoops(Loop(s, range), s, range, Len(s))
  <2>1. \E loop : AreLoops(loop, s, range, Len(s))
    BY LoopsExist
  <2> QED BY <2>1 DEF Loop
<1> DEFINE loops == Loop(s, range)
<1>3. loops = [i \in 0 .. Len(s) |-> IF i = 0 THEN 0 ELSE Appended(loops[i - 1], s[i], range)]
  BY <1>2 DEF AreLoops
<1> HIDE DEF loops
<1>4. loops[0] = 0 /\ \A i \in 1 .. Len(s) : loops[i] = Appended(loops[i - 1], s[i], range)
  <2>1. \A i \in 0 .. Len(s) : loops[i] = IF i = 0 THEN 0 ELSE Appended(loops[i - 1], s[i], range)
    BY <1>3, Zenon
  <2> QED BY <2>1
<1> QED BY <1>4 DEF loops

LEMMA AppendedType ==
    ASSUME NEW n \in Int, NEW b \in Int, NEW range \in Nat \ {0}
    PROVE  Appended(n, b, range) \in Int
<1>1. (5 * n) % range \in Int
  OBVIOUS
<1> DEFINE r == (5 * n) % range
<1>2. r \in Int /\ Appended(n, b, range) = (2 * r + b - Zero) % range
  BY <1>1 DEF Appended
<1> HIDE DEF r
<1>3. 2 * r + b - Zero \in Int
  BY <1>2 DEF Zero
<1> QED BY <1>2, <1>3

LEMMA LoopType ==
    ASSUME NEW s \in Seq(Int), NEW range \in Nat \ {0}
    PROVE  \A i \in 0 .. Len(s) : Loop(s, range)[i] \in Int
<1> DEFINE loops == Loop(s, range)
           Bad  == {i \in 0 .. Len(s) : loops[i] \notin Int}
<1>1. Len(s) \in Nat /\ \A i \in 1 .. Len(s) : s[i] \in Int
  OBVIOUS
<1>2. loops[0] = 0 /\ \A i \in 1 .. Len(s) : loops[i] = Appended(loops[i - 1], s[i], range)
  BY <1>1, LoopsAre
<1> HIDE DEF loops
<1>3. SUFFICES ASSUME Bad # {} PROVE FALSE
  BY DEF loops
<1>4. PICK m \in Bad : \A k \in Bad : m <= k
  <2>1. Bad \in SUBSET Nat
    OBVIOUS
  <2> HIDE DEF Bad
  <2> QED BY <1>3, <2>1, LeastOfNat
<1>5. m # 0
  BY <1>2, <1>4
<1>6. m - 1 \in 0 .. Len(s) /\ m - 1 \notin Bad /\ m \in 1 .. Len(s)
  BY <1>1, <1>4, <1>5
<1>7. Loop(s, range)[m] = Appended(Loop(s, range)[m - 1], s[m], range)
  BY <1>2, <1>6 DEF loops
<1>8. Loop(s, range)[m - 1] \in Int /\ s[m] \in Int
  BY <1>1, <1>6 DEF loops
<1>9. Appended(Loop(s, range)[m - 1], s[m], range) \in Int
  BY <1>8, AppendedType
<1> QED BY <1>4, <1>7, <1>9 DEF loops

LEMMA LoopNumberType ==
    ASSUME NEW s \in Seq(Int), NEW range \in Nat \ {0}
    PROVE  LoopNumber(s, range) \in Int
<1>1. LoopNumber(s, range) = Loop(s, range)[Len(s)]
  BY DEF LoopNumber, Loop, AreLoops
<1>2. Len(s) \in 0 .. Len(s)
  OBVIOUS
<1> QED BY <1>1, <1>2, LoopType

-----------------------------------------------------------------------------
(***************************************************************************)
(* Sequences of sequences joined to one, by the same induction.            *)
(***************************************************************************)
AreJoined(f, ss, n) == f = [i \in 1 .. n |-> IF i = 1 THEN ss[i] ELSE f[i - 1] \o ss[i]]

LEMMA JoinedExist ==
    ASSUME NEW ss, NEW n \in Nat
    PROVE  \E f : AreJoined(f, ss, n)
<1> DEFINE Bad == {m \in 0 .. n : ~ \E f : AreJoined(f, ss, m)}
<1>1. SUFFICES ASSUME Bad # {} PROVE FALSE
  <2>1. n \in 0 .. n
    OBVIOUS
  <2> QED BY <2>1
<1>2. PICK m \in Bad : \A k \in Bad : m <= k
  <2>1. Bad \in SUBSET Nat
    OBVIOUS
  <2> HIDE DEF Bad
  <2> QED BY <1>1, <2>1, LeastOfNat
<1>3. CASE m = 0
  <2> DEFINE none == [i \in 1 .. m |-> <<>>]
  <2>1. \A i \in 1 .. m : FALSE
    BY <1>3
  <2>2. none = [i \in 1 .. m |-> IF i = 1 THEN ss[i] ELSE none[i - 1] \o ss[i]]
    BY <2>1
  <2> QED BY <1>2, <2>2 DEF AreJoined
<1>4. CASE m > 0
  <2>1. m - 1 \in 0 .. n /\ m - 1 \notin Bad /\ m \in Nat
    BY <1>2, <1>4
  <2>2. PICK shorter : AreJoined(shorter, ss, m - 1)
    BY <2>1
  <2> DEFINE last == IF m = 1 THEN ss[m] ELSE shorter[m - 1] \o ss[m]
             longer == [i \in 1 .. m |-> IF i = m THEN last ELSE shorter[i]]
  <2>3. \A i \in 1 .. m - 1 : shorter[i] = IF i = 1 THEN ss[i] ELSE shorter[i - 1] \o ss[i]
    BY <2>2, Zenon DEF AreJoined
  <2>4. \A i \in 1 .. m - 1 : longer[i] = shorter[i]
    BY <2>1
  <2>5. ASSUME NEW i \in 1 .. m
        PROVE  longer[i] = IF i = 1 THEN ss[i] ELSE longer[i - 1] \o ss[i]
    <3>1. CASE i = m
      <4>1. longer[m] = last /\ (m # 1 => m - 1 \in 1 .. m - 1)
        BY <1>4, <2>1
      <4> HIDE DEF longer
      <4> QED BY <2>4, <3>1, <4>1
    <3>2. CASE i < m
      <4>1. i \in 1 .. m - 1 /\ (i # 1 => i - 1 \in 1 .. m - 1)
        BY <2>1, <3>2
      <4> HIDE DEF longer
      <4> QED BY <2>3, <2>4, <4>1
    <3> QED BY <2>1, <3>1, <3>2
  <2>6. longer = [i \in 1 .. m |-> IF i = 1 THEN ss[i] ELSE longer[i - 1] \o ss[i]]
    <3>1. longer = [i \in 1 .. m |-> longer[i]]
      OBVIOUS
    <3> HIDE DEF longer
    <3> QED BY <2>5, <3>1
  <2> HIDE DEF longer
  <2> QED BY <1>2, <2>6 DEF AreJoined
<1> QED BY <1>2, <1>3, <1>4

\* FlattenSeq is the last of the joined prefixes.
LEMMA FlattenIs ==
    ASSUME NEW ss, Len(ss) \in Nat, Len(ss) # 0
    PROVE  \E f : /\ FlattenSeq(ss) = f[Len(ss)]
                  /\ f[1] = ss[1]
                  /\ \A i \in 2 .. Len(ss) : f[i] = f[i - 1] \o ss[i]
<1> DEFINE f == CHOOSE f : AreJoined(f, ss, Len(ss))
<1>1. FlattenSeq(ss) = f[Len(ss)]
  BY DEF FlattenSeq, AreJoined
<1>2. AreJoined(f, ss, Len(ss))
  BY JoinedExist
<1> HIDE DEF f
<1>3. \A i \in 1 .. Len(ss) : f[i] = IF i = 1 THEN ss[i] ELSE f[i - 1] \o ss[i]
  BY <1>2, Zenon DEF AreJoined
<1>4. 1 \in 1 .. Len(ss) /\ \A i \in 2 .. Len(ss) : i \in 1 .. Len(ss) /\ i # 1
  OBVIOUS
<1>5. f[1] = ss[1] /\ \A i \in 2 .. Len(ss) : f[i] = f[i - 1] \o ss[i]
  BY <1>3, <1>4
<1> QED BY <1>1, <1>5

\* What is joined last comes last.
LEMMA FlattenAppend ==
    ASSUME NEW S, NEW ss \in Seq(Seq(S)), NEW x \in Seq(S)
    PROVE  /\ FlattenSeq(ss) \in Seq(S)
           /\ FlattenSeq(Append(ss, x)) = FlattenSeq(ss) \o x
<1> DEFINE n    == Len(ss)
           more == Append(ss, x)
<1>1. n \in Nat /\ \A i \in 1 .. n : ss[i] \in Seq(S)
  OBVIOUS
<1>2. Len(more) = n + 1 /\ more[n + 1] = x /\ \A i \in 1 .. n : more[i] = ss[i]
  OBVIOUS
<1> HIDE DEF more
<1>3. PICK g : /\ FlattenSeq(more) = g[n + 1]
               /\ g[1] = more[1]
               /\ \A i \in 2 .. n + 1 : g[i] = g[i - 1] \o more[i]
  <2>1. Len(more) \in Nat /\ Len(more) # 0
    BY <1>1, <1>2
  <2>2. \E g : /\ FlattenSeq(more) = g[Len(more)]
               /\ g[1] = more[1]
               /\ \A i \in 2 .. Len(more) : g[i] = g[i - 1] \o more[i]
    BY <2>1, FlattenIs
  <2> QED BY <1>2, <2>2
<1>4. CASE n = 0
  <2>1. ss = <<>> /\ FlattenSeq(ss) = ss
    BY <1>4 DEF FlattenSeq
  <2>2. FlattenSeq(more) = x
    BY <1>2, <1>3, <1>4
  <2>3. <<>> \in Seq(S) /\ <<>> \o x = x
    OBVIOUS
  <2> QED BY <2>1, <2>2, <2>3 DEF more
<1>5. CASE n > 0
  <2>1. PICK f : /\ FlattenSeq(ss) = f[n]
                 /\ f[1] = ss[1]
                 /\ \A i \in 2 .. n : f[i] = f[i - 1] \o ss[i]
    <3>1. Len(ss) \in Nat /\ Len(ss) # 0
      BY <1>1, <1>5
    <3> QED BY <3>1, FlattenIs
  <2> DEFINE Bad == {i \in 1 .. n : ~ (f[i] = g[i] /\ f[i] \in Seq(S))}
  <2> HIDE DEF n
  <2>2. Bad = {}
    <3>1. SUFFICES ASSUME Bad # {} PROVE FALSE
      OBVIOUS
    <3>2. PICK m \in Bad : \A k \in Bad : m <= k
      <4>1. Bad \in SUBSET Nat
        OBVIOUS
      <4> HIDE DEF Bad
      <4> QED BY <3>1, <4>1, LeastOfNat
    <3>3. m # 1
      BY <1>1, <1>2, <1>3, <1>5, <2>1, <3>2
    <3>4. m \in 2 .. n /\ m \in 2 .. n + 1 /\ m - 1 \in 1 .. n /\ m - 1 \notin Bad /\ m \in 1 .. n
      BY <1>1, <3>2, <3>3
    <3>5. f[m] = f[m - 1] \o ss[m] /\ g[m] = g[m - 1] \o ss[m]
      BY <1>2, <1>3, <2>1, <3>4
    <3>6. f[m - 1] = g[m - 1] /\ f[m - 1] \in Seq(S) /\ ss[m] \in Seq(S)
      BY <1>1, <3>4
    <3>7. f[m] = g[m] /\ f[m] \in Seq(S)
      BY <3>5, <3>6
    <3> QED BY <3>2, <3>7
  <2>3. f[n] = g[n] /\ f[n] \in Seq(S)
    <3>1. n \in 1 .. n
      BY <1>1, <1>5
    <3> QED BY <2>2, <3>1
  <2>4. g[n + 1] = g[n] \o x
    <3>1. n + 1 \in 2 .. n + 1 /\ (n + 1) - 1 = n
      BY <1>1, <1>5
    <3> QED BY <1>2, <1>3, <3>1
  <2> QED BY <1>3, <2>1, <2>3, <2>4 DEF more
<1> QED BY <1>1, <1>4, <1>5

LEMMA FlattenNone == FlattenSeq(<<>>) = <<>>
BY DEF FlattenSeq

LEMMA Associative ==
    ASSUME NEW S, NEW s \in Seq(S), NEW t \in Seq(S), NEW u \in Seq(S)
    PROVE  (s \o t) \o u = s \o (t \o u)
BY ConcatAssociative

LEMMA JoinedBehind ==
    ASSUME NEW S, NEW s \in Seq(S), NEW t \in Seq(S), NEW i \in 1 .. Len(s) + Len(t), i > Len(s)
    PROVE  (s \o t)[i] = t[i - Len(s)]
OBVIOUS

LEMMA AppendToJoined ==
    ASSUME NEW S, NEW s \in Seq(S), NEW t \in Seq(S), NEW e \in S
    PROVE  s \o Append(t, e) = Append(s \o t, e) /\ s \o t \in Seq(S)
OBVIOUS

LEMMA FlattenJoinStep ==
    ASSUME NEW S, NEW ss \in Seq(Seq(S)), NEW p \in Seq(Seq(S)), NEW x \in Seq(S),
           FlattenSeq(ss \o p) = FlattenSeq(ss) \o FlattenSeq(p)
    PROVE  FlattenSeq(ss \o Append(p, x)) = FlattenSeq(ss) \o FlattenSeq(Append(p, x))
<1>1. ss \o Append(p, x) = Append(ss \o p, x) /\ ss \o p \in Seq(Seq(S))
  BY AppendToJoined
<1>2. FlattenSeq(Append(ss \o p, x)) = FlattenSeq(ss \o p) \o x
  BY <1>1, FlattenAppend
<1>3. FlattenSeq(Append(p, x)) = FlattenSeq(p) \o x
  BY FlattenAppend
<1>4. PICK a \in Seq(S), b \in Seq(S) : a = FlattenSeq(ss) /\ b = FlattenSeq(p)
  BY FlattenAppend
<1>5. (a \o b) \o x = a \o (b \o x)
  BY Associative, SMTT(20)
<1> QED BY <1>1, <1>2, <1>3, <1>4, <1>5

\* Joining is associative over a split of the parts.
LEMMA FlattenJoin ==
    ASSUME NEW S, NEW ss \in Seq(Seq(S)), NEW tt \in Seq(Seq(S))
    PROVE  FlattenSeq(ss \o tt) = FlattenSeq(ss) \o FlattenSeq(tt)
<1> DEFINE T       == Seq(S)
           part(k) == SubSeq(tt, 1, k)
           Good(k) == FlattenSeq(ss \o part(k)) = FlattenSeq(ss) \o FlattenSeq(part(k))
           Bad     == {k \in 0 .. Len(tt) : ~ Good(k)}
<1>1. Len(tt) \in Nat /\ part(Len(tt)) = tt
  OBVIOUS
<1>2. SUFFICES ASSUME Bad # {} PROVE FALSE
  <2>1. Len(tt) \in 0 .. Len(tt)
    BY <1>1
  <2>2. Good(Len(tt))
    BY <1>2, <2>1
  <2> QED BY <1>1, <2>2
<1>3. PICK m \in Bad : \A k \in Bad : m <= k
  <2>1. Bad \in SUBSET Nat
    OBVIOUS
  <2> HIDE DEF Bad
  <2> QED BY <1>2, <2>1, LeastOfNat
<1>4. m \in 0 .. Len(tt) /\ ~ Good(m)
  BY <1>3
<1>5. FlattenSeq(ss) \in T
  BY FlattenAppend DEF T
<1>6. CASE m = 0
  <2>1. part(0) = <<>> /\ ss \o part(0) = ss
    OBVIOUS
  <2>2. FlattenSeq(ss) \o <<>> = FlattenSeq(ss)
    BY <1>5
  <2> HIDE DEF part
  <2> QED BY <1>4, <1>6, <2>1, <2>2, FlattenNone
<1>7. CASE m # 0
  <2>1. m - 1 \in 0 .. Len(tt) /\ m - 1 \in Nat /\ m \in 1 .. Len(tt)
    BY <1>1, <1>4, <1>7
  <2>2. Good(m - 1)
    <3>1. m - 1 \notin Bad
      BY <1>3, <2>1
    <3> HIDE DEF Good
    <3> QED BY <2>1, <3>1
  <2>3. part(m) = Append(part(m - 1), tt[m]) /\ part(m - 1) \in Seq(T) /\ tt[m] \in T
    <3> HIDE DEF T
    <3>1. tt \in Seq(T)
      BY DEF T
    <3> QED BY <2>1, <3>1
  <2> HIDE DEF part
  <2>4. FlattenSeq(ss \o Append(part(m - 1), tt[m]))
            = FlattenSeq(ss) \o FlattenSeq(Append(part(m - 1), tt[m]))
    BY <2>2, <2>3, FlattenJoinStep
  <2> QED BY <1>4, <2>3, <2>4
<1> QED BY <1>6, <1>7

-----------------------------------------------------------------------------
(***************************************************************************)
(* The bytes of fields.                                                    *)
(***************************************************************************)
WireField == [tag : Nat, value : Seq(Byte)]

LEMMA PaddedBytes == ASSUME NEW n \in Int, NEW w \in 0 .. MaxNumberLength PROVE Padded(n, w) \in Seq(Byte)
<1>1. ASSUME NEW i \in 1 .. w PROVE Zero + ((n \div Weight[w + 1 - i]) % 10) \in Byte
  <2>1. Weight[w + 1 - i] \in Nat /\ Weight[w + 1 - i] > 0
    BY DEF Weight, MaxNumberLength
  <2> DEFINE q == n \div Weight[w + 1 - i]
  <2>2. q \in Int
    BY <2>1
  <2> HIDE DEF q
  <2>3. q % 10 \in 0 .. 9
    BY <2>2
  <2> QED BY <2>3 DEF Zero, Byte, q
<1>2. Padded(n, w) \in [1 .. w -> Byte]
  BY <1>1 DEF Padded
<1> QED BY <1>2 DEF MaxNumberLength

LEMMA DecimalBytes == ASSUME NEW n \in Int PROVE Decimal(n) \in Seq(Byte)
<1>1. PICK w \in 1 .. MaxNumberLength : Decimal(n) = Padded(n, w)
  BY DecimalWidth
<1>2. w \in 0 .. MaxNumberLength
  BY DEF MaxNumberLength
<1> QED BY <1>1, <1>2, PaddedBytes

LEMMA FieldBytesType == ASSUME NEW f \in WireField PROVE FieldBytes(f) \in Seq(Byte)
<1>1. Decimal(f.tag) \in Seq(Byte) /\ f.value \in Seq(Byte)
  BY DecimalBytes DEF WireField
<1>2. <<TagEnd>> \in Seq(Byte) /\ <<FieldEnd>> \in Seq(Byte)
  BY DEF TagEnd, FieldEnd, Byte
<1> QED BY <1>1, <1>2 DEF FieldBytes

\* The bytes of fields are joined as the fields are.
LEMMA FieldsBytesJoin ==
    ASSUME NEW fs \in Seq(WireField), NEW gs \in Seq(WireField)
    PROVE  /\ FieldsBytes(fs) \in Seq(Byte)
           /\ FieldsBytes(fs \o gs) = FieldsBytes(fs) \o FieldsBytes(gs)
<1> DEFINE bytes(hs) == [i \in DOMAIN hs |-> FieldBytes(hs[i])]
<1>1. ASSUME NEW hs \in Seq(WireField)
      PROVE  /\ bytes(hs) \in Seq(Seq(Byte)) /\ Len(bytes(hs)) = Len(hs)
             /\ \A i \in 1 .. Len(hs) : bytes(hs)[i] = FieldBytes(hs[i])
  <2>1. DOMAIN hs = 1 .. Len(hs) /\ Len(hs) \in Nat
    OBVIOUS
  <2>2. \A i \in 1 .. Len(hs) : FieldBytes(hs[i]) \in Seq(Byte)
    BY FieldBytesType
  <2>3. bytes(hs) \in [1 .. Len(hs) -> Seq(Byte)]
    BY <2>1, <2>2
  <2> QED BY <2>1, <2>3
<1>2. fs \o gs \in Seq(WireField)
  OBVIOUS
<1>3. bytes(fs \o gs) = bytes(fs) \o bytes(gs)
  <2> DEFINE a == bytes(fs)
             b == bytes(gs)
             c == bytes(fs \o gs)
  <2>1. /\ a \in Seq(Seq(Byte)) /\ b \in Seq(Seq(Byte)) /\ c \in Seq(Seq(Byte))
        /\ Len(a) = Len(fs) /\ Len(b) = Len(gs) /\ Len(c) = Len(fs) + Len(gs)
    BY <1>1, <1>2
  <2>2. ASSUME NEW i \in 1 .. Len(fs) + Len(gs) PROVE c[i] = (a \o b)[i]
    <3>1. c[i] = FieldBytes((fs \o gs)[i])
      BY <1>1, <1>2
    <3>2. CASE i <= Len(fs)
      <4>1. (fs \o gs)[i] = fs[i] /\ a[i] = FieldBytes(fs[i])
        BY <1>1, <3>2
      <4> HIDE DEF a, b, c
      <4> QED BY <2>1, <3>1, <3>2, <4>1
    <3>3. CASE i > Len(fs)
      <4>1. (fs \o gs)[i] = gs[i - Len(fs)] /\ b[i - Len(fs)] = FieldBytes(gs[i - Len(fs)])
        BY <1>1, <3>3
      <4> HIDE DEF a, b, c
      <4>2. i \in 1 .. Len(a) + Len(b) /\ i > Len(a) /\ Len(a) = Len(fs)
        BY <2>1, <3>3, SMT
      <4>3. (a \o b)[i] = b[i - Len(a)]
        BY <2>1, <4>2, JoinedBehind, ZenonT(20)
      <4> QED BY <3>1, <4>1, <4>2, <4>3, Zenon
    <3> QED BY <3>2, <3>3
  <2> HIDE DEF a, b, c
  <2>3. c = a \o b
    <3>1. a \o b \in Seq(Seq(Byte)) /\ Len(a \o b) = Len(fs) + Len(gs)
      BY <2>1, ConcatProperties
    <3> QED BY <2>1, <2>2, <3>1, SeqEqual
  <2> QED BY <2>3 DEF a, b, c
<1>4. \A hs : FieldsBytes(hs) = FlattenSeq(bytes(hs))
  BY DEF FieldsBytes
<1>5. bytes(fs) \in Seq(Seq(Byte)) /\ bytes(gs) \in Seq(Seq(Byte))
  BY <1>1
<1> HIDE DEF bytes
<1>6. FlattenSeq(bytes(fs)) \in Seq(Byte)
  <2>1. <<>> \in Seq(Byte)
    OBVIOUS
  <2> QED BY <1>5, <2>1, FlattenAppend
<1>7. FlattenSeq(bytes(fs) \o bytes(gs)) = FlattenSeq(bytes(fs)) \o FlattenSeq(bytes(gs))
  BY <1>5, FlattenJoin
<1> QED BY <1>3, <1>4, <1>6, <1>7

LEMMA FieldsBytesOne ==
    ASSUME NEW f \in WireField
    PROVE  FieldsBytes(<<f>>) = FieldBytes(f)
<1> DEFINE one == [i \in DOMAIN <<f>> |-> FieldBytes(<<f>>[i])]
<1>1. one = <<FieldBytes(f)>>
  OBVIOUS
<1>2. FlattenSeq(<<FieldBytes(f)>>) = <<>> \o FieldBytes(f)
  <2>1. <<>> \in Seq(Seq(Byte)) /\ Append(<<>>, FieldBytes(f)) = <<FieldBytes(f)>>
    OBVIOUS
  <2> QED BY <2>1, FieldBytesType, FlattenAppend, FlattenNone
<1>3. <<>> \o FieldBytes(f) = FieldBytes(f)
  BY FieldBytesType
<1> QED BY <1>1, <1>2, <1>3 DEF FieldsBytes

LEMMA FieldsBytesNone == FieldsBytes(<<>>) = <<>>
<1>1. [i \in DOMAIN <<>> |-> FieldBytes(<<>>[i])] = <<>>
  OBVIOUS
<1> QED BY <1>1, FlattenNone DEF FieldsBytes

-----------------------------------------------------------------------------
(***************************************************************************)
(* Digits.  What is written with w digits is read back as the number it was.*)
(***************************************************************************)
\* u is m bytes of s and n of t.
Join(u, s, m, t, n) ==
    /\ s \in Seq(Byte) /\ Len(s) = m /\ t \in Seq(Byte) /\ Len(t) = n
    /\ u \in Seq(Byte) /\ Len(u) = m + n
    /\ \A i \in 1 .. m : u[i] = s[i]
    /\ \A i \in 1 .. n : u[m + i] = t[i]

LEMMA Joins ==
    ASSUME NEW s \in Seq(Byte), NEW t \in Seq(Byte)
    PROVE  Join(s \o t, s, Len(s), t, Len(t))
<1> DEFINE m == Len(s)
           n == Len(t)
<1>1. /\ Len(s \o t) = Len(s) + Len(t) /\ s \o t \in Seq(Byte)
      /\ \A i \in 1 .. Len(s) + Len(t) : (s \o t)[i] = IF i <= Len(s) THEN s[i] ELSE t[i - Len(s)]
      /\ m \in Nat /\ n \in Nat
  BY ConcatProperties
<1>2. \A i \in 1 .. m : (s \o t)[i] = s[i]
  BY <1>1
<1>3. ASSUME NEW i \in 1 .. n PROVE (s \o t)[m + i] = t[i]
  <2>1. m + i \in 1 .. Len(s) + Len(t) /\ ~ (m + i <= Len(s)) /\ (m + i) - Len(s) = i
    BY <1>1
  <2> QED BY <1>1, <2>1
<1> QED BY <1>1, <1>2, <1>3 DEF Join

LEMMA JoinOf ==
    ASSUME NEW s, NEW m, NEW t, NEW n, s \in Seq(Byte), t \in Seq(Byte), Len(s) = m, Len(t) = n
    PROVE  Join(s \o t, s, m, t, n)
BY Joins, Zenon

\* Digit i from the right of n, as a byte.
DigitByte(n, i) == Zero + ((n \div Weight[i]) % 10)

LEMMA PaddedIs ==
    ASSUME NEW n \in Int, NEW w \in 1 .. 4
    PROVE  /\ Padded(n, w) \in Seq(Byte) /\ Len(Padded(n, w)) = w
           /\ \A i \in 1 .. w : Padded(n, w)[i] = DigitByte(n, w + 1 - i)
<1>1. w \in 0 .. MaxNumberLength /\ w \in Nat
  BY DEF MaxNumberLength
<1>2. Padded(n, w) \in Seq(Byte) /\ Len(Padded(n, w)) = w
  BY <1>1, PaddedBytes, PaddedSequence
<1>3. \A i \in 1 .. w : Padded(n, w)[i] = DigitByte(n, w + 1 - i)
  BY DEF Padded, DigitByte
<1> QED BY <1>2, <1>3

LEMMA PaddedDigits ==
    ASSUME NEW n \in Int
    PROVE  /\ Padded(n, 2) \in Seq(Byte) /\ Len(Padded(n, 2)) = 2
           /\ Padded(n, 2)[1] = DigitByte(n, 2) /\ Padded(n, 2)[2] = DigitByte(n, 1)
           /\ Padded(n, 3) \in Seq(Byte) /\ Len(Padded(n, 3)) = 3
           /\ Padded(n, 3)[1] = DigitByte(n, 3) /\ Padded(n, 3)[2] = DigitByte(n, 2)
           /\ Padded(n, 3)[3] = DigitByte(n, 1)
           /\ Padded(n, 4) \in Seq(Byte) /\ Len(Padded(n, 4)) = 4
           /\ Padded(n, 4)[1] = DigitByte(n, 4) /\ Padded(n, 4)[2] = DigitByte(n, 3)
           /\ Padded(n, 4)[3] = DigitByte(n, 2) /\ Padded(n, 4)[4] = DigitByte(n, 1)
<1>1. \A w \in 1 .. 4 : /\ Padded(n, w) \in Seq(Byte) /\ Len(Padded(n, w)) = w
                        /\ \A i \in 1 .. w : Padded(n, w)[i] = DigitByte(n, w + 1 - i)
  BY PaddedIs
<1> HIDE DEF DigitByte
<1>2. /\ Padded(n, 2)[1] = DigitByte(n, 2) /\ Padded(n, 2)[2] = DigitByte(n, 1)
      /\ Padded(n, 3)[1] = DigitByte(n, 3) /\ Padded(n, 3)[2] = DigitByte(n, 2)
      /\ Padded(n, 3)[3] = DigitByte(n, 1)
      /\ Padded(n, 4)[1] = DigitByte(n, 4) /\ Padded(n, 4)[2] = DigitByte(n, 3)
      /\ Padded(n, 4)[3] = DigitByte(n, 2) /\ Padded(n, 4)[4] = DigitByte(n, 1)
  BY <1>1
<1> QED BY <1>1, <1>2

LEMMA Weights ==
    Weight[1] = 1 /\ Weight[2] = 10 /\ Weight[3] = 100 /\ Weight[4] = 1000
    /\ Weight[5] = 10000 /\ Weight[6] = 100000 /\ Weight[7] = 1000000 /\ Weight[8] = 10000000
BY SMT DEF Weight

\* The w bytes of s are the digits of n.
Spells(s, n, w) ==
    s \in Seq(Byte) /\ Len(s) = w /\ \A i \in 1 .. w : s[w + 1 - i] = DigitByte(n, i)

LEMMA SpelledWeights ==
    ASSUME NEW s, NEW n \in Nat, NEW w \in 1 .. 8, Spells(s, n, w)
    PROVE  \A i \in 1 .. 8 : Weighted(s, i) = IF i <= w THEN ((n \div Weight[i]) % 10) * Weight[i] ELSE 0
<1> SUFFICES ASSUME NEW i \in 1 .. 8
             PROVE  Weighted(s, i) = IF i <= w THEN ((n \div Weight[i]) % 10) * Weight[i] ELSE 0
  OBVIOUS
<1>1. Weighted(s, i) = IF i <= w THEN (s[w + 1 - i] - Zero) * Weight[i] ELSE 0
  BY DEF Weighted, Spells
<1>2. CASE i <= w
  <2>1. s[w + 1 - i] = Zero + ((n \div Weight[i]) % 10)
    BY <1>2 DEF Spells, DigitByte
  <2>2. (n \div Weight[i]) % 10 \in Int
    BY Weights
  <2>3. s[w + 1 - i] - Zero = (n \div Weight[i]) % 10
    BY <2>1, <2>2 DEF Zero
  <2> QED BY <1>1, <1>2, <2>3
<1> QED BY <1>1, <1>2

\* Four digits.
Tens(n) == (n % 10) + ((n \div 10) % 10) * 10 + ((n \div 100) % 10) * 100 + ((n \div 1000) % 10) * 1000

LEMMA TensOf == ASSUME NEW n \in Nat, n < 10000 PROVE Tens(n) = n
BY SMT DEF Tens

LEMMA LowTens ==
    ASSUME NEW hi \in Nat, NEW lo \in Nat, hi < 10000, lo < 10000, NEW n \in Int, n = 10000 * hi + lo
    PROVE  Tens(n) = Tens(lo)
<1>1. n % 10 = lo % 10
  BY SMT
<1>2. n \div 10 = 1000 * hi + lo \div 10
  BY SMT
<1>3. n \div 100 = 100 * hi + lo \div 100
  BY SMT
<1>4. n \div 1000 = 10 * hi + lo \div 1000
  BY SMT
<1>5. (1000 * hi + lo \div 10) % 10 = (lo \div 10) % 10
  BY SMT
<1>6. (100 * hi + lo \div 100) % 10 = (lo \div 100) % 10
  BY SMT
<1>7. (10 * hi + lo \div 1000) % 10 = (lo \div 1000) % 10
  BY SMT
<1>8. (n \div 10) % 10 = (lo \div 10) % 10 /\ (n \div 100) % 10 = (lo \div 100) % 10
  BY <1>2, <1>3, <1>5, <1>6, SMT
<1>9. (n \div 1000) % 10 = (lo \div 1000) % 10
  BY <1>4, <1>7, SMT
<1> DEFINE n1 == n % 10
           n2 == (n \div 10) % 10
           n3 == (n \div 100) % 10
           n4 == (n \div 1000) % 10
           l1 == lo % 10
           l2 == (lo \div 10) % 10
           l3 == (lo \div 100) % 10
           l4 == (lo \div 1000) % 10
<1>10. n1 = l1 /\ n2 = l2 /\ n3 = l3 /\ n4 = l4
  BY <1>1, <1>8, <1>9, SMT
<1>11. Tens(n) = n1 + n2 * 10 + n3 * 100 + n4 * 1000 /\ Tens(lo) = l1 + l2 * 10 + l3 * 100 + l4 * 1000
  BY SMT DEF Tens
<1> HIDE DEF n1, n2, n3, n4, l1, l2, l3, l4
<1> QED BY <1>10, <1>11, SMT

HighTens(n) ==
    ((n \div 10000) % 10) * 10000 + ((n \div 100000) % 10) * 100000
    + ((n \div 1000000) % 10) * 1000000 + ((n \div 10000000) % 10) * 10000000

LEMMA HighTensOf ==
    ASSUME NEW hi \in Nat, NEW lo \in Nat, hi < 10000, lo < 10000, NEW n \in Int, n = 10000 * hi + lo
    PROVE  HighTens(n) = 10000 * hi
<1>1. n \div 10000 = hi
  BY SMT
<1>2. n \div 100000 = hi \div 10
  <2> DEFINE q == hi \div 10
             k == 10000 * (hi % 10) + lo
  <2>1. n = 100000 * q + k /\ q \in Int /\ k \in Nat /\ k < 100000
    BY SMT
  <2> HIDE DEF q, k
  <2>2. n \div 100000 = q
    BY <2>1, SMT
  <2> QED BY <2>2, SMT DEF q
<1>3. n \div 1000000 = hi \div 100
  <2> DEFINE q == hi \div 100
             k == 10000 * (hi % 100) + lo
  <2>1. n = 1000000 * q + k /\ q \in Int /\ k \in Nat /\ k < 1000000
    BY SMT
  <2> HIDE DEF q, k
  <2>2. n \div 1000000 = q
    BY <2>1, SMT
  <2> QED BY <2>2, SMT DEF q
<1>4. n \div 10000000 = hi \div 1000
  <2> DEFINE q == hi \div 1000
             k == 10000 * (hi % 1000) + lo
  <2>1. n = 10000000 * q + k /\ q \in Int /\ k \in Nat /\ k < 10000000
    BY SMT
  <2> HIDE DEF q, k
  <2>2. n \div 10000000 = q
    BY <2>1, SMT
  <2> QED BY <2>2, SMT DEF q
<1>5. Tens(hi) = hi
  BY TensOf
<1>6. /\ hi % 10 \in Int /\ (hi \div 10) % 10 \in Int
      /\ (hi \div 100) % 10 \in Int /\ (hi \div 1000) % 10 \in Int
  BY SMT
<1> DEFINE a == hi % 10
           b == (hi \div 10) % 10
           c == (hi \div 100) % 10
           d == (hi \div 1000) % 10
<1>7. HighTens(n) = a * 10000 + b * 100000 + c * 1000000 + d * 10000000
  BY <1>1, <1>2, <1>3, <1>4, SMT DEF HighTens
<1>8. a + b * 10 + c * 100 + d * 1000 = hi
  BY <1>5 DEF Tens
<1>9. a \in Int /\ b \in Int /\ c \in Int /\ d \in Int
  BY <1>6
<1> HIDE DEF a, b, c, d
<1> QED BY <1>7, <1>8, <1>9, SMT

LEMMA SpelledNumber ==
    ASSUME NEW s, NEW n \in Nat, NEW w \in 1 .. 8, Spells(s, n, w), n < 10 * Weight[w]
    PROVE  asciiToUint64(s) = n
<1> DEFINE D(i) == IF i <= w THEN ((n \div Weight[i]) % 10) * Weight[i] ELSE 0
<1>0. \A i \in 1 .. 8 : Weighted(s, i) = D(i)
  BY SpelledWeights
<1> HIDE DEF D
<1>1. /\ Weighted(s, 1) = D(1) /\ Weighted(s, 2) = D(2) /\ Weighted(s, 3) = D(3)
      /\ Weighted(s, 4) = D(4) /\ Weighted(s, 5) = D(5) /\ Weighted(s, 6) = D(6)
      /\ Weighted(s, 7) = D(7) /\ Weighted(s, 8) = D(8)
  BY <1>0
<1>2. asciiToUint64(s) = D(1) + D(2) + D(3) + D(4) + D(5) + D(6) + D(7) + D(8)
  BY <1>1, Zenon DEF asciiToUint64
<1>3. D(1) + D(2) + D(3) + D(4) + D(5) + D(6) + D(7) + D(8) = n
  <2>1. CASE w = 1 BY <2>1, Weights, SMT DEF D
  <2>2. CASE w = 2 BY <2>2, Weights, SMT DEF D
  <2>3. CASE w = 3 BY <2>3, Weights, SMT DEF D
  <2>4. CASE w = 4 BY <2>4, Weights, SMT DEF D
  <2>5. CASE w = 5 BY <2>5, Weights, SMT DEF D
  <2>6. CASE w \in 6 .. 8
    <3> DEFINE hi == n \div 10000
               lo == n % 10000
    <3>1. n = 10000 * hi + lo /\ hi \in Nat /\ hi < 10000 /\ lo \in Nat /\ lo < 10000
      BY <2>6, Weights, SMT
    <3> HIDE DEF hi, lo
    <3>2. D(1) + D(2) + D(3) + D(4) = Tens(n)
      <4>1. /\ D(1) = ((n \div 1) % 10) * 1 /\ D(2) = ((n \div 10) % 10) * 10
            /\ D(3) = ((n \div 100) % 10) * 100 /\ D(4) = ((n \div 1000) % 10) * 1000
        BY <2>6, Weights, SMT DEF D
      <4>2. (n \div 1) % 10 = n % 10 /\ n % 10 \in Int
        BY SMT
      <4> QED BY <4>1, <4>2, SMT DEF Tens
    <3>3. Tens(n) = lo
      BY <3>1, LowTens, TensOf
    <3>4. D(5) + D(6) + D(7) + D(8) = HighTens(n)
      <4>1. /\ D(5) = ((n \div 10000) % 10) * 10000 /\ D(6) = ((n \div 100000) % 10) * 100000
            /\ w >= 7 => D(7) = ((n \div 1000000) % 10) * 1000000
            /\ w >= 8 => D(8) = ((n \div 10000000) % 10) * 10000000
        BY <2>6, Weights, SMT DEF D
      <4>2. w < 8 => D(8) = 0 /\ ((n \div 10000000) % 10) * 10000000 = 0
        BY <2>6, Weights, SMT DEF D
      <4>3. w < 7 => D(7) = 0 /\ ((n \div 1000000) % 10) * 1000000 = 0
        BY <2>6, Weights, SMT DEF D
      <4> QED BY <4>1, <4>2, <4>3, <2>6, SMT DEF HighTens
    <3>5. HighTens(n) = 10000 * hi
      BY <3>1, HighTensOf
    <3>6. \A i \in 1 .. 8 : D(i) \in Int
      BY Weights DEF D
    <3> QED BY <3>1, <3>2, <3>3, <3>4, <3>5, <3>6, SMT
  <2> QED BY <2>1, <2>2, <2>3, <2>4, <2>5, <2>6
<1> QED BY <1>2, <1>3

-----------------------------------------------------------------------------
(***************************************************************************)
(* Digits loaded at once.                                                  *)
(***************************************************************************)
LEMMA LanesType ==
    ASSUME NEW word, \A i \in 1 .. 8 : word[i] \in Byte
    PROVE  \A i \in 1 .. 8 : Lanes(word)[i] \in 0 .. 255
<1> TAKE i \in 1 .. 8
<1>1. word[i] \in Int
  BY DEF Byte
<1>2. ASSUME NEW borrow \in Int PROVE (word[i] - Zero - borrow) % 256 \in 0 .. 255
  BY <1>1 DEF Zero
<1>3. Lanes(word)[i] = (word[i] - Zero - IF Borrows(word, i) THEN 1 ELSE 0) % 256
  BY DEF Lanes
<1> QED BY <1>2, <1>3

\* A text of n bytes.
IsText(s, n) == s \in Seq(Byte) /\ Len(s) = n

LEMMA WordType ==
    ASSUME NEW s, NEW n \in 0 .. 8, IsText(s, n)
    PROVE  \A i \in 1 .. 8 :
               /\ (Zeros(8 - n) \o s)[i] \in Byte
               /\ (Zeros(8 - n) \o s)[i] = IF i <= 8 - n THEN Zero ELSE s[i - (8 - n)]
<1> DEFINE z    == Zeros(8 - n)
           word == z \o s
<1>1. z \in Seq(Byte) /\ Len(z) = 8 - n /\ \A i \in 1 .. 8 - n : z[i] = Zero
  <2>1. 8 - n \in Nat /\ Zero \in Byte BY DEF Zero, Byte
  <2> QED BY <2>1 DEF Zeros
<1> HIDE DEF z
<1>2. \A i \in 1 .. 8 : word[i] = IF i <= 8 - n THEN Zero ELSE s[i - (8 - n)]
  BY <1>1 DEF IsText
<1>3. \A i \in 1 .. n : s[i] \in Byte
  BY DEF IsText
<1> HIDE DEF word
<1>4. \A i \in 1 .. 8 : word[i] \in Byte
  <2> TAKE i \in 1 .. 8
  <2>1. CASE i <= 8 - n
    <3>1. word[i] = Zero
      BY <1>2, <2>1
    <3> QED BY <3>1 DEF Byte, Zero
  <2>2. CASE i > 8 - n
    <3>1. i - (8 - n) \in 1 .. n /\ word[i] = s[i - (8 - n)]
      BY <1>2, <2>2
    <3> QED BY <1>3, <3>1
  <2> QED BY <2>1, <2>2
<1> QED BY <1>2, <1>4 DEF word, z

\* The pairs of lanes, and their sum, as in SwarNumber.
Pairs(lanes) == [i \in 1 .. 7 |-> 10 * lanes[i] + lanes[i + 1]]
Carried(ten) ==
    LET sum2 == ten[2] + ten[1] \div 256
        sum3 == ten[3] + sum2 \div 256
        sum4 == ten[4] + sum3 \div 256
        sum5 == ten[5] + sum4 \div 256
        sum6 == ten[6] + sum5 \div 256
        sum7 == ten[7] + sum6 \div 256
    IN  1000000 * (ten[1] % 256) + 10000 * (sum3 % 256) + 100 * (sum5 % 256) + (sum7 % 256)

LEMMA SwarCarries ==
    ASSUME NEW s, NEW lanes, lanes = Lanes(Zeros(8 - Len(s)) \o s)
    PROVE  SwarNumber(s) = Carried(Pairs(lanes))
<1> DEFINE ten == [i \in 1 .. 7 |-> 10 * lanes[i] + lanes[i + 1]]
<1>1. SwarNumber(s) = Carried(ten)
  <2> HIDE DEF ten
  <2> QED BY DEF SwarNumber, Carried, ten
<1> QED BY <1>1 DEF Pairs

LEMMA AddedType ==
    ASSUME NEW t \in Nat, NEW sum \in Nat
    PROVE  t + sum \div 256 \in Nat /\ sum % 256 \in Nat
OBVIOUS

LEMMA CarriedType ==
    ASSUME NEW ten, \A i \in 1 .. 7 : ten[i] \in Nat
    PROVE  Carried(ten) \in Nat
<1> DEFINE sum1 == ten[1]
           sum2 == ten[2] + sum1 \div 256
           sum3 == ten[3] + sum2 \div 256
           sum4 == ten[4] + sum3 \div 256
           sum5 == ten[5] + sum4 \div 256
           sum6 == ten[6] + sum5 \div 256
           sum7 == ten[7] + sum6 \div 256
           m1 == sum1 % 256
           m3 == sum3 % 256
           m5 == sum5 % 256
           m7 == sum7 % 256
<1>1. Carried(ten) = 1000000 * m1 + 10000 * m3 + 100 * m5 + m7
  BY DEF Carried
<1>2. /\ ten[1] \in Nat /\ ten[2] \in Nat /\ ten[3] \in Nat /\ ten[4] \in Nat
      /\ ten[5] \in Nat /\ ten[6] \in Nat /\ ten[7] \in Nat
  OBVIOUS
<1>3. sum1 \in Nat
  BY <1>2
<1> HIDE DEF sum1
<1>4. sum2 \in Nat
  BY <1>2, <1>3, AddedType
<1> HIDE DEF sum2
<1>5. sum3 \in Nat
  BY <1>2, <1>4, AddedType
<1> HIDE DEF sum3
<1>6. sum4 \in Nat
  BY <1>2, <1>5, AddedType
<1> HIDE DEF sum4
<1>7. sum5 \in Nat
  BY <1>2, <1>6, AddedType
<1> HIDE DEF sum5
<1>8. sum6 \in Nat
  BY <1>2, <1>7, AddedType
<1> HIDE DEF sum6
<1>9. sum7 \in Nat
  BY <1>2, <1>8, AddedType
<1> HIDE DEF sum7
<1>10. m1 \in Nat /\ m3 \in Nat /\ m5 \in Nat /\ m7 \in Nat
  BY <1>3, <1>5, <1>7, <1>9, AddedType
<1> HIDE DEF m1, m3, m5, m7
<1>11. 1000000 * m1 + 10000 * m3 + 100 * m5 + m7 \in Nat
  BY <1>10
<1> QED BY <1>1, <1>11

LEMMA NothingCarried ==
    ASSUME NEW ten, \A i \in 1 .. 7 : ten[i] \in 0 .. 99
    PROVE  Carried(ten) = 1000000 * ten[1] + 10000 * ten[3] + 100 * ten[5] + ten[7]
<1>1. ASSUME NEW t \in 0 .. 99, NEW sum \in 0 .. 99 PROVE t + sum \div 256 = t /\ sum % 256 = sum
  OBVIOUS
<1>2. /\ ten[1] \in 0 .. 99 /\ ten[2] \in 0 .. 99 /\ ten[3] \in 0 .. 99 /\ ten[4] \in 0 .. 99
      /\ ten[5] \in 0 .. 99 /\ ten[6] \in 0 .. 99 /\ ten[7] \in 0 .. 99
  OBVIOUS
<1>3. ten[2] + ten[1] \div 256 = ten[2] /\ ten[3] + ten[2] \div 256 = ten[3]
  BY <1>1, <1>2
<1>4. ten[4] + ten[3] \div 256 = ten[4] /\ ten[5] + ten[4] \div 256 = ten[5]
  BY <1>1, <1>2
<1>5. ten[6] + ten[5] \div 256 = ten[6] /\ ten[7] + ten[6] \div 256 = ten[7]
  BY <1>1, <1>2
<1>6. ten[1] % 256 = ten[1] /\ ten[3] % 256 = ten[3] /\ ten[5] % 256 = ten[5]
      /\ ten[7] % 256 = ten[7]
  BY <1>1, <1>2
<1> QED BY <1>3, <1>4, <1>5, <1>6 DEF Carried

LEMMA SwarType ==
    ASSUME NEW s, NEW n \in 0 .. 8, IsText(s, n)
    PROVE  SwarNumber(s) \in Nat
<1> DEFINE lanes == Lanes(Zeros(8 - n) \o s)
<1>1. \A i \in 1 .. 8 : lanes[i] \in 0 .. 255
  <2>1. \A i \in 1 .. 8 : (Zeros(8 - n) \o s)[i] \in Byte
    BY WordType
  <2> QED BY <2>1, LanesType, Zenon
<1>2. lanes = Lanes(Zeros(8 - Len(s)) \o s)
  BY DEF IsText
<1> HIDE DEF lanes
<1>3. \A i \in 1 .. 8 : lanes[i] \in Nat
  <2>1. \A x \in 0 .. 255 : x \in Nat
    OBVIOUS
  <2> QED BY <1>1, <2>1, Zenon
<1>4. ASSUME NEW i \in 1 .. 7 PROVE Pairs(lanes)[i] \in Nat
  <2>1. Pairs(lanes)[i] = 10 * lanes[i] + lanes[i + 1]
    BY DEF Pairs
  <2>2. lanes[i] \in Nat /\ lanes[i + 1] \in Nat
    <3>1. i \in 1 .. 8 /\ i + 1 \in 1 .. 8
      OBVIOUS
    <3> QED BY <1>3, <3>1, Zenon
  <2> QED BY <2>1, <2>2
<1>5. SwarNumber(s) = Carried(Pairs(lanes))
  BY <1>2, SwarCarries
<1>6. Carried(Pairs(lanes)) \in Nat
  BY <1>4, CarriedType, Zenon
<1> QED BY <1>5, <1>6

\* Digits borrow nothing and carry nothing.
LEMMA LanesOfDigits ==
    ASSUME NEW word, NEW digits, \A i \in 1 .. 8 : digits[i] \in 0 .. 9 /\ word[i] = Zero + digits[i]
    PROVE  \A i \in 1 .. 8 : Lanes(word)[i] = digits[i]
<1>1. \A i \in 1 .. 8 : ~Borrows(word, i)
  <2> TAKE i \in 1 .. 8
  <2>1. SUFFICES ASSUME NEW j \in 1 .. i - 1, word[j] < Zero PROVE FALSE
    BY DEF Borrows
  <2>2. j \in 1 .. 8
    OBVIOUS
  <2> QED BY <2>1, <2>2 DEF Zero
<1>2. \A i \in 1 .. 8 : Lanes(word)[i] = (word[i] - Zero - 0) % 256
  BY <1>1 DEF Lanes
<1> TAKE i \in 1 .. 8
<1>3. Lanes(word)[i] = (word[i] - Zero - 0) % 256
  BY <1>2
<1> DEFINE d == digits[i]
           b == word[i]
<1>4. d \in 0 .. 9 /\ b = Zero + d
  OBVIOUS
<1> HIDE DEF d, b
<1>5. (b - Zero - 0) % 256 = d
  BY <1>4 DEF Zero
<1> QED BY <1>3, <1>5 DEF b, d

\* So up to eight digits are the same number whether they are loaded at once or taken
\* one by one.
LEMMA SwarOfDigits ==
    ASSUME NEW s, NEW n \in 0 .. 8, IsText(s, n),
           \A i \in 1 .. n : IsDigitByte(s[i])
    PROVE  SwarNumber(s) = asciiToUint64(s)
<1> DEFINE word   == Zeros(8 - n) \o s
           digits == [i \in 1 .. 8 |-> IF i <= 8 - n THEN 0 ELSE s[i - (8 - n)] - Zero]
           lanes  == Lanes(word)
<1>1. \A i \in 1 .. 8 : word[i] = IF i <= 8 - n THEN Zero ELSE s[i - (8 - n)]
  BY WordType
<1>2. lanes = Lanes(Zeros(8 - Len(s)) \o s)
  BY DEF IsText
<1> HIDE DEF word
<1>3. ASSUME NEW i \in 1 .. 8 PROVE digits[i] \in 0 .. 9 /\ word[i] = Zero + digits[i]
  <2>1. CASE i <= 8 - n
    BY <1>1, <2>1 DEF Zero
  <2>2. CASE i > 8 - n
    <3>1. IsDigitByte(s[i - (8 - n)])
      BY <2>2
    <3>2. word[i] = s[i - (8 - n)] /\ digits[i] = s[i - (8 - n)] - Zero
      BY <1>1, <2>2
    <3> HIDE DEF digits
    <3> QED BY <3>1, <3>2 DEF IsDigitByte, Zero
  <2> QED BY <2>1, <2>2
<1>4. \A i \in 1 .. 8 : lanes[i] = digits[i]
  <2> HIDE DEF digits
  <2> QED BY <1>3, LanesOfDigits
<1>5. \A i \in 1 .. 8 : Weighted(s, i) = digits[9 - i] * Weight[i]
  <2> TAKE i \in 1 .. 8
  <2>1. Weight[i] \in Nat
    BY DEF Weight
  <2>2. digits[9 - i] = IF i > n THEN 0 ELSE s[n + 1 - i] - Zero
    <3>1. 9 - i \in 1 .. 8 /\ (9 - i <= 8 - n <=> i > n) /\ (9 - i) - (8 - n) = n + 1 - i
      OBVIOUS
    <3> QED BY <3>1
  <2> HIDE DEF digits
  <2>3. Weighted(s, i) = IF i <= n THEN (s[n + 1 - i] - Zero) * Weight[i] ELSE 0
    BY Zenon DEF Weighted, IsText
  <2>4. CASE i > n
    BY <2>1, <2>2, <2>3, <2>4
  <2>5. CASE i <= n
    BY <2>2, <2>3, <2>5
  <2> QED BY <2>4, <2>5
<1> HIDE DEF lanes, digits
<1>6. \A i \in 1 .. 8 : lanes[i] \in 0 .. 9
  BY <1>3, <1>4, Zenon
<1>7. ASSUME NEW i \in 1 .. 7 PROVE Pairs(lanes)[i] \in 0 .. 99
  <2>1. Pairs(lanes)[i] = 10 * lanes[i] + lanes[i + 1]
    BY DEF Pairs
  <2>2. lanes[i] \in 0 .. 9 /\ lanes[i + 1] \in 0 .. 9
    <3>1. i \in 1 .. 8 /\ i + 1 \in 1 .. 8
      OBVIOUS
    <3> QED BY <1>6, <3>1, Zenon
  <2> DEFINE a == lanes[i]
             b == lanes[i + 1]
  <2> HIDE DEF a, b
  <2>3. a \in 0 .. 9 /\ b \in 0 .. 9 => 10 * a + b \in 0 .. 99
    OBVIOUS
  <2> QED BY <2>1, <2>2, <2>3, Zenon DEF a, b
<1>8. SwarNumber(s) = Carried(Pairs(lanes))
  BY <1>2, SwarCarries
<1> DEFINE ten == Pairs(lanes)
<1>9. /\ ten[1] = 10 * lanes[1] + lanes[2] /\ ten[3] = 10 * lanes[3] + lanes[4]
      /\ ten[5] = 10 * lanes[5] + lanes[6] /\ ten[7] = 10 * lanes[7] + lanes[8]
  BY DEF Pairs
<1>10. SwarNumber(s) = 1000000 * ten[1] + 10000 * ten[3] + 100 * ten[5] + ten[7]
  <2> \A i \in 1 .. 7 : ten[i] \in 0 .. 99
    BY <1>7
  <2> HIDE DEF ten
  <2>1. Carried(ten) = 1000000 * ten[1] + 10000 * ten[3] + 100 * ten[5] + ten[7]
    BY NothingCarried
  <2>2. SwarNumber(s) = Carried(ten)
    BY <1>8 DEF ten
  <2> QED BY <2>1, <2>2
<1> HIDE DEF ten
<1>11. /\ Weighted(s, 1) = lanes[8] * Weight[1] /\ Weighted(s, 2) = lanes[7] * Weight[2]
       /\ Weighted(s, 3) = lanes[6] * Weight[3] /\ Weighted(s, 4) = lanes[5] * Weight[4]
       /\ Weighted(s, 5) = lanes[4] * Weight[5] /\ Weighted(s, 6) = lanes[3] * Weight[6]
       /\ Weighted(s, 7) = lanes[2] * Weight[7] /\ Weighted(s, 8) = lanes[1] * Weight[8]
  BY <1>4, <1>5
<1>12. /\ Weight[1] = 1 /\ Weight[2] = 10 /\ Weight[3] = 100 /\ Weight[4] = 1000
       /\ Weight[5] = 10000 /\ Weight[6] = 100000 /\ Weight[7] = 1000000
       /\ Weight[8] = 10000000
  BY DEF Weight
<1>13. asciiToUint64(s) = lanes[8] * 1 + lanes[7] * 10 + lanes[6] * 100 + lanes[5] * 1000
         + lanes[4] * 10000 + lanes[3] * 100000 + lanes[2] * 1000000 + lanes[1] * 10000000
  BY <1>11, <1>12 DEF asciiToUint64
<1> DEFINE a == lanes[1]
           b == lanes[2]
           c == lanes[3]
           d == lanes[4]
           e == lanes[5]
           f == lanes[6]
           g == lanes[7]
           h == lanes[8]
<1>14. /\ a \in Int /\ b \in Int /\ c \in Int /\ d \in Int
       /\ e \in Int /\ f \in Int /\ g \in Int /\ h \in Int
  BY <1>6
<1>15. /\ asciiToUint64(s) = h * 1 + g * 10 + f * 100 + e * 1000 + d * 10000 + c * 100000
                             + b * 1000000 + a * 10000000
       /\ SwarNumber(s) = 1000000 * (10 * a + b) + 10000 * (10 * c + d) + 100 * (10 * e + f)
                          + (10 * g + h)
  BY <1>9, <1>10, <1>13
<1> HIDE DEF a, b, c, d, e, f, g, h
<1> QED BY <1>14, <1>15

\* A slice of a text is its bytes, one by one.
LEMMA TextSlice ==
    ASSUME NEW p \in Seq(Byte), NEW a \in Nat, NEW w \in Nat, a + w <= Len(p)
    PROVE  /\ SubSeq(p, a + 1, a + w) \in Seq(Byte) /\ Len(SubSeq(p, a + 1, a + w)) = w
           /\ \A i \in 1 .. w : SubSeq(p, a + 1, a + w)[i] = p[a + i]
<1>1. a + 1 \in 1 .. Len(p) + 1 /\ a + w \in a .. Len(p) /\ Len(p) \in Nat
  OBVIOUS
<1> DEFINE s == SubSeq(p, a + 1, a + w)
<1>2. /\ s \in Seq(Byte)
      /\ Len(s) = (IF a + 1 <= a + w THEN (a + w) - (a + 1) + 1 ELSE 0)
      /\ \A i \in 1 .. (a + w) - (a + 1) + 1 : s[i] = p[(a + 1) + i - 1]
  BY <1>1, SubSeqProperties
<1> HIDE DEF s
<1>3. (a + w) - (a + 1) + 1 = w /\ (w = 0 => ~ (a + 1 <= a + w)) /\ (w # 0 => a + 1 <= a + w)
  OBVIOUS
<1>4. Len(s) = w
  BY <1>2, <1>3
<1>5. \A i \in 1 .. w : s[i] = p[a + i]
  <2>1. ASSUME NEW i \in 1 .. w PROVE s[i] = p[a + i]
    <3>1. (a + 1) + i - 1 = a + i
      OBVIOUS
    <3> QED BY <1>2, <1>3, <3>1
  <2> QED BY <2>1
<1> QED BY <1>2, <1>4, <1>5 DEF s


\* The first n bytes of a text.
LEMMA CutText ==
    ASSUME NEW t \in Seq(Byte), NEW n \in 0 .. Len(t)
    PROVE  /\ SubSeq(t, 1, n) \in Seq(Byte) /\ Len(SubSeq(t, 1, n)) = n
           /\ \A i \in 1 .. n : SubSeq(t, 1, n)[i] = t[i]
<1>1. 0 \in Nat /\ n \in Nat /\ 0 + n <= Len(t) /\ 0 + 1 = 1 /\ 0 + n = n /\ \A i \in 1 .. n : 0 + i = i
  OBVIOUS
<1>2. /\ SubSeq(t, 0 + 1, 0 + n) \in Seq(Byte) /\ Len(SubSeq(t, 0 + 1, 0 + n)) = n
      /\ \A i \in 1 .. n : SubSeq(t, 0 + 1, 0 + n)[i] = t[0 + i]
  BY <1>1, TextSlice, Zenon
<1> QED BY <1>1, <1>2, Zenon
=============================================================================
