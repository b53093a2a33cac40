---------------------------- MODULE SchemaProofs ----------------------------
(***************************************************************************)
(* Proofs about the generator's data model, for every pair of              *)
(* specifications.                                                         *)
(***************************************************************************)
EXTENDS Schema, WireProofs

-----------------------------------------------------------------------------
(***************************************************************************)
(* Joined sequences.                                                       *)
(***************************************************************************)
LEMMA RangeJoined ==
    ASSUME NEW S, NEW s \in Seq(S), NEW t \in Seq(S)
    PROVE  s \o t \in Seq(S) /\ Range(s \o t) = Range(s) \union Range(t)
<1>1. s \o t \in Seq(S) /\ Len(s \o t) = Len(s) + Len(t) /\ Len(s) \in Nat /\ Len(t) \in Nat
  OBVIOUS
<1>2. ASSUME NEW i \in 1 .. Len(s) + Len(t)
      PROVE  (s \o t)[i] = IF i <= Len(s) THEN s[i] ELSE t[i - Len(s)]
  OBVIOUS
<1>3. ASSUME NEW x \in Range(s \o t) PROVE x \in Range(s) \union Range(t)
  <2>1. PICK i \in 1 .. Len(s) + Len(t) : x = (s \o t)[i]
    BY <1>1 DEF Range
  <2>2. CASE i <= Len(s)
    <3>1. i \in DOMAIN s /\ x = s[i]
      BY <1>1, <1>2, <2>1, <2>2
    <3> QED BY <3>1 DEF Range
  <2>3. CASE ~ (i <= Len(s))
    <3>1. i - Len(s) \in DOMAIN t /\ x = t[i - Len(s)]
      BY <1>1, <1>2, <2>1, <2>3
    <3> QED BY <3>1 DEF Range
  <2> QED BY <2>2, <2>3
<1>4. ASSUME NEW x \in Range(s) PROVE x \in Range(s \o t)
  <2>1. PICK i \in 1 .. Len(s) : x = s[i]
    BY DEF Range
  <2>2. i \in DOMAIN (s \o t) /\ (s \o t)[i] = x
    BY <1>1, <1>2, <2>1
  <2> QED BY <2>2 DEF Range
<1>5. ASSUME NEW x \in Range(t) PROVE x \in Range(s \o t)
  <2>1. PICK i \in 1 .. Len(t) : x = t[i]
    BY DEF Range
  <2>2. i + Len(s) \in DOMAIN (s \o t) /\ (s \o t)[i + Len(s)] = x
    <3>1. i + Len(s) \in 1 .. Len(s) + Len(t) /\ ~ (i + Len(s) <= Len(s)) /\ (i + Len(s)) - Len(s) = i
      BY <1>1
    <3> QED BY <1>1, <1>2, <2>1, <3>1
  <2> QED BY <2>2 DEF Range
<1> QED BY <1>1, <1>3, <1>4, <1>5

LEMMA SequenceIs ==
    ASSUME NEW S, NEW n \in Nat, NEW f \in [1 .. n -> S]
    PROVE  f \in Seq(S) /\ Len(f) = n
OBVIOUS

LEMMA PrefixIs ==
    ASSUME NEW S, NEW s \in Seq(S), NEW k \in 1 .. Len(s)
    PROVE  /\ SubSeq(s, 1, k) = Append(SubSeq(s, 1, k - 1), s[k])
           /\ SubSeq(s, 1, k - 1) \in Seq(S) /\ SubSeq(s, 1, k) \in Seq(S)
           /\ s[k] \in S
OBVIOUS

LEMMA SequenceParts ==
    ASSUME NEW S, NEW s \in Seq(S)
    PROVE  DOMAIN s = 1 .. Len(s) /\ Len(s) \in Nat /\ \A i \in DOMAIN s : s[i] \in S
OBVIOUS

LEMMA WholeSequence ==
    ASSUME NEW S, NEW s \in Seq(S)
    PROVE  SubSeq(s, 1, Len(s)) = s /\ SubSeq(s, 1, 0) = <<>> /\ Len(s) \in Nat /\ DOMAIN s = 1 .. Len(s)
OBVIOUS

\* A joined sequence holds what its parts hold.
LEMMA RangeFlattened ==
    ASSUME NEW S, NEW ss \in Seq(Seq(S))
    PROVE  /\ FlattenSeq(ss) \in Seq(S)
           /\ \A x : x \in Range(FlattenSeq(ss)) <=> \E i \in DOMAIN ss : x \in Range(ss[i])
<1> DEFINE part(k) == SubSeq(ss, 1, k)
           Good(k) == \A x : x \in Range(FlattenSeq(part(k))) <=> \E i \in 1 .. k : x \in Range(ss[i])
           Bad     == {k \in 0 .. Len(ss) : ~ Good(k)}
<1>1. /\ part(Len(ss)) = ss /\ part(0) = <<>> /\ Len(ss) \in Nat /\ DOMAIN ss = 1 .. Len(ss)
  BY WholeSequence
<1>2. Bad = {}
  <2>1. SUFFICES ASSUME Bad # {} PROVE FALSE
    OBVIOUS
  <2>2. PICK m \in Bad : \A k \in Bad : m <= k
    <3>1. Bad \in SUBSET Nat
      OBVIOUS
    <3> HIDE DEF Bad
    <3> QED BY <2>1, <3>1, LeastOfNat
  <2>3. m \in 0 .. Len(ss) /\ ~ Good(m)
    BY <2>2
  <2>4. CASE m = 0
    <3>1. Range(FlattenSeq(part(0))) = {}
      <4>1. Range(<<>>) = {}
        BY DEF Range
      <4> HIDE DEF part
      <4> QED BY <1>1, <4>1, FlattenNone
    <3>2. 1 .. 0 = {}
      OBVIOUS
    <3> QED BY <2>3, <2>4, <3>1, <3>2
  <2>5. CASE m # 0
    <3>1. m \in 1 .. Len(ss) /\ m - 1 \in 0 .. Len(ss)
      BY <1>1, <2>3, <2>5
    <3>2. Good(m - 1)
      <4>1. m - 1 \notin Bad
        <5> HIDE DEF Bad
        <5> QED BY <2>2, <3>1
      <4> HIDE DEF Good
      <4> QED BY <3>1, <4>1
    <3>3. part(m) = Append(part(m - 1), ss[m]) /\ part(m - 1) \in Seq(Seq(S)) /\ ss[m] \in Seq(S)
      BY <3>1, PrefixIs
    <3>4. FlattenSeq(part(m)) = FlattenSeq(part(m - 1)) \o ss[m] /\ FlattenSeq(part(m - 1)) \in Seq(S)
      <4> HIDE DEF part
      <4> QED BY <3>3, FlattenAppend
    <3>5. Range(FlattenSeq(part(m))) = Range(FlattenSeq(part(m - 1))) \union Range(ss[m])
      <4> DEFINE a == FlattenSeq(part(m - 1))
                 b == ss[m]
      <4>1. a \in Seq(S) /\ b \in Seq(S) /\ FlattenSeq(part(m)) = a \o b
        BY <3>3, <3>4
      <4> HIDE DEF part, a, b
      <4>2. Range(a \o b) = Range(a) \union Range(b)
        BY <4>1, RangeJoined
      <4> QED BY <4>1, <4>2 DEF a, b
    <3>6. 1 .. m = 1 .. m - 1 \union {m}
      BY <3>1
    <3> HIDE DEF part
    <3>7. Good(m)
      BY <3>2, <3>5, <3>6
    <3> QED BY <2>3, <3>7
  <2> QED BY <2>4, <2>5
<1>3. Good(Len(ss))
  <2>1. Len(ss) \in 0 .. Len(ss)
    BY <1>1
  <2> HIDE DEF Good
  <2> QED BY <1>2, <2>1
<1>4. FlattenSeq(ss) \in Seq(S)
  <2>1. <<>> \in Seq(S)
    OBVIOUS
  <2> QED BY <2>1, FlattenAppend
<1> HIDE DEF part
<1> QED BY <1>1, <1>3, <1>4

LEMMA AscendingIs ==
    ASSUME NEW n \in Nat, NEW S
    PROVE  /\ Ascending(n, S) \in Seq(1 .. n)
           /\ \A x : x \in Range(Ascending(n, S)) <=> x \in S /\ x \in 1 .. n
<1> DEFINE ss == [i \in 1 .. n |-> IF i \in S THEN <<i>> ELSE <<>>]
<1>1. ASSUME NEW i \in 1 .. n PROVE ss[i] \in Seq(1 .. n)
  <2>1. <<i>> \in Seq(1 .. n) /\ <<>> \in Seq(1 .. n)
    OBVIOUS
  <2>2. ss[i] = IF i \in S THEN <<i>> ELSE <<>>
    OBVIOUS
  <2> HIDE DEF ss
  <2> QED BY <2>1, <2>2
<1>2. ss \in Seq(Seq(1 .. n)) /\ Len(ss) = n
  <2>1. ss \in [1 .. n -> Seq(1 .. n)]
    BY <1>1
  <2> HIDE DEF ss
  <2> QED BY <2>1, SequenceIs
<1>3. DOMAIN ss = 1 .. n
  OBVIOUS
<1>4. \A x : \A i \in 1 .. n : x \in Range(ss[i]) <=> i \in S /\ x = i
  BY DEF Range
<1>5. /\ FlattenSeq(ss) \in Seq(1 .. n)
      /\ \A x : x \in Range(FlattenSeq(ss)) <=> \E i \in DOMAIN ss : x \in Range(ss[i])
  <2> HIDE DEF ss
  <2> QED BY <1>2, RangeFlattened
<1>6. FlattenSeq(ss) = Ascending(n, S)
  BY DEF Ascending
<1> HIDE DEF ss
<1> QED BY <1>3, <1>4, <1>5, <1>6

-----------------------------------------------------------------------------
(***************************************************************************)
(* The order of the record nodes.                                          *)
(***************************************************************************)
IsFile(spec) == spec \in Specification /\ GroupNodesIn(spec.records)

Count(spec) == Len(spec.records)

LEMMA RecordsAre ==
    ASSUME NEW spec, IsFile(spec)
    PROVE  /\ Count(spec) \in Nat /\ DOMAIN spec.records = 1 .. Count(spec)
           /\ \A i \in 1 .. Count(spec) :
                 spec.records[i] \in [kind : {"component", "group", "message"}, name : STRING,
                                      in : Nat, children : Seq(Child)]
<1> DEFINE R == [kind : {"component", "group", "message"}, name : STRING, in : Nat,
                 children : Seq(Child)]
<1>1. spec.records \in Seq(R)
  BY DEF IsFile, Specification
<1> HIDE DEF R
<1>2. Len(spec.records) \in Nat /\ DOMAIN spec.records = 1 .. Len(spec.records)
      /\ \A i \in 1 .. Len(spec.records) : spec.records[i] \in R
  BY <1>1
<1> QED BY <1>2 DEF Count, R

LEMMA SelectedAre ==
    ASSUME NEW spec, IsFile(spec), NEW kind
    PROVE  /\ Selected(spec, kind) \in Seq(1 .. Count(spec))
           /\ \A i \in 1 .. Count(spec) :
                 spec.records[i].kind = kind => i \in Range(Selected(spec, kind))
<1> DEFINE S == {i \in DOMAIN spec.records : spec.records[i].kind = kind}
<1>1. Count(spec) \in Nat /\ DOMAIN spec.records = 1 .. Count(spec)
  BY RecordsAre
<1>2. Selected(spec, kind) = Ascending(Count(spec), S)
  BY DEF Selected, Count
<1>3. /\ Ascending(Count(spec), S) \in Seq(1 .. Count(spec))
      /\ \A x : x \in Range(Ascending(Count(spec), S)) <=> x \in S /\ x \in 1 .. Count(spec)
  <2> HIDE DEF S
  <2> QED BY <1>1, AscendingIs
<1> QED BY <1>1, <1>2, <1>3

LEMMA GroupsInAre ==
    ASSUME NEW spec, IsFile(spec), NEW i \in Nat
    PROVE  /\ GroupsIn(spec, i) \in Seq(1 .. Count(spec))
           /\ \A j : j \in Range(GroupsIn(spec, i))
                 <=> /\ j \in 1 .. Count(spec) /\ spec.records[j].in = i
                     /\ spec.records[j].kind = "group"
           /\ \A k \in DOMAIN GroupsIn(spec, i) : GroupsIn(spec, i)[k] \in i + 1 .. Count(spec)
<1> DEFINE S == {j \in DOMAIN spec.records :
                    spec.records[j].in = i /\ spec.records[j].kind = "group"}
<1>1. Count(spec) \in Nat /\ DOMAIN spec.records = 1 .. Count(spec)
  BY RecordsAre
<1>2. GroupsIn(spec, i) = Ascending(Count(spec), S)
  BY DEF GroupsIn, Count
<1>3. /\ Ascending(Count(spec), S) \in Seq(1 .. Count(spec))
      /\ \A x : x \in Range(Ascending(Count(spec), S)) <=> x \in S /\ x \in 1 .. Count(spec)
  <2> HIDE DEF S
  <2> QED BY <1>1, AscendingIs
<1>4. \A j : j \in Range(GroupsIn(spec, i))
          <=> /\ j \in 1 .. Count(spec) /\ spec.records[j].in = i
              /\ spec.records[j].kind = "group"
  BY <1>1, <1>2, <1>3
<1>5. ASSUME NEW k \in DOMAIN GroupsIn(spec, i)
      PROVE  GroupsIn(spec, i)[k] \in i + 1 .. Count(spec)
  <2> DEFINE j == GroupsIn(spec, i)[k]
  <2>1. j \in Range(GroupsIn(spec, i))
    BY <1>5 DEF Range
  <2> HIDE DEF j
  <2>2. j \in 1 .. Count(spec) /\ spec.records[j].in = i
    BY <1>4, <2>1
  <2>3. spec.records[j].in < j
    BY <1>1, <2>2 DEF IsFile, GroupNodesIn
  <2>4. j \in i + 1 .. Count(spec)
    BY <1>1, <2>2, <2>3
  <2> QED BY <2>4 DEF j
<1> QED BY <1>2, <1>3, <1>4, <1>5

GroupOrder(order, spec, i) ==
    FlattenSeq([k \in DOMAIN GroupsIn(spec, i) |-> order[GroupsIn(spec, i)[k]]]) \o <<i>>
AreOrders(order, spec, first) ==
    order = [i \in first .. Count(spec) |-> GroupOrder(order, spec, i)]

\* Groups stand behind the record they are in, so that their order is known before its
\* own: from the last record to the first.
LEMMA OrdersExist ==
    ASSUME NEW spec, IsFile(spec)
    PROVE  \E order : AreOrders(order, spec, 1)
<1> DEFINE n   == Count(spec)
           Bad == {m \in 0 .. n : ~ \E order : AreOrders(order, spec, n + 1 - m)}
<1>1. n \in Nat
  BY RecordsAre
<1>2. SUFFICES ASSUME Bad # {} PROVE FALSE
  <2>1. n \in 0 .. n /\ n + 1 - n = 1
    BY <1>1
  <2> QED BY <1>2, <2>1
<1>3. PICK m \in Bad : \A k \in Bad : m <= k
  <2>1. Bad \in SUBSET Nat
    OBVIOUS
  <2> HIDE DEF Bad
  <2> QED BY <1>2, <2>1, LeastOfNat
<1>4. m \in 0 .. n /\ ~ \E order : AreOrders(order, spec, n + 1 - m)
  BY <1>3
<1>5. CASE m = 0
  <2> DEFINE none == [i \in n + 1 - m .. n |-> 0]
  <2>1. n + 1 - m .. n = {}
    BY <1>1, <1>5
  <2>2. none = [i \in n + 1 - m .. n |-> GroupOrder(none, spec, i)]
    BY <2>1
  <2> HIDE DEF none
  <2> QED BY <1>4, <2>2 DEF AreOrders
<1>6. CASE m > 0
  <2> DEFINE f == n + 1 - m
  <2>1. m - 1 \in 0 .. n /\ f \in 1 .. n /\ n + 1 - (m - 1) = f + 1
    BY <1>1, <1>4, <1>6
  <2>2. PICK shorter : AreOrders(shorter, spec, f + 1)
    <3>1. m - 1 \notin Bad
      <4> HIDE DEF Bad
      <4> QED BY <1>3, <1>4, <2>1
    <3> QED BY <2>1, <3>1
  <2> HIDE DEF f
  <2>3. \A i \in f + 1 .. n : shorter[i] = GroupOrder(shorter, spec, i)
    BY <2>2, Zenon DEF AreOrders
  <2> DEFINE longer == [i \in f .. n |-> IF i = f THEN GroupOrder(shorter, spec, f) ELSE shorter[i]]
  <2>4. \A i \in f + 1 .. n : longer[i] = shorter[i]
    <3> HIDE DEF n
    <3>1. \A i \in f + 1 .. n : i \in f .. n /\ i # f
      BY <1>1, <2>1
    <3> QED BY <3>1
  <2>5. longer[f] = GroupOrder(shorter, spec, f)
    BY <1>1, <2>1
  <2>6. ASSUME NEW i \in f .. n PROVE GroupOrder(longer, spec, i) = GroupOrder(shorter, spec, i)
    <3> DEFINE g == GroupsIn(spec, i)
    <3>1. i \in Nat
      BY <1>1, <2>1
    <3>2. \A k \in DOMAIN g : g[k] \in i + 1 .. n
      BY <3>1, GroupsInAre
    <3>3. ASSUME NEW k \in DOMAIN g PROVE longer[g[k]] = shorter[g[k]]
      <4>1. g[k] \in f + 1 .. n
        <5>1. g[k] \in i + 1 .. n
          BY <3>2
        <5> HIDE DEF g, n
        <5> QED BY <1>1, <2>1, <5>1
      <4> HIDE DEF longer, g, n
      <4> QED BY <2>4, <4>1
    <3> HIDE DEF longer, g
    <3>4. [k \in DOMAIN g |-> longer[g[k]]] = [k \in DOMAIN g |-> shorter[g[k]]]
      BY <3>3
    <3> QED BY <3>4 DEF GroupOrder, g
  <2>7. ASSUME NEW i \in f .. n PROVE longer[i] = GroupOrder(longer, spec, i)
    <3>1. CASE i = f
      <4> HIDE DEF longer
      <4> QED BY <2>5, <2>6, <3>1
    <3>2. CASE i # f
      <4>1. i \in f + 1 .. n
        <5> HIDE DEF n
        <5> QED BY <1>1, <2>1, <3>2
      <4> HIDE DEF longer
      <4> QED BY <2>3, <2>4, <2>6, <4>1
    <3> QED BY <3>1, <3>2
  <2>8. longer = [i \in f .. n |-> GroupOrder(longer, spec, i)]
    <3>1. longer = [i \in f .. n |-> longer[i]]
      OBVIOUS
    <3> HIDE DEF longer
    <3> QED BY <2>7, <3>1
  <2> HIDE DEF longer
  <2>9. AreOrders(longer, spec, f)
    BY <2>8 DEF AreOrders
  <2> QED BY <1>4, <2>9 DEF f
<1> QED BY <1>1, <1>4, <1>5, <1>6

LEMMA GroupsFirstIs ==
    ASSUME NEW spec, IsFile(spec), NEW i \in 1 .. Count(spec)
    PROVE  GroupsFirst(spec)[i] = GroupOrder(GroupsFirst(spec), spec, i)
<1>1. DOMAIN spec.records = 1 .. Count(spec)
  BY RecordsAre
<1>2. GroupsFirst(spec) = CHOOSE order : AreOrders(order, spec, 1)
  BY <1>1 DEF GroupsFirst, AreOrders, GroupOrder
<1>3. AreOrders(GroupsFirst(spec), spec, 1)
  <2>1. \E order : AreOrders(order, spec, 1)
    BY OrdersExist
  <2> QED BY <1>2, <2>1
<1> QED BY <1>3, Zenon DEF AreOrders

\* Every record has the groups in it in front of it.
GroupsBefore(spec, s) ==
    \A q \in DOMAIN s : \A j \in Range(GroupsIn(spec, s[q])) : \E r \in 1 .. q - 1 : s[r] = j

LEMMA BeforeJoined ==
    ASSUME NEW spec, NEW S, NEW s \in Seq(S), NEW t \in Seq(S),
           GroupsBefore(spec, s), GroupsBefore(spec, t)
    PROVE  GroupsBefore(spec, s \o t)
<1> DEFINE u == s \o t
<1>1. /\ Len(s) \in Nat /\ Len(t) \in Nat /\ DOMAIN u = 1 .. Len(s) + Len(t)
      /\ DOMAIN s = 1 .. Len(s) /\ DOMAIN t = 1 .. Len(t)
  OBVIOUS
<1>2. \A q \in 1 .. Len(s) : u[q] = s[q] /\ q \in DOMAIN u
  OBVIOUS
<1>3. \A q \in 1 .. Len(t) : u[Len(s) + q] = t[q]
  OBVIOUS
<1> HIDE DEF u
<1>4. ASSUME NEW q \in DOMAIN u, NEW j \in Range(GroupsIn(spec, u[q]))
      PROVE  \E r \in 1 .. q - 1 : u[r] = j
  <2>1. CASE q <= Len(s)
    <3>1. q \in DOMAIN s /\ u[q] = s[q]
      BY <1>1, <1>2, <2>1
    <3>2. PICK r \in 1 .. q - 1 : s[r] = j
      BY <3>1 DEF GroupsBefore
    <3>3. r \in 1 .. Len(s)
      BY <1>1, <3>1
    <3> QED BY <1>2, <3>2, <3>3
  <2>2. CASE q > Len(s)
    <3> DEFINE p == q - Len(s)
    <3>1. p \in DOMAIN t /\ q = Len(s) + p /\ u[q] = t[p]
      BY <1>1, <1>3, <2>2
    <3> HIDE DEF p
    <3>2. PICK r \in 1 .. p - 1 : t[r] = j
      BY <3>1 DEF GroupsBefore
    <3>3. r \in 1 .. Len(t) /\ Len(s) + r \in 1 .. q - 1
      BY <1>1, <3>1
    <3>4. u[Len(s) + r] = j
      BY <1>3, <3>2, <3>3
    <3> QED BY <3>3, <3>4
  <2> QED BY <1>1, <2>1, <2>2
<1> QED BY <1>4 DEF GroupsBefore, u

LEMMA BeforeFlattened ==
    ASSUME NEW spec, NEW S, NEW ss \in Seq(Seq(S)), \A i \in DOMAIN ss : GroupsBefore(spec, ss[i])
    PROVE  GroupsBefore(spec, FlattenSeq(ss))
<1> DEFINE part(k) == SubSeq(ss, 1, k)
           Good(k) == GroupsBefore(spec, FlattenSeq(part(k)))
           Bad     == {k \in 0 .. Len(ss) : ~ Good(k)}
<1>1. /\ part(Len(ss)) = ss /\ part(0) = <<>> /\ Len(ss) \in Nat /\ DOMAIN ss = 1 .. Len(ss)
  BY WholeSequence
<1>2. Bad = {}
  <2>1. SUFFICES ASSUME Bad # {} PROVE FALSE
    OBVIOUS
  <2>2. PICK m \in Bad : \A k \in Bad : m <= k
    <3>1. Bad \in SUBSET Nat
      OBVIOUS
    <3> HIDE DEF Bad
    <3> QED BY <2>1, <3>1, LeastOfNat
  <2>3. m \in 0 .. Len(ss) /\ ~ Good(m)
    BY <2>2
  <2>4. CASE m = 0
    <3>1. GroupsBefore(spec, <<>>)
      BY DEF GroupsBefore
    <3> HIDE DEF part
    <3> QED BY <1>1, <2>3, <2>4, <3>1, FlattenNone
  <2>5. CASE m # 0
    <3>1. m \in 1 .. Len(ss) /\ m - 1 \in 0 .. Len(ss)
      BY <1>1, <2>3, <2>5
    <3>2. Good(m - 1)
      <4>1. m - 1 \notin Bad
        <5> HIDE DEF Bad
        <5> QED BY <2>2, <3>1
      <4> HIDE DEF Good
      <4> QED BY <3>1, <4>1
    <3>3. part(m) = Append(part(m - 1), ss[m]) /\ part(m - 1) \in Seq(Seq(S)) /\ ss[m] \in Seq(S)
      BY <3>1, PrefixIs
    <3> DEFINE a == FlattenSeq(part(m - 1))
               b == ss[m]
    <3> HIDE DEF part
    <3>4. a \in Seq(S) /\ b \in Seq(S) /\ FlattenSeq(part(m)) = a \o b
      BY <3>3, FlattenAppend
    <3>5. GroupsBefore(spec, a) /\ GroupsBefore(spec, b)
      BY <1>1, <3>1, <3>2
    <3> HIDE DEF a, b
    <3>6. GroupsBefore(spec, a \o b)
      BY <3>4, <3>5, BeforeJoined
    <3> QED BY <2>3, <3>4, <3>6
  <2> QED BY <2>4, <2>5
<1>3. Good(Len(ss))
  <2>1. Len(ss) \in 0 .. Len(ss)
    BY <1>1
  <2> HIDE DEF Good
  <2> QED BY <1>2, <2>1
<1> HIDE DEF part
<1> QED BY <1>1, <1>3

LEMMA BeforeLast ==
    ASSUME NEW spec, NEW S, NEW s \in Seq(S), NEW i \in S, GroupsBefore(spec, s),
           \A j \in Range(GroupsIn(spec, i)) : j \in Range(s)
    PROVE  GroupsBefore(spec, s \o <<i>>) /\ s \o <<i>> \in Seq(S) /\ i \in Range(s \o <<i>>)
<1> DEFINE u == s \o <<i>>
<1>1. /\ Len(s) \in Nat /\ DOMAIN u = 1 .. Len(s) + 1 /\ DOMAIN s = 1 .. Len(s)
      /\ u[Len(s) + 1] = i /\ u \in Seq(S) /\ \A q \in 1 .. Len(s) : u[q] = s[q]
  OBVIOUS
<1> HIDE DEF u
<1>2. ASSUME NEW q \in DOMAIN u, NEW j \in Range(GroupsIn(spec, u[q]))
      PROVE  \E r \in 1 .. q - 1 : u[r] = j
  <2>1. CASE q = Len(s) + 1
    <3>1. j \in Range(s)
      BY <1>1, <2>1
    <3>2. PICK r \in DOMAIN s : s[r] = j
      BY <3>1 DEF Range
    <3>3. r \in 1 .. q - 1 /\ u[r] = j
      BY <1>1, <2>1, <3>2
    <3> QED BY <3>3
  <2>2. CASE q # Len(s) + 1
    <3>1. q \in DOMAIN s /\ u[q] = s[q]
      BY <1>1, <2>2
    <3>2. PICK r \in 1 .. q - 1 : s[r] = j
      BY <3>1 DEF GroupsBefore
    <3>3. u[r] = j
      BY <1>1, <3>1, <3>2
    <3> QED BY <3>3
  <2> QED BY <2>1, <2>2
<1>3. i \in Range(u)
  BY <1>1 DEF Range
<1> QED BY <1>1, <1>2, <1>3 DEF GroupsBefore, u

\* What the recursion over a record gives.
LEMMA OrderOfRecord ==
    ASSUME NEW spec, IsFile(spec), NEW i \in 1 .. Count(spec)
    PROVE  /\ GroupsFirst(spec)[i] \in Seq(1 .. Count(spec))
           /\ GroupsBefore(spec, GroupsFirst(spec)[i])
           /\ i \in Range(GroupsFirst(spec)[i])
<1> DEFINE n       == Count(spec)
           order   == GroupsFirst(spec)
           T       == Seq(1 .. n)
           Good(j) == order[j] \in T /\ GroupsBefore(spec, order[j]) /\ j \in Range(order[j])
           Bad     == {m \in 0 .. n - 1 : ~ Good(n - m)}
<1>1. n \in Nat
  BY RecordsAre
<1>2. SUFFICES ASSUME Bad # {} PROVE FALSE
  <2>1. n - i \in 0 .. n - 1 /\ n - (n - i) = i
    BY <1>1
  <2>2. Good(i)
    <3> HIDE DEF Good
    <3> QED BY <1>2, <2>1
  <2> QED BY <2>2
<1>3. PICK m \in Bad : \A k \in Bad : m <= k
  <2>1. Bad \in SUBSET Nat
    BY <1>1
  <2> HIDE DEF Bad
  <2> QED BY <1>2, <2>1, LeastOfNat
<1> DEFINE r  == n - m
           g  == GroupsIn(spec, r)
           ss == [k \in DOMAIN g |-> order[g[k]]]
<1>4. m \in 0 .. n - 1 /\ ~ Good(r) /\ r \in 1 .. n /\ r \in Nat
  BY <1>1, <1>3
<1>5. /\ g \in T /\ DOMAIN g = 1 .. Len(g) /\ Len(g) \in Nat
      /\ \A k \in DOMAIN g : g[k] \in r + 1 .. n
  <2>1. g \in Seq(1 .. n) /\ \A k \in DOMAIN g : g[k] \in r + 1 .. n
    <3> HIDE DEF r
    <3> QED BY <1>4, GroupsInAre
  <2> HIDE DEF g
  <2> QED BY <2>1
<1>6. ASSUME NEW k \in DOMAIN g PROVE Good(g[k])
  <2> DEFINE j == g[k]
  <2>1. j \in r + 1 .. n
    BY <1>5
  <2> HIDE DEF j, n, Good, g
  <2>2. n - j \in 0 .. n - 1 /\ n - j < m /\ n - (n - j) = j
    BY <1>1, <1>4, <2>1
  <2>3. n - j \notin Bad
    <3> HIDE DEF Bad
    <3> QED BY <1>3, <1>4, <2>2
  <2>4. Good(j)
    BY <2>2, <2>3
  <2> QED BY <2>4 DEF j
<1>7. ss \in Seq(T) /\ Len(ss) = Len(g) /\ DOMAIN ss = DOMAIN g /\ \A k \in DOMAIN g : ss[k] = order[g[k]]
  <2>1. \A k \in DOMAIN g : order[g[k]] \in T
    BY <1>6
  <2> HIDE DEF g, T, order
  <2>2. ss \in [1 .. Len(g) -> T]
    BY <1>5, <2>1
  <2>3. DOMAIN ss = DOMAIN g /\ \A k \in DOMAIN g : ss[k] = order[g[k]]
    OBVIOUS
  <2> HIDE DEF ss
  <2> QED BY <1>5, <2>2, <2>3, SequenceIs
<1>8. order[r] = FlattenSeq(ss) \o <<r>>
  <2> HIDE DEF r
  <2> QED BY <1>4, GroupsFirstIs DEF GroupOrder
<1> DEFINE s == FlattenSeq(ss)
<1>9. s \in T /\ GroupsBefore(spec, s) /\ \A j \in Range(g) : j \in Range(s)
  <2>1. \A k \in DOMAIN ss : GroupsBefore(spec, ss[k]) /\ g[k] \in Range(ss[k])
    <3> HIDE DEF ss, g
    <3> QED BY <1>6, <1>7
  <2> HIDE DEF ss
  <2>2. s \in T /\ \A x : x \in Range(s) <=> \E k \in DOMAIN ss : x \in Range(ss[k])
    BY <1>7, RangeFlattened DEF T
  <2>3. GroupsBefore(spec, s)
    BY <1>7, <2>1, BeforeFlattened DEF T
  <2> HIDE DEF s, g
  <2>4. ASSUME NEW j \in Range(g) PROVE j \in Range(s)
    <3>1. PICK k \in DOMAIN g : g[k] = j
      BY DEF Range
    <3> QED BY <1>7, <2>1, <2>2, <3>1
  <2> QED BY <2>2, <2>3, <2>4
<1>10. Good(r)
  <2> DEFINE u == s \o <<r>>
  <2> HIDE DEF s, ss, r
  <2>1. GroupsBefore(spec, u) /\ u \in T /\ r \in Range(u)
    BY <1>4, <1>9, BeforeLast DEF T, g
  <2>2. order[r] = u
    BY <1>8 DEF s
  <2> HIDE DEF u, order
  <2> QED BY <2>1, <2>2
<1> QED BY <1>4, <1>10

LEMMA RecordOrderIs ==
    ASSUME NEW spec, IsFile(spec)
    PROVE  /\ RecordOrder(spec) \in Seq(1 .. Count(spec))
           /\ GroupsBefore(spec, RecordOrder(spec))
           /\ \A i \in 1 .. Count(spec) : i \in Range(RecordOrder(spec))
<1> DEFINE n        == Count(spec)
           order    == GroupsFirst(spec)
           T        == Seq(1 .. n)
           c        == Selected(spec, "component")
           g        == Selected(spec, "group")
           m        == Selected(spec, "message")
           selected == c \o g \o m
           ss       == [k \in DOMAIN selected |-> order[selected[k]]]
<1>1. selected \in T /\ \A i \in 1 .. n : i \in Range(selected)
  <2>1. c \in T /\ g \in T /\ m \in T
    BY SelectedAre
  <2>2. \A i \in 1 .. n : i \in Range(c) \/ i \in Range(g) \/ i \in Range(m)
    <3>1. \A i \in 1 .. n : spec.records[i].kind \in {"component", "group", "message"}
      BY RecordsAre
    <3> HIDE DEF c, g, m, n
    <3>2. ASSUME NEW i \in 1 .. n PROVE i \in Range(c) \/ i \in Range(g) \/ i \in Range(m)
      <4>1. spec.records[i].kind = "component" => i \in Range(c)
        BY SelectedAre DEF c, n
      <4>2. spec.records[i].kind = "group" => i \in Range(g)
        BY SelectedAre DEF g, n
      <4>3. spec.records[i].kind = "message" => i \in Range(m)
        BY SelectedAre DEF m, n
      <4> QED BY <3>1, <4>1, <4>2, <4>3
    <3> QED BY <3>2
  <2> HIDE DEF c, g, m
  <2>3. c \o g \in T /\ Range(c \o g) = Range(c) \union Range(g)
    BY <2>1, RangeJoined DEF T
  <2> DEFINE cg == c \o g
  <2> HIDE DEF cg
  <2>4. cg \in T /\ Range(cg) = Range(c) \union Range(g)
    BY <2>3 DEF cg
  <2>5. cg \o m \in T /\ Range(cg \o m) = Range(cg) \union Range(m)
    BY <2>1, <2>4, RangeJoined DEF T
  <2>6. selected = cg \o m
    BY DEF cg
  <2> HIDE DEF selected
  <2> QED BY <2>2, <2>4, <2>5, <2>6
<1> HIDE DEF selected
<1>2. DOMAIN selected = 1 .. Len(selected) /\ Len(selected) \in Nat
      /\ \A k \in DOMAIN selected : selected[k] \in 1 .. n
  <2>1. selected \in Seq(1 .. n)
    BY <1>1 DEF T
  <2> HIDE DEF n
  <2> QED BY <2>1, SequenceParts
<1>3. \A k \in DOMAIN selected :
          /\ order[selected[k]] \in T /\ GroupsBefore(spec, order[selected[k]])
          /\ selected[k] \in Range(order[selected[k]])
  BY <1>2, OrderOfRecord
<1> HIDE DEF order, T
<1>4. ss \in Seq(T) /\ DOMAIN ss = DOMAIN selected /\ \A k \in DOMAIN ss : ss[k] = order[selected[k]]
  <2>1. ss \in [1 .. Len(selected) -> T]
    BY <1>2, <1>3
  <2>2. DOMAIN ss = DOMAIN selected /\ \A k \in DOMAIN ss : ss[k] = order[selected[k]]
    OBVIOUS
  <2> HIDE DEF ss
  <2> QED BY <1>2, <2>1, <2>2, SequenceIs
<1>5. RecordOrder(spec) = FlattenSeq(ss)
  BY DEF RecordOrder, selected, c, g, m, ss, order
<1> HIDE DEF ss
<1> DEFINE s == FlattenSeq(ss)
<1>6. s \in T /\ \A x : x \in Range(s) <=> \E k \in DOMAIN ss : x \in Range(ss[k])
  BY <1>4, RangeFlattened DEF T
<1>7. GroupsBefore(spec, s)
  <2>1. \A k \in DOMAIN ss : GroupsBefore(spec, ss[k])
    BY <1>3, <1>4
  <2> QED BY <1>4, <2>1, BeforeFlattened DEF T
<1> HIDE DEF s
<1>8. ASSUME NEW i \in 1 .. n PROVE i \in Range(s)
  <2>1. PICK k \in DOMAIN selected : selected[k] = i
    BY <1>1 DEF Range
  <2> QED BY <1>3, <1>4, <1>6, <2>1
<1> QED BY <1>5, <1>6, <1>7, <1>8 DEF T, s

-----------------------------------------------------------------------------
(***************************************************************************)
(* The work of a run: each node once or more, what it needs in front of it.*)
(***************************************************************************)
Item(w, node, i) == [node |-> node, spec |-> w, index |-> i]
Items == [node : {"type", "record"}, spec : Files, index : Nat]

Listed(spec, x) ==
    /\ x.node = "type" => x.index \in DOMAIN spec.types
    /\ x.node = "record" => x.index \in 1 .. Count(spec)

LEMMA NodesOfIs ==
    ASSUME NEW w \in Files, NEW node \in {"type", "record"}, NEW indices \in Seq(Nat)
    PROVE  /\ NodesOf(w, node, indices) \in Seq(Items)
           /\ Len(NodesOf(w, node, indices)) = Len(indices)
           /\ \A k \in 1 .. Len(indices) : NodesOf(w, node, indices)[k] = Item(w, node, indices[k])
<1> DEFINE s == NodesOf(w, node, indices)
<1>1. DOMAIN indices = 1 .. Len(indices) /\ Len(indices) \in Nat
      /\ \A k \in DOMAIN indices : indices[k] \in Nat
  BY SequenceParts
<1>2. \A k \in 1 .. Len(indices) : Item(w, node, indices[k]) \in Items
  BY <1>1 DEF Item, Items
<1>3. s = [k \in 1 .. Len(indices) |-> Item(w, node, indices[k])]
  BY <1>1 DEF NodesOf, Item
<1>4. \A k \in 1 .. Len(indices) : s[k] = Item(w, node, indices[k])
  BY <1>3
<1>5. s \in [1 .. Len(indices) -> Items]
  BY <1>2, <1>3
<1> HIDE DEF s
<1>6. s \in Seq(Items) /\ Len(s) = Len(indices)
  BY <1>1, <1>5, SequenceIs
<1> QED BY <1>4, <1>6 DEF s

LEMMA JoinedIs ==
    ASSUME NEW S, NEW s \in Seq(S), NEW t \in Seq(S)
    PROVE  /\ s \o t \in Seq(S) /\ Len(s) \in Nat /\ Len(t) \in Nat
           /\ Len(s \o t) = Len(s) + Len(t) /\ DOMAIN (s \o t) = 1 .. Len(s) + Len(t)
           /\ \A q \in 1 .. Len(s) : (s \o t)[q] = s[q]
           /\ \A q \in 1 .. Len(t) : (s \o t)[Len(s) + q] = t[q]
OBVIOUS

LEMMA WorkIs ==
    ASSUME NEW w \in Files, NEW spec, IsFile(spec), NEW W, W = Work(w, spec)
    PROVE  /\ W \in Seq(Items)
           /\ \A q \in DOMAIN W :
                 /\ W[q].spec = w /\ Listed(spec, W[q])
                 /\ W[q].node = "record" =>
                       \A j \in Range(GroupsIn(spec, W[q].index)) :
                           \E r \in 1 .. q - 1 : W[r] = Item(w, "record", j)
           /\ \A i \in DOMAIN spec.types : \E q \in DOMAIN W : W[q] = Item(w, "type", i)
           /\ \A i \in 1 .. Count(spec) : \E q \in DOMAIN W : W[q] = Item(w, "record", i)
<1> DEFINE t  == [i \in DOMAIN spec.types |-> i]
           o  == RecordOrder(spec)
           T  == NodesOf(w, "type", t)
           R  == NodesOf(w, "record", o)
<1>1. DOMAIN spec.types = 1 .. Len(spec.types) /\ Len(spec.types) \in Nat
  <2>1. spec.types \in Seq(TypeNode)
    BY DEF IsFile, Specification
  <2> QED BY <2>1, SequenceParts
<1>2. t \in Seq(Nat) /\ Len(t) = Len(spec.types) /\ \A i \in DOMAIN spec.types : t[i] = i
  <2>1. t \in [1 .. Len(spec.types) -> Nat]
    BY <1>1
  <2>2. \A i \in DOMAIN spec.types : t[i] = i
    OBVIOUS
  <2> HIDE DEF t
  <2> QED BY <1>1, <2>1, <2>2, SequenceIs
<1>3. /\ o \in Seq(Nat) /\ GroupsBefore(spec, o) /\ DOMAIN o = 1 .. Len(o) /\ Len(o) \in Nat
      /\ \A k \in DOMAIN o : o[k] \in 1 .. Count(spec)
      /\ \A i \in 1 .. Count(spec) : i \in Range(o)
  <2>1. /\ o \in Seq(1 .. Count(spec)) /\ GroupsBefore(spec, o)
        /\ \A i \in 1 .. Count(spec) : i \in Range(o)
    BY RecordOrderIs
  <2> HIDE DEF o
  <2>2. DOMAIN o = 1 .. Len(o) /\ Len(o) \in Nat /\ \A k \in DOMAIN o : o[k] \in 1 .. Count(spec)
    BY <2>1, SequenceParts
  <2>3. o \in [1 .. Len(o) -> Nat]
    <3>1. \A k \in DOMAIN o : o[k] \in Nat
      BY <2>2, RecordsAre
    <3>2. o = [k \in DOMAIN o |-> o[k]]
      BY <2>1
    <3> QED BY <2>2, <3>1, <3>2
  <2>4. o \in Seq(Nat)
    BY <2>2, <2>3, SequenceIs
  <2> QED BY <2>1, <2>2, <2>4
<1> HIDE DEF t, o
<1>4. /\ T \in Seq(Items) /\ Len(T) = Len(spec.types)
      /\ \A k \in 1 .. Len(spec.types) : T[k] = Item(w, "type", k)
  <2>1. T \in Seq(Items) /\ Len(T) = Len(t) /\ \A k \in 1 .. Len(t) : T[k] = Item(w, "type", t[k])
    BY <1>2, NodesOfIs
  <2> HIDE DEF T
  <2>2. ASSUME NEW k \in 1 .. Len(spec.types) PROVE T[k] = Item(w, "type", k)
    <3>1. t[k] = k /\ k \in 1 .. Len(t)
      BY <1>1, <1>2
    <3> QED BY <2>1, <3>1
  <2> QED BY <1>2, <2>1, <2>2
<1>5. /\ R \in Seq(Items) /\ Len(R) = Len(o)
      /\ \A k \in 1 .. Len(o) : R[k] = Item(w, "record", o[k])
  BY <1>3, NodesOfIs
<1>6. W = T \o R
  BY DEF Work, T, R, t, o
<1> HIDE DEF T, R
<1> DEFINE b == Len(spec.types)
           c == Len(o)
<1>7. /\ W \in Seq(Items) /\ DOMAIN W = 1 .. b + c
      /\ \A q \in 1 .. b : W[q] = T[q]
      /\ \A q \in 1 .. c : W[b + q] = R[q]
  <2> DEFINE V == T \o R
  <2>1. /\ V \in Seq(Items) /\ DOMAIN V = 1 .. Len(T) + Len(R)
        /\ \A q \in 1 .. Len(T) : V[q] = T[q]
        /\ \A q \in 1 .. Len(R) : V[Len(T) + q] = R[q]
    <3>1. T \in Seq(Items) /\ R \in Seq(Items)
      BY <1>4, <1>5
    <3> QED BY <3>1, JoinedIs
  <2>2. W = V
    BY <1>6
  <2> HIDE DEF V
  <2> QED BY <1>4, <1>5, <2>1, <2>2
<1>8. b \in Nat /\ c \in Nat
  BY <1>1, <1>3
<1> HIDE DEF b, c
<1>9. \A q \in 1 .. b : W[q] = Item(w, "type", q)
  BY <1>4, <1>7 DEF b
<1>10. \A q \in 1 .. c : W[b + q] = Item(w, "record", o[q])
  BY <1>5, <1>7 DEF c
<1>11. ASSUME NEW q \in DOMAIN W
       PROVE  /\ W[q].spec = w /\ Listed(spec, W[q])
              /\ W[q].node = "record" =>
                    \A j \in Range(GroupsIn(spec, W[q].index)) :
                        \E r \in 1 .. q - 1 : W[r] = Item(w, "record", j)
  <2>1. CASE q \in 1 .. b
    <3>1. W[q] = Item(w, "type", q) /\ q \in DOMAIN spec.types
      BY <1>1, <1>9, <2>1 DEF b
    <3> QED BY <3>1 DEF Item, Listed
  <2>2. CASE q \in b + 1 .. b + c
    <3> DEFINE k == q - b
    <3>1. k \in 1 .. c /\ q = b + k
      BY <1>8, <2>2
    <3> HIDE DEF k
    <3>2. W[q] = Item(w, "record", o[k])
      BY <1>10, <3>1
    <3>3. k \in DOMAIN o /\ o[k] \in 1 .. Count(spec)
      BY <1>3, <3>1 DEF c
    <3>4. W[q].spec = w /\ Listed(spec, W[q]) /\ W[q].index = o[k]
      BY <3>2, <3>3 DEF Item, Listed
    <3>5. ASSUME NEW j \in Range(GroupsIn(spec, o[k]))
          PROVE  \E r \in 1 .. q - 1 : W[r] = Item(w, "record", j)
      <4>1. PICK p \in 1 .. k - 1 : o[p] = j
        BY <1>3, <3>3 DEF GroupsBefore
      <4>2. p \in 1 .. c /\ b + p \in 1 .. q - 1
        BY <1>8, <3>1
      <4>3. W[b + p] = Item(w, "record", j)
        BY <1>10, <4>1, <4>2
      <4> QED BY <4>2, <4>3
    <3> QED BY <3>4, <3>5
  <2>3. q \in 1 .. b \/ q \in b + 1 .. b + c
    BY <1>7, <1>8
  <2> QED BY <2>1, <2>2, <2>3
<1>12. ASSUME NEW i \in DOMAIN spec.types PROVE \E q \in DOMAIN W : W[q] = Item(w, "type", i)
  <2>1. i \in 1 .. b /\ i \in DOMAIN W
    BY <1>1, <1>7, <1>8 DEF b
  <2> QED BY <1>9, <2>1
<1>13. ASSUME NEW i \in 1 .. Count(spec) PROVE \E q \in DOMAIN W : W[q] = Item(w, "record", i)
  <2>1. PICK k \in DOMAIN o : o[k] = i
    BY <1>3 DEF Range
  <2>2. k \in 1 .. c /\ b + k \in DOMAIN W
    <3>1. k \in 1 .. c
      BY <1>3 DEF c
    <3> QED BY <1>7, <1>8, <3>1
  <2>3. W[b + k] = Item(w, "record", i)
    BY <1>10, <2>1, <2>2
  <2> QED BY <2>2, <2>3
<1> QED BY <1>7, <1>11, <1>12, <1>13

AllWork(s) == Work("session", s["session"]) \o Work("application", s["application"])

\* A record stands behind the groups in it, the application behind the session's
\* types.
InOrder(s, W) ==
    \A q \in DOMAIN W :
        /\ Listed(s[W[q].spec], W[q])
        /\ W[q].node = "record" =>
              \A j \in Range(GroupsIn(s[W[q].spec], W[q].index)) :
                  \E r \in 1 .. q - 1 : W[r] = Item(W[q].spec, "record", j)
        /\ W[q].spec = "application" =>
              \A i \in DOMAIN s["session"].types :
                  \E r \in 1 .. q - 1 : W[r] = Item("session", "type", i)

LEMMA AllWorkIs ==
    ASSUME NEW s \in Specifications, NEW W, W = AllWork(s)
    PROVE  /\ W \in Seq(Items)
           /\ InOrder(s, W)
           /\ \A w \in Files : \A i \in 1 .. Count(s[w]) :
                 \E q \in DOMAIN W : W[q] = Item(w, "record", i)
<1> DEFINE U == Work("session", s["session"])
           V == Work("application", s["application"])
           m == Len(U)
           n == Len(V)
<1>1. \A w \in Files : IsFile(s[w])
  BY SpecificationAssumption DEF IsFile
<1>2. /\ U \in Seq(Items)
      /\ \A q \in DOMAIN U :
            /\ U[q].spec = "session" /\ Listed(s["session"], U[q])
            /\ U[q].node = "record" =>
                  \A j \in Range(GroupsIn(s["session"], U[q].index)) :
                      \E r \in 1 .. q - 1 : U[r] = Item("session", "record", j)
      /\ \A i \in DOMAIN s["session"].types : \E q \in DOMAIN U : U[q] = Item("session", "type", i)
      /\ \A i \in 1 .. Count(s["session"]) : \E q \in DOMAIN U : U[q] = Item("session", "record", i)
  <2>1. "session" \in Files /\ IsFile(s["session"])
    BY <1>1 DEF Files
  <2> QED BY <2>1, WorkIs
<1>3. /\ V \in Seq(Items)
      /\ \A q \in DOMAIN V :
            /\ V[q].spec = "application" /\ Listed(s["application"], V[q])
            /\ V[q].node = "record" =>
                  \A j \in Range(GroupsIn(s["application"], V[q].index)) :
                      \E r \in 1 .. q - 1 : V[r] = Item("application", "record", j)
      /\ \A i \in 1 .. Count(s["application"]) :
            \E q \in DOMAIN V : V[q] = Item("application", "record", i)
  <2>1. "application" \in Files /\ IsFile(s["application"])
    BY <1>1 DEF Files
  <2> QED BY <2>1, WorkIs
<1>4. W = U \o V
  BY DEF AllWork
<1> HIDE DEF U, V
<1>5. /\ W \in Seq(Items) /\ m \in Nat /\ n \in Nat /\ DOMAIN W = 1 .. m + n
      /\ DOMAIN U = 1 .. m /\ DOMAIN V = 1 .. n
      /\ \A q \in 1 .. m : W[q] = U[q]
      /\ \A q \in 1 .. n : W[m + q] = V[q]
  <2>1. U \in Seq(Items) /\ V \in Seq(Items)
    BY <1>2, <1>3
  <2>2. DOMAIN U = 1 .. m /\ DOMAIN V = 1 .. n
    BY <2>1, SequenceParts
  <2> QED BY <1>4, <2>1, <2>2, JoinedIs
<1> HIDE DEF m, n
<1>6. ASSUME NEW q \in 1 .. m
      PROVE  /\ W[q].spec = "session" /\ Listed(s["session"], W[q])
             /\ W[q].node = "record" =>
                   \A j \in Range(GroupsIn(s["session"], W[q].index)) :
                       \E r \in 1 .. q - 1 : W[r] = Item("session", "record", j)
  <2>1. W[q] = U[q] /\ q \in DOMAIN U
    BY <1>5
  <2>2. ASSUME W[q].node = "record", NEW j \in Range(GroupsIn(s["session"], W[q].index))
        PROVE  \E r \in 1 .. q - 1 : W[r] = Item("session", "record", j)
    <3>1. PICK r \in 1 .. q - 1 : U[r] = Item("session", "record", j)
      BY <1>2, <2>1, <2>2
    <3>2. r \in 1 .. m
      BY <1>5
    <3> QED BY <1>5, <3>1, <3>2
  <2> QED BY <1>2, <2>1, <2>2
<1>7. ASSUME NEW q \in m + 1 .. m + n
      PROVE  /\ W[q].spec = "application" /\ Listed(s["application"], W[q])
             /\ W[q].node = "record" =>
                   \A j \in Range(GroupsIn(s["application"], W[q].index)) :
                       \E r \in 1 .. q - 1 : W[r] = Item("application", "record", j)
             /\ \A i \in DOMAIN s["session"].types :
                   \E r \in 1 .. q - 1 : W[r] = Item("session", "type", i)
  <2> DEFINE k == q - m
  <2>1. k \in DOMAIN V /\ q = m + k
    BY <1>5
  <2> HIDE DEF k
  <2>2. W[q] = V[k]
    BY <1>5, <2>1
  <2>3. ASSUME W[q].node = "record", NEW j \in Range(GroupsIn(s["application"], W[q].index))
        PROVE  \E r \in 1 .. q - 1 : W[r] = Item("application", "record", j)
    <3>1. PICK r \in 1 .. k - 1 : V[r] = Item("application", "record", j)
      BY <1>3, <2>1, <2>2, <2>3
    <3>2. r \in 1 .. n /\ m + r \in 1 .. q - 1
      BY <1>5, <2>1
    <3> QED BY <1>5, <3>1, <3>2
  <2>4. ASSUME NEW i \in DOMAIN s["session"].types
        PROVE  \E r \in 1 .. q - 1 : W[r] = Item("session", "type", i)
    <3>1. PICK r \in DOMAIN U : U[r] = Item("session", "type", i)
      BY <1>2
    <3>2. r \in 1 .. q - 1 /\ W[r] = U[r]
      BY <1>5
    <3> QED BY <3>1, <3>2
  <2> QED BY <1>3, <2>1, <2>2, <2>3, <2>4
<1>8. ASSUME NEW q \in DOMAIN W
      PROVE  /\ Listed(s[W[q].spec], W[q])
             /\ W[q].node = "record" =>
                   \A j \in Range(GroupsIn(s[W[q].spec], W[q].index)) :
                       \E r \in 1 .. q - 1 : W[r] = Item(W[q].spec, "record", j)
             /\ W[q].spec = "application" =>
                   \A i \in DOMAIN s["session"].types :
                       \E r \in 1 .. q - 1 : W[r] = Item("session", "type", i)
  <2>1. q \in 1 .. m \/ q \in m + 1 .. m + n
    BY <1>5
  <2>2. CASE q \in 1 .. m
    <3>1. W[q].spec # "application"
      BY <1>6, <2>2
    <3> QED BY <1>6, <2>2, <3>1
  <2>3. CASE q \in m + 1 .. m + n
    BY <1>7, <2>3
  <2> QED BY <2>1, <2>2, <2>3
<1>9. ASSUME NEW w \in Files, NEW i \in 1 .. Count(s[w])
      PROVE  \E q \in DOMAIN W : W[q] = Item(w, "record", i)
  <2>1. CASE w = "session"
    <3>1. PICK q \in DOMAIN U : U[q] = Item(w, "record", i)
      BY <1>2, <2>1
    <3>2. q \in DOMAIN W /\ W[q] = U[q]
      BY <1>5
    <3> QED BY <3>1, <3>2
  <2>2. CASE w = "application"
    <3>1. PICK q \in DOMAIN V : V[q] = Item(w, "record", i)
      BY <1>3, <2>2
    <3>2. m + q \in DOMAIN W /\ W[m + q] = V[q]
      BY <1>5
    <3> QED BY <3>1, <3>2
  <2> QED BY <2>1, <2>2 DEF Files
<1>10. InOrder(s, W)
  BY <1>8 DEF InOrder
<1> QED BY <1>5, <1>9, <1>10

-----------------------------------------------------------------------------
(***************************************************************************)
(* Where a run is in its work.                                             *)
(***************************************************************************)
Plan    == AllWork(specs)
done    == Len(Plan) - Len(todo)
Done(x) == \E r \in 1 .. done : Plan[r] = x

PlanInv ==
    /\ specs \in Specifications
    /\ todo \in Seq(Items) /\ Len(todo) <= Len(Plan)
    /\ \A k \in 1 .. Len(todo) : todo[k] = Plan[done + k]
    /\ outcome \in {"generated", "inconsistent"} => todo = <<>>

LEMMA PlanIs ==
    ASSUME PlanInv
    PROVE  /\ Plan \in Seq(Items) /\ Len(Plan) \in Nat /\ DOMAIN Plan = 1 .. Len(Plan)
           /\ Len(todo) \in Nat /\ done \in 0 .. Len(Plan)
<1>1. Plan \in Seq(Items)
  BY AllWorkIs DEF PlanInv, Plan
<1>2. Len(Plan) \in Nat /\ DOMAIN Plan = 1 .. Len(Plan)
  BY <1>1, SequenceParts
<1>3. Len(todo) \in Nat /\ Len(todo) <= Len(Plan)
  BY DEF PlanInv
<1> QED BY <1>1, <1>2, <1>3 DEF done

\* The next node, and what was done before it.
LEMMA HeadIs ==
    ASSUME PlanInv, todo # <<>>, NEW x, x = Head(todo)
    PROVE  /\ x \in Items /\ x = Plan[done + 1] /\ done + 1 \in DOMAIN Plan
           /\ IsFile(specs[x.spec]) /\ Listed(specs[x.spec], x)
           /\ x.node = "record" =>
                 \A j \in Range(GroupsIn(specs[x.spec], x.index)) : Done(Item(x.spec, "record", j))
           /\ x.spec = "application" =>
                 \A i \in DOMAIN specs["session"].types : Done(Item("session", "type", i))
<1>1. todo \in Seq(Items) /\ specs \in Specifications
  BY DEF PlanInv
<1>2. Len(todo) \in Nat /\ Len(todo) # 0 /\ x = todo[1] /\ x \in Items
  BY <1>1
<1>3. x = Plan[done + 1]
  <2>1. 1 \in 1 .. Len(todo)
    BY <1>2
  <2> QED BY <1>2, <2>1 DEF PlanInv
<1>4. done + 1 \in DOMAIN Plan /\ done + 1 - 1 = done
  BY <1>2, PlanIs DEF done
<1>5. IsFile(specs[x.spec])
  BY <1>1, <1>2, SpecificationAssumption DEF IsFile, Items
<1> DEFINE q == done + 1
           W == Plan
<1>6. InOrder(specs, W)
  BY <1>1, AllWorkIs DEF Plan
<1>7. q \in DOMAIN W /\ W[q] = x /\ q - 1 = done
  BY <1>3, <1>4, PlanIs
<1> HIDE DEF q, W
<1>8. /\ Listed(specs[x.spec], x)
      /\ x.node = "record" =>
            \A j \in Range(GroupsIn(specs[x.spec], x.index)) :
                \E r \in 1 .. done : W[r] = Item(x.spec, "record", j)
      /\ x.spec = "application" =>
            \A i \in DOMAIN specs["session"].types :
                \E r \in 1 .. done : W[r] = Item("session", "type", i)
  BY <1>6, <1>7, Zenon DEF InOrder
<1>9. x.node = "record" =>
          \A j \in Range(GroupsIn(specs[x.spec], x.index)) : Done(Item(x.spec, "record", j))
  BY <1>8 DEF Done, W
<1>10. x.spec = "application" =>
           \A i \in DOMAIN specs["session"].types : Done(Item("session", "type", i))
  BY <1>8 DEF Done, W
<1> QED BY <1>2, <1>3, <1>4, <1>5, <1>8, <1>9, <1>10

LEMMA PlanInit == SchemaInit => PlanInv
<1> SUFFICES ASSUME SchemaInit PROVE PlanInv
  OBVIOUS
<1>1. specs \in Specifications /\ todo = Plan /\ outcome = "running"
  BY DEF SchemaInit, Plan, AllWork
<1>2. Plan \in Seq(Items)
  BY <1>1, AllWorkIs DEF Plan
<1>3. Len(Plan) \in Nat
  BY <1>2, SequenceParts
<1>4. done = 0
  BY <1>1, <1>3 DEF done
<1>5. \A k \in 1 .. Len(todo) : done + k = k
  BY <1>4
<1> QED BY <1>1, <1>2, <1>3, <1>5 DEF PlanInv

\* A node is taken off the work.
LEMMA PlanGoesOn ==
    ASSUME PlanInv, todo # <<>>, todo' = Tail(todo), UNCHANGED <<specs, outcome>>,
           outcome = "running"
    PROVE  PlanInv' /\ Plan' = Plan /\ done' = done + 1
<1>1. todo \in Seq(Items) /\ specs \in Specifications /\ Len(todo) \in Nat /\ Len(todo) # 0
  BY DEF PlanInv
<1>2. /\ Tail(todo) \in Seq(Items) /\ Len(Tail(todo)) = Len(todo) - 1
      /\ \A k \in 1 .. Len(todo) - 1 : Tail(todo)[k] = todo[k + 1]
  BY <1>1
<1>3. Plan' = Plan
  BY DEF Plan
<1>4. done' = done + 1
  BY <1>1, <1>2, <1>3, PlanIs DEF done
<1>5. ASSUME NEW k \in 1 .. Len(todo') PROVE todo'[k] = Plan'[done' + k]
  <2>1. k \in 1 .. Len(todo) - 1 /\ k + 1 \in 1 .. Len(todo)
    BY <1>1, <1>2
  <2>2. todo'[k] = todo[k + 1] /\ todo[k + 1] = Plan[done + (k + 1)]
    BY <1>2, <2>1 DEF PlanInv
  <2>3. done + (k + 1) = done' + k
    BY <1>4, <2>1, PlanIs
  <2> QED BY <1>3, <2>2, <2>3
<1>6. Len(todo') <= Len(Plan')
  BY <1>1, <1>2, <1>3, PlanIs DEF PlanInv
<1> QED BY <1>1, <1>2, <1>3, <1>4, <1>5, <1>6 DEF PlanInv

-----------------------------------------------------------------------------
(***************************************************************************)
(* What is in a record.                                                    *)
(***************************************************************************)
PartType ==
    [tag : Nat, name : STRING, type : STRING \union {"Data"}, lengthTag : Nat, presence : STRING,
     category : {"Group", "Data", "Struct"}]

GroupPart(c)  == PartOf(c.tag, c.name, c.name, 0, c.presence, "Group")
DataPart(c)   == PartOf(c.tag, c.name, "Data", c.lengthTag, c.presence, "Data")
StructPart(c, p) == PartOf(p.tag, p.name, p.name, 0, c.presence, "Struct")

PartsTyped == \A n \in DOMAIN byType : byType[n].parts \in Seq(PartType)

\* Where a part comes from.
ComesFrom(p, c) ==
    \/ c.node = "group" /\ p = GroupPart(c)
    \/ c.node = "data" /\ p = DataPart(c)
    \/ /\ c.node = "field" /\ c.type \in DOMAIN byType
       /\ \E q \in Range(byType[c.type].parts) : p = StructPart(c, q)

LEMMA PartTyped ==
    ASSUME NEW tag \in Nat, NEW name \in STRING, NEW type \in STRING \union {"Data"},
           NEW lengthTag \in Nat, NEW presence \in STRING, NEW category \in {"Group", "Data", "Struct"}
    PROVE  PartOf(tag, name, type, lengthTag, presence, category) \in PartType
BY DEF PartOf, PartType

LEMMA ChildTyped ==
    ASSUME NEW c \in Child
    PROVE  /\ c.node \in {"field", "group", "data"}
           /\ c.name \in STRING /\ c.tag \in Nat /\ c.presence \in STRING
           /\ c.node = "data" => c.lengthTag \in Nat
BY DEF Child

LEMMA SingleRange == ASSUME NEW S, NEW x \in S PROVE <<x>> \in Seq(S) /\ Range(<<x>>) = {x}
BY DEF Range

LEMMA EntriesParts ==
    ASSUME PartsTyped, NEW c \in Child
    PROVE  /\ Entries(c).parts \in Seq(PartType)
           /\ \A p \in Range(Entries(c).parts) : ComesFrom(p, c)
           /\ c.node = "data" => DataPart(c) \in Range(Entries(c).parts)
<1>1. CASE c.node = "group"
  <2>1. Entries(c).parts = <<GroupPart(c)>>
    BY <1>1 DEF Entries, Group, GroupPart
  <2>2. GroupPart(c) \in PartType
    <3>1. c.name \in STRING /\ c.tag \in Nat /\ c.presence \in STRING
      BY ChildTyped
    <3> QED BY <3>1, PartTyped DEF GroupPart
  <2>3. <<GroupPart(c)>> \in Seq(PartType) /\ Range(<<GroupPart(c)>>) = {GroupPart(c)}
    BY <2>2, SingleRange
  <2> QED BY <1>1, <2>1, <2>3 DEF ComesFrom
<1>2. CASE c.node = "data"
  <2>1. Entries(c).parts = <<DataPart(c)>>
    BY <1>2 DEF Entries, DataField, DataPart
  <2>2. DataPart(c) \in PartType
    <3>1. /\ c.name \in STRING /\ c.tag \in Nat /\ c.presence \in STRING /\ c.lengthTag \in Nat
      BY <1>2, ChildTyped
    <3> QED BY <3>1, PartTyped DEF DataPart
  <2>3. <<DataPart(c)>> \in Seq(PartType) /\ Range(<<DataPart(c)>>) = {DataPart(c)}
    BY <2>2, SingleRange
  <2> QED BY <1>2, <2>1, <2>3 DEF ComesFrom
<1>3. CASE c.node = "field"
  <2>1. Entries(c) = PlainField(c)
    BY <1>3 DEF Entries
  <2>2. CASE c.type \in DOMAIN types \/ c.type \notin DOMAIN byType
    <3>1. PlainField(c).parts = <<>>
      BY <2>2 DEF PlainField, NoFields
    <3>2. Range(<<>>) = {} /\ <<>> \in Seq(PartType)
      BY DEF Range
    <3> QED BY <1>3, <2>1, <3>1, <3>2
  <2>3. CASE c.type \notin DOMAIN types /\ c.type \in DOMAIN byType
    <3> DEFINE s == byType[c.type].parts
               t == [i \in DOMAIN s |-> StructPart(c, s[i])]
    <3>1. PlainField(c).parts = t
      BY <2>3 DEF PlainField, Expanded, StructPart
    <3>2. s \in Seq(PartType)
      BY <2>3 DEF PartsTyped
    <3> HIDE DEF s
    <3>3. DOMAIN s = 1 .. Len(s) /\ Len(s) \in Nat /\ \A i \in DOMAIN s : s[i] \in PartType
      BY <3>2, SequenceParts
    <3>4. ASSUME NEW q \in PartType PROVE StructPart(c, q) \in PartType
      <4>1. c.presence \in STRING
        BY ChildTyped
      <4>2. q.tag \in Nat /\ q.name \in STRING
        BY DEF PartType
      <4> QED BY <4>1, <4>2, PartTyped DEF StructPart
    <3>5. t \in [1 .. Len(s) -> PartType] /\ DOMAIN t = DOMAIN s
      BY <3>3, <3>4
    <3>6. \A i \in DOMAIN t : t[i] = StructPart(c, s[i])
      OBVIOUS
    <3> HIDE DEF t
    <3>7. t \in Seq(PartType)
      BY <3>3, <3>5, SequenceIs
    <3>8. \A p \in Range(t) : \E q \in Range(s) : p = StructPart(c, q)
      BY <3>5, <3>6 DEF Range
    <3> QED BY <1>3, <2>1, <2>3, <3>1, <3>7, <3>8 DEF ComesFrom, s
  <2> QED BY <2>2, <2>3
<1>4. c.node \in {"group", "data", "field"}
  BY DEF Child
<1> QED BY <1>1, <1>2, <1>3, <1>4

Node == [kind : {"component", "group", "message"}, name : STRING, in : Nat, children : Seq(Child)]

LEMMA RecordParts ==
    ASSUME PartsTyped, NEW node \in Node
    PROVE  /\ Record(node).parts \in Seq(PartType)
           /\ Record(node).name = node.name /\ Record(node).kind = node.kind
           /\ \A p \in Range(Record(node).parts) : \E c \in Range(node.children) : ComesFrom(p, c)
           /\ \A c \in Range(node.children) :
                 c.node = "data" => DataPart(c) \in Range(Record(node).parts)
<1> DEFINE cs == node.children
           ss == [k \in DOMAIN cs |-> Entries(cs[k]).parts]
           s  == FlattenSeq(ss)
<1>1. Record(node).parts = s /\ Record(node).name = node.name /\ Record(node).kind = node.kind
  BY DEF Record, processFields
<1>2. cs \in Seq(Child)
  BY DEF Node
<1> HIDE DEF cs
<1>3. DOMAIN cs = 1 .. Len(cs) /\ Len(cs) \in Nat /\ \A k \in DOMAIN cs : cs[k] \in Child
  BY <1>2, SequenceParts
<1>4. \A k \in DOMAIN cs : /\ Entries(cs[k]).parts \in Seq(PartType)
                           /\ \A p \in Range(Entries(cs[k]).parts) : ComesFrom(p, cs[k])
                           /\ cs[k].node = "data" => DataPart(cs[k]) \in Range(Entries(cs[k]).parts)
  BY <1>3, EntriesParts
<1>5. ss \in [1 .. Len(cs) -> Seq(PartType)] /\ DOMAIN ss = DOMAIN cs
  BY <1>3, <1>4
<1>6. \A k \in DOMAIN ss : ss[k] = Entries(cs[k]).parts
  OBVIOUS
<1> HIDE DEF ss
<1>7. ss \in Seq(Seq(PartType))
  BY <1>3, <1>5, SequenceIs
<1>8. s \in Seq(PartType) /\ \A x : x \in Range(s) <=> \E k \in DOMAIN ss : x \in Range(ss[k])
  BY <1>7, RangeFlattened
<1> HIDE DEF s
<1>9. ASSUME NEW p \in Range(s) PROVE \E c \in Range(cs) : ComesFrom(p, c)
  <2>1. PICK k \in DOMAIN ss : p \in Range(ss[k])
    BY <1>8
  <2>2. ComesFrom(p, cs[k]) /\ cs[k] \in Range(cs)
    BY <1>4, <1>5, <1>6, <2>1 DEF Range
  <2> QED BY <2>2
<1>10. ASSUME NEW c \in Range(cs), c.node = "data" PROVE DataPart(c) \in Range(s)
  <2>1. PICK k \in DOMAIN cs : c = cs[k]
    BY DEF Range
  <2>2. DataPart(c) \in Range(ss[k]) /\ k \in DOMAIN ss
    BY <1>4, <1>5, <1>6, <1>10, <2>1
  <2> QED BY <1>8, <2>2
<1> QED BY <1>1, <1>8, <1>9, <1>10 DEF cs

-----------------------------------------------------------------------------
(***************************************************************************)
(* The records of a run.                                                   *)
(***************************************************************************)
NodeOf(w, i) == specs[w].records[i]

\* A record was made from a node: its data fields are those of the node itself.
MadeFrom(record, node) ==
    /\ record.name = node.name /\ record.kind = node.kind
    /\ \A c \in Range(node.children) : c.node = "data" => DataPart(c) \in Range(record.parts)
    /\ \A p \in Range(record.parts) :
          p.category = "Data" => \E c \in Range(node.children) : c.node = "data" /\ p = DataPart(c)

Known(name) == \E j \in DOMAIN listed : listed[j].name = name

RecordsInv ==
    /\ PartsTyped
    /\ IsSequence(listed)
    /\ \A w \in Files : \A i \in 1 .. Count(specs[w]) :
          Done(Item(w, "record", i)) => NodeOf(w, i).name \in DOMAIN byType
    /\ \A n \in DOMAIN byType :
          /\ byType[n].name = n
          /\ \E w \in Files : \E i \in 1 .. Count(specs[w]) : MadeFrom(byType[n], NodeOf(w, i))
          /\ byType[n].kind # "component" => \E j \in DOMAIN listed : listed[j] = byType[n]
    /\ \A j \in DOMAIN listed :
          /\ listed[j].kind # "component" /\ listed[j].name \in DOMAIN byType
          /\ listed[j] = byType[listed[j].name]

\* The member is known, and stands for a decoder, or a data field.
MemberKnown(p) ==
    IF p.category = "Data" THEN p.type = "Data" ELSE p.type = p.name /\ Known(p.name)

MembersInv ==
    /\ \A n \in DOMAIN byType : \A p \in Range(byType[n].parts) : MemberKnown(p)
    /\ MembersFirst

LEMMA NodeIs ==
    ASSUME NEW s \in Specifications, NEW w \in Files
    PROVE  /\ IsFile(s[w])
           /\ \A i \in 1 .. Count(s[w]) :
                 s[w].records[i] \in Node /\ s[w].records[i] \in Range(s[w].records)
<1>1. IsFile(s[w])
  BY SpecificationAssumption DEF IsFile
<1> DEFINE spec == s[w]
<1>2. IsFile(spec)
  BY <1>1
<1> HIDE DEF spec
<1>3. DOMAIN spec.records = 1 .. Count(spec) /\ \A i \in 1 .. Count(spec) : spec.records[i] \in Node
  BY <1>2, RecordsAre DEF Node
<1> QED BY <1>1, <1>3 DEF spec, Range

\* Whatever a node's parts come from, a data part is its own.
LEMMA RecordMade ==
    ASSUME RecordsInv, NEW node \in Node
    PROVE  /\ MadeFrom(Record(node), node) /\ Record(node).parts \in Seq(PartType)
           /\ \A p \in Range(Record(node).parts) : \E c \in Range(node.children) : ComesFrom(p, c)
<1>1. PartsTyped
  BY DEF RecordsInv
<1>2. /\ Record(node).parts \in Seq(PartType)
      /\ Record(node).name = node.name /\ Record(node).kind = node.kind
      /\ \A p \in Range(Record(node).parts) : \E c \in Range(node.children) : ComesFrom(p, c)
      /\ \A c \in Range(node.children) :
            c.node = "data" => DataPart(c) \in Range(Record(node).parts)
  BY <1>1, RecordParts
<1>3. ASSUME NEW p \in Range(Record(node).parts), p.category = "Data"
      PROVE  \E c \in Range(node.children) : c.node = "data" /\ p = DataPart(c)
  <2>1. PICK c \in Range(node.children) : ComesFrom(p, c)
    BY <1>2
  <2>2. p # GroupPart(c) /\ \A q : p # StructPart(c, q)
    BY <1>3 DEF GroupPart, StructPart, PartOf
  <2> QED BY <2>1, <2>2 DEF ComesFrom
<1> QED BY <1>2, <1>3 DEF MadeFrom

\* The groups in a record were made before it, and no component has taken the name.
LEMMA GroupsKnown ==
    ASSUME PlanInv, RecordsInv, NEW w \in Files, NEW i \in 1 .. Count(specs[w]),
           \A j \in Range(GroupsIn(specs[w], i)) : Done(Item(w, "record", j)),
           NEW c \in Range(NodeOf(w, i).children), c.node = "group"
    PROVE  Known(c.name)
<1> DEFINE spec == specs[w]
<1>1. specs \in Specifications
  BY DEF PlanInv
<1>2. IsFile(spec) /\ DOMAIN spec.records = 1 .. Count(spec) /\ Count(spec) \in Nat
  <2>1. IsFile(spec)
    BY <1>1, NodeIs
  <2> HIDE DEF spec
  <2> QED BY <2>1, RecordsAre
<1>3. PICK j \in 1 .. Count(spec) :
          spec.records[j].in = i /\ spec.records[j].kind = "group" /\ spec.records[j].name = c.name
  <2>1. i \in DOMAIN spec.records /\ c \in Range(spec.records[i].children)
    BY <1>2 DEF NodeOf
  <2> HIDE DEF spec
  <2> QED BY <1>2, <2>1 DEF IsFile, GroupNodesIn
<1>4. j \in Range(GroupsIn(spec, i))
  <2>1. i \in Nat
    BY <1>2
  <2> HIDE DEF spec
  <2> QED BY <1>2, <1>3, <2>1, GroupsInAre
<1>5. c.name \in DOMAIN byType
  <2>1. Done(Item(w, "record", j))
    BY <1>4
  <2> QED BY <1>3, <2>1 DEF RecordsInv, NodeOf
<1>6. PICK v \in Files : \E k \in 1 .. Count(specs[v]) : MadeFrom(byType[c.name], NodeOf(v, k))
  BY <1>5 DEF RecordsInv
<1>7. PICK k \in 1 .. Count(specs[v]) : MadeFrom(byType[c.name], NodeOf(v, k))
  BY <1>6
<1>8. NodeOf(v, k).name = c.name /\ NodeOf(v, k).kind = byType[c.name].kind
  BY <1>5, <1>7 DEF MadeFrom, RecordsInv
<1>9. NodeOf(v, k) \in Range(specs[v].records) /\ NodeOf(w, j) \in Range(specs[w].records)
  BY <1>1, <1>3, NodeIs DEF NodeOf
<1>10. byType[c.name].kind # "component"
  <2>1. NodeOf(w, j).kind = "group" => NodeOf(v, k).kind # "component" \/ NodeOf(v, k).name # NodeOf(w, j).name
    BY <1>1, <1>9, MembersAssumption
  <2> QED BY <1>3, <1>8, <2>1 DEF NodeOf
<1>11. PICK l \in DOMAIN listed : listed[l] = byType[c.name]
  BY <1>5, <1>10 DEF RecordsInv
<1> QED BY <1>5, <1>11 DEF Known, RecordsInv

\* Every member of the next record is known.
LEMMA MembersOfRecord ==
    ASSUME PlanInv, RecordsInv, MembersInv, NEW w \in Files, NEW i \in 1 .. Count(specs[w]),
           \A j \in Range(GroupsIn(specs[w], i)) : Done(Item(w, "record", j)),
           NEW p \in Range(Record(NodeOf(w, i)).parts)
    PROVE  MemberKnown(p)
<1> DEFINE node == NodeOf(w, i)
<1>1. specs \in Specifications
  BY DEF PlanInv
<1>2. node \in Node /\ node \in Range(specs[w].records)
  BY <1>1, NodeIs DEF NodeOf
<1>3. PICK c \in Range(node.children) : ComesFrom(p, c)
  <2> HIDE DEF node
  <2> QED BY <1>2, RecordMade DEF node
<1>4. CASE c.node = "group" /\ p = GroupPart(c)
  <2>1. Known(c.name)
    BY <1>4, GroupsKnown
  <2>2. p.category = "Group" /\ p.type = p.name /\ p.name = c.name
    BY <1>4 DEF GroupPart, PartOf
  <2> QED BY <2>1, <2>2 DEF MemberKnown
<1>5. CASE c.node = "data" /\ p = DataPart(c)
  <2>1. p.category = "Data" /\ p.type = "Data"
    BY <1>5 DEF DataPart, PartOf
  <2> QED BY <2>1 DEF MemberKnown
<1>6. CASE /\ c.node = "field" /\ c.type \in DOMAIN byType
           /\ \E q \in Range(byType[c.type].parts) : p = StructPart(c, q)
  <2>1. PICK q \in Range(byType[c.type].parts) : p = StructPart(c, q)
    BY <1>6
  <2>2. PICK v \in Files : \E k \in 1 .. Count(specs[v]) : MadeFrom(byType[c.type], NodeOf(v, k))
    BY <1>6 DEF RecordsInv
  <2>3. PICK k \in 1 .. Count(specs[v]) : MadeFrom(byType[c.type], NodeOf(v, k))
    BY <2>2
  <2>4. NodeOf(v, k).name = c.type
    BY <1>6, <2>3 DEF MadeFrom, RecordsInv
  <2>5. NodeOf(v, k) \in Range(specs[v].records)
    BY <1>1, <2>3, NodeIs DEF NodeOf
  <2>6. \A d \in Range(NodeOf(v, k).children) : d.node # "data"
    <3> DEFINE other == NodeOf(v, k)
    <3> HIDE DEF other
    <3>1. other \in Range(specs[v].records) /\ c.type = other.name /\ c.node = "field"
      BY <1>6, <2>4, <2>5 DEF other
    <3> HIDE DEF node
    <3>2. \A d \in Range(other.children) : d.node # "data"
      BY <1>1, <1>2, <1>3, <3>1, MembersAssumption
    <3> QED BY <3>2 DEF other
  <2>7. q.category # "Data"
    BY <2>3, <2>6 DEF MadeFrom
  <2>8. q.type = q.name /\ Known(q.name)
    BY <1>6, <2>7 DEF MembersInv, MemberKnown
  <2>9. p.category = "Struct" /\ p.type = p.name /\ p.name = q.name
    BY <2>1 DEF StructPart, PartOf
  <2> QED BY <2>8, <2>9 DEF MemberKnown
<1> QED BY <1>3, <1>4, <1>5, <1>6 DEF ComesFrom

-----------------------------------------------------------------------------
(***************************************************************************)
(* What every step keeps.                                                  *)
(***************************************************************************)
LEMMA SequenceAppended ==
    ASSUME NEW s, IsSequence(s), NEW r
    PROVE  /\ IsSequence(Append(s, r)) /\ Len(s) \in Nat /\ DOMAIN s = 1 .. Len(s)
           /\ DOMAIN Append(s, r) = 1 .. Len(s) + 1
           /\ Append(s, r)[Len(s) + 1] = r
           /\ \A i \in DOMAIN s : Append(s, r)[i] = s[i]
<1>1. PICK S : s \in Seq(S)
  BY DEF IsSequence
<1> DEFINE T == S \union {r}
<1>2. s \in Seq(T) /\ r \in T
  BY <1>1
<1> HIDE DEF T
<1>3. Append(s, r) \in Seq(T)
  BY <1>2
<1> QED BY <1>2, <1>3 DEF IsSequence

\* What is done grows by the node that was next.
LEMMA DoneGrows ==
    ASSUME PlanInv, Plan' = Plan, done' = done + 1
    PROVE  \A y : Done(y)' <=> Done(y) \/ y = Plan[done + 1]
<1>1. done \in Nat
  BY PlanIs
<1>2. 1 .. done + 1 = (1 .. done) \union {done + 1}
  BY <1>1
<1> QED BY <1>2 DEF Done

\* A node that is no record leaves the records alone.
LEMMA RecordsStay ==
    ASSUME PlanInv, RecordsInv, MembersInv, todo # <<>>, Head(todo).node # "record",
           todo' = Tail(todo), outcome = "running",
           UNCHANGED <<specs, byType, listed, outcome>>
    PROVE  PlanInv' /\ RecordsInv' /\ MembersInv'
<1>1. PlanInv' /\ Plan' = Plan /\ done' = done + 1
  BY PlanGoesOn
<1>2. ASSUME NEW w \in Files, NEW i \in 1 .. Count(specs[w]), Done(Item(w, "record", i))'
      PROVE  NodeOf(w, i).name \in DOMAIN byType
  <2>1. Plan[done + 1].node # "record"
    BY HeadIs
  <2>2. Item(w, "record", i) # Plan[done + 1]
    BY <2>1 DEF Item
  <2>3. Done(Item(w, "record", i))
    BY <1>1, <1>2, <2>2, DoneGrows
  <2> QED BY <2>3 DEF RecordsInv
<1>3. RecordsInv'
  BY <1>2 DEF RecordsInv, PartsTyped, NodeOf
<1>4. MembersInv'
  BY DEF MembersInv, MemberKnown, Known, MembersFirst
<1> QED BY <1>1, <1>3, <1>4

LEMMA RecordAdded ==
    ASSUME PlanInv, RecordsInv, MembersInv, AddRecord
    PROVE  PlanInv' /\ RecordsInv' /\ MembersInv'
<1> DEFINE x    == Head(todo)
           w    == x.spec
           i    == x.index
           node == NodeOf(w, i)
           r    == Record(node)
<1>1. /\ todo # <<>> /\ outcome = "running" /\ x.node = "record" /\ todo' = Tail(todo)
      /\ UNCHANGED <<specs, outcome>>
  BY DEF AddRecord, Processes
<1>2. /\ byType' = Emplaced(byType, node.name, r)
      /\ listed' = IF node.name \in DOMAIN byType \/ node.kind = "component" THEN listed
                   ELSE Append(listed, r)
  BY DEF AddRecord, NodeOf
<1>3. PlanInv' /\ Plan' = Plan /\ done' = done + 1
  BY <1>1, PlanGoesOn
<1>4. /\ x \in Items /\ x = Plan[done + 1] /\ i \in 1 .. Count(specs[w])
      /\ \A j \in Range(GroupsIn(specs[w], i)) : Done(Item(w, "record", j))
  BY <1>1, HeadIs DEF Listed
<1>5. w \in Files /\ specs \in Specifications
  BY <1>4 DEF Items, PlanInv
<1> HIDE DEF x, w, i
<1>6. node \in Node
  BY <1>4, <1>5, NodeIs DEF NodeOf
<1>7. \A p \in Range(r.parts) : MemberKnown(p)
  BY <1>4, <1>5, MembersOfRecord
<1>8. \A v \in Files : \A k \in 1 .. Count(specs[v]) :
          Done(Item(v, "record", k))' => Done(Item(v, "record", k)) \/ Item(v, "record", k) = x
  BY <1>3, <1>4, DoneGrows
<1>9. \A v, k : Item(v, "record", k) = x => v = w /\ k = i
  BY DEF Item, w, i
<1> HIDE DEF node
<1>10. MadeFrom(r, node) /\ r.parts \in Seq(PartType) /\ r.name = node.name /\ r.kind = node.kind
  BY <1>6, RecordMade DEF MadeFrom
<1> HIDE DEF r
<1>11. CASE node.name \in DOMAIN byType
  <2>1. byType' = byType /\ listed' = listed
    BY <1>2, <1>11 DEF Emplaced
  <2>2. ASSUME NEW v \in Files, NEW k \in 1 .. Count(specs[v]), Done(Item(v, "record", k))'
        PROVE  NodeOf(v, k).name \in DOMAIN byType
    BY <1>8, <1>9, <1>11, <2>2 DEF RecordsInv, node
  <2>3. RecordsInv'
    BY <1>1, <2>1, <2>2 DEF RecordsInv, PartsTyped, NodeOf
  <2>4. MembersInv'
    BY <2>1 DEF MembersInv, MemberKnown, Known, MembersFirst
  <2> QED BY <1>3, <2>3, <2>4
<1>12. CASE node.name \notin DOMAIN byType
  <2>1. /\ DOMAIN byType' = DOMAIN byType \union {node.name} /\ byType'[node.name] = r
        /\ \A n \in DOMAIN byType : byType'[n] = byType[n] /\ n # node.name
    BY <1>2, <1>12 DEF Emplaced
  <2>2. IsSequence(listed) /\ Len(listed) \in Nat /\ DOMAIN listed = 1 .. Len(listed)
    BY SequenceAppended DEF RecordsInv
  <2>3. /\ IsSequence(listed')
        /\ DOMAIN listed \subseteq DOMAIN listed'
        /\ \A j \in DOMAIN listed : listed'[j] = listed[j]
        /\ \A j \in DOMAIN listed' \ DOMAIN listed :
              /\ j = Len(listed) + 1 /\ listed'[j] = r /\ node.kind # "component"
        /\ node.kind # "component" =>
              Len(listed) + 1 \in DOMAIN listed' /\ listed'[Len(listed) + 1] = r
    <3>1. CASE node.kind = "component"
      <4>1. listed' = listed
        BY <1>2, <3>1
      <4> QED BY <2>2, <3>1, <4>1
    <3>2. CASE node.kind # "component"
      <4> DEFINE more == Append(listed, r)
      <4>1. listed' = more
        BY <1>2, <1>12, <3>2
      <4>2. /\ IsSequence(more) /\ DOMAIN more = 1 .. Len(listed) + 1
            /\ more[Len(listed) + 1] = r /\ \A j \in DOMAIN listed : more[j] = listed[j]
        BY <2>2, SequenceAppended
      <4> HIDE DEF more
      <4> QED BY <2>2, <3>2, <4>1, <4>2
    <3> QED BY <3>1, <3>2
  <2>4. ASSUME NEW v \in Files, NEW k \in 1 .. Count(specs[v]), Done(Item(v, "record", k))'
        PROVE  NodeOf(v, k).name \in DOMAIN byType'
    BY <1>8, <1>9, <2>1, <2>4 DEF RecordsInv, node
  <2>5. ASSUME NEW n \in DOMAIN byType'
        PROVE  /\ byType'[n].parts \in Seq(PartType) /\ byType'[n].name = n
               /\ \E v \in Files : \E k \in 1 .. Count(specs[v]) : MadeFrom(byType'[n], NodeOf(v, k))
               /\ byType'[n].kind # "component" => \E j \in DOMAIN listed' : listed'[j] = byType'[n]
    <3>1. CASE n \in DOMAIN byType
      <4>1. /\ byType[n].parts \in Seq(PartType) /\ byType[n].name = n
            /\ \E v \in Files : \E k \in 1 .. Count(specs[v]) : MadeFrom(byType[n], NodeOf(v, k))
            /\ byType[n].kind # "component" => \E j \in DOMAIN listed : listed[j] = byType[n]
        BY <3>1 DEF RecordsInv, PartsTyped
      <4> QED BY <2>1, <2>3, <3>1, <4>1
    <3>2. CASE n = node.name
      <4>1. byType'[n] = r
        BY <2>1, <3>2
      <4>2. MadeFrom(r, NodeOf(w, i))
        BY <1>10 DEF node
      <4> QED BY <1>4, <1>5, <1>10, <2>3, <3>2, <4>1, <4>2
    <3> QED BY <2>1, <3>1, <3>2
  <2>6. ASSUME NEW j \in DOMAIN listed'
        PROVE  /\ listed'[j].kind # "component" /\ listed'[j].name \in DOMAIN byType'
               /\ listed'[j] = byType'[listed'[j].name]
    <3>1. CASE j \in DOMAIN listed
      BY <2>1, <2>3, <3>1 DEF RecordsInv
    <3>2. CASE j \notin DOMAIN listed
      BY <1>10, <2>1, <2>3, <3>2
    <3> QED BY <3>1, <3>2
  <2>7. RecordsInv'
    BY <1>1, <2>3, <2>4, <2>5, <2>6 DEF RecordsInv, PartsTyped, NodeOf
  <2>8. ASSUME NEW p, MemberKnown(p) PROVE MemberKnown(p)'
    BY <2>3, <2>8 DEF MemberKnown, Known
  <2>9. ASSUME NEW n \in DOMAIN byType', NEW p \in Range(byType'[n].parts) PROVE MemberKnown(p)'
    <3>1. CASE n \in DOMAIN byType
      <4>1. MemberKnown(p)
        BY <2>1, <2>9, <3>1 DEF MembersInv
      <4> QED BY <2>8, <4>1
    <3>2. CASE n = node.name
      <4>1. MemberKnown(p)
        BY <1>7, <2>1, <2>9, <3>2
      <4> QED BY <2>8, <4>1
    <3> QED BY <2>1, <3>1, <3>2
  <2>10. ASSUME NEW j \in DOMAIN listed', NEW p \in Range(listed'[j].parts), p.type # "Data"
         PROVE  \E k \in 1 .. j - 1 : listed'[k].name = p.type
    <3>1. CASE j \in DOMAIN listed
      <4>1. PICK k \in 1 .. j - 1 : listed[k].name = p.type
        BY <2>3, <2>10, <3>1 DEF MembersInv, MembersFirst
      <4>2. k \in DOMAIN listed
        BY <2>2, <3>1
      <4> QED BY <2>3, <4>1, <4>2
    <3>2. CASE j \notin DOMAIN listed
      <4>1. p \in Range(r.parts) /\ j = Len(listed) + 1
        BY <2>3, <2>10, <3>2
      <4>2. MemberKnown(p)
        BY <1>7, <4>1
      <4>3. p.type = p.name /\ Known(p.name)
        BY <2>10, <4>2 DEF MemberKnown
      <4>4. PICK k \in DOMAIN listed : listed[k].name = p.type
        BY <4>3 DEF Known
      <4>5. k \in 1 .. j - 1
        BY <2>2, <4>1
      <4> QED BY <2>3, <4>4, <4>5
    <3> QED BY <3>1, <3>2
  <2>11. MembersInv'
    BY <2>9, <2>10 DEF MembersInv, MembersFirst
  <2> QED BY <1>3, <2>7, <2>11
<1> QED BY <1>11, <1>12

OutcomeInv ==
    outcome = "inconsistent" =>
        \E p, q \in collectDataFields : p.lengthTag = q.lengthTag /\ p # q

RunInv == PlanInv /\ RecordsInv /\ MembersInv /\ OutcomeInv

LEMMA RunInit == SchemaInit => RunInv
<1> SUFFICES ASSUME SchemaInit PROVE RunInv
  OBVIOUS
<1>1. byType = <<>> /\ listed = <<>> /\ outcome = "running" /\ todo = Plan /\ PlanInv
  BY PlanInit DEF SchemaInit, Plan, AllWork
<1>2. done = 0
  BY <1>1, PlanIs DEF done
<1>3. \A y : ~ Done(y)
  BY <1>2 DEF Done
<1>4. IsSequence(listed) /\ DOMAIN byType = {} /\ DOMAIN listed = {}
  BY <1>1 DEF IsSequence
<1> QED BY <1>1, <1>3, <1>4 DEF RunInv, RecordsInv, PartsTyped, MembersInv, MembersFirst, OutcomeInv

LEMMA RecordsUnchanged ==
    ASSUME RecordsInv, MembersInv, UNCHANGED <<specs, todo, byType, listed>>
    PROVE  RecordsInv' /\ MembersInv'
<1>1. done' = done /\ Plan' = Plan
  BY DEF Plan, done
<1>2. RecordsInv'
  BY <1>1 DEF RecordsInv, PartsTyped, NodeOf, Done
<1>3. MembersInv'
  BY DEF MembersInv, MemberKnown, Known, MembersFirst
<1> QED BY <1>2, <1>3

LEMMA RunNext == RunInv /\ [SchemaNext]_schema => RunInv'
<1> SUFFICES ASSUME RunInv, [SchemaNext]_schema PROVE RunInv'
  OBVIOUS
<1>1. PlanInv /\ RecordsInv /\ MembersInv /\ OutcomeInv
  BY DEF RunInv
<1>2. CASE AddEnum \/ MergeEnum \/ AddMergedEnum \/ AddType \/ MergeType
  <2>1. /\ todo # <<>> /\ Head(todo).node # "record" /\ outcome = "running"
        /\ todo' = Tail(todo) /\ UNCHANGED <<specs, byType, listed, outcome>>
    BY <1>2 DEF AddEnum, MergeEnum, AddMergedEnum, AddType, MergeType, ProcessesType, Processes
  <2> QED BY <1>1, <2>1, RecordsStay DEF RunInv, OutcomeInv
<1>3. CASE AddRecord
  <2>1. outcome' = "running"
    BY <1>3 DEF AddRecord, Processes
  <2> QED BY <1>1, <1>3, <2>1, RecordAdded DEF RunInv, OutcomeInv
<1>4. CASE RefuseNesting
  <2>1. /\ outcome' = "too deep" /\ UNCHANGED <<specs, todo, types, enums, byType, listed>>
    BY <1>4 DEF RefuseNesting
  <2>2. Plan' = Plan /\ done' = done
    BY <2>1 DEF Plan, done
  <2>3. PlanInv'
    BY <1>1, <2>1, <2>2 DEF PlanInv
  <2>4. RecordsInv' /\ MembersInv'
    BY <1>1, <2>1, RecordsUnchanged
  <2> QED BY <2>1, <2>3, <2>4 DEF RunInv, OutcomeInv
<1>5. CASE Generate
  <2>1. /\ todo = <<>> /\ UNCHANGED <<specs, todo, types, enums, byType, listed>>
        /\ outcome' = "inconsistent" =>
              \E p, q \in collectDataFields : p.lengthTag = q.lengthTag /\ p # q
    BY <1>5 DEF Generate
  <2>2. Plan' = Plan /\ done' = done /\ collectDataFields' = collectDataFields
    BY <2>1 DEF Plan, done, collectDataFields
  <2>3. PlanInv'
    BY <1>1, <2>1, <2>2 DEF PlanInv
  <2>4. RecordsInv' /\ MembersInv'
    BY <1>1, <2>1, RecordsUnchanged
  <2> QED BY <2>1, <2>2, <2>3, <2>4 DEF RunInv, OutcomeInv
<1>6. CASE UNCHANGED schema
  <2>1. UNCHANGED <<specs, todo, types, enums, byType, listed, outcome>>
    BY <1>6 DEF schema
  <2>2. Plan' = Plan /\ done' = done /\ collectDataFields' = collectDataFields
    BY <2>1 DEF Plan, done, collectDataFields
  <2>3. PlanInv' /\ OutcomeInv'
    BY <1>1, <2>1, <2>2 DEF PlanInv, OutcomeInv
  <2>4. RecordsInv' /\ MembersInv'
    BY <1>1, <2>1, RecordsUnchanged
  <2> QED BY <2>3, <2>4 DEF RunInv
<1> QED BY <1>2, <1>3, <1>4, <1>5, <1>6 DEF SchemaNext

\* Where a run is in its work; the records that are in the data model then, the nodes
\* they were made from and the decoders they have; that members are known.
THEOREM SchemaInvHolds == SchemaSpec => []RunInv
<1> QED BY RunInit, RunNext, PTL DEF SchemaSpec

\* No decoder is declared before those of the groups it has as members, whatever the
\* two specifications say and however deep the groups are nested: a group stands
\* before the record it is in, a component before what uses it, or it is left out.
THEOREM MembersAlwaysFirst == SchemaSpec => []MembersFirst
<1>1. RunInv => MembersFirst
  BY DEF RunInv, MembersInv
<1> QED BY <1>1, SchemaInvHolds, PTL

-----------------------------------------------------------------------------
(***************************************************************************)
(* The data fields.                                                        *)
(***************************************************************************)
LEMMA NodesAre ==
    ASSUME PlanInv
    PROVE  /\ \A w \in Files : \A i \in 1 .. Count(specs[w]) :
                 <<w, i>> \in Nodes /\ NodeAt(<<w, i>>) = NodeOf(w, i)
           /\ \A n \in Nodes : \E w \in Files : \E i \in 1 .. Count(specs[w]) : n = <<w, i>>
<1>1. \A w \in Files : DOMAIN specs[w].records = 1 .. Count(specs[w])
  BY NodeIs, RecordsAre DEF PlanInv
<1>2. \A w, i : NodeAt(<<w, i>>) = NodeOf(w, i)
  BY DEF NodeAt, NodeOf
<1>3. ASSUME NEW w \in Files, NEW i \in 1 .. Count(specs[w]) PROVE <<w, i>> \in Nodes
  <2>1. <<w, i>> \in {<<w, k>> : k \in DOMAIN specs[w].records}
    BY <1>1
  <2> QED BY <2>1 DEF Nodes
<1>4. ASSUME NEW n \in Nodes PROVE \E w \in Files : \E i \in 1 .. Count(specs[w]) : n = <<w, i>>
  <2>1. PICK w \in Files : n \in {<<w, i>> : i \in DOMAIN specs[w].records}
    BY DEF Nodes
  <2> QED BY <1>1, <2>1
<1> QED BY <1>2, <1>3, <1>4

\* All that is collected was declared by a node that gets a decoder.
LEMMA CollectedIsDeclared ==
    ASSUME RunInv
    PROVE  collectDataFields \subseteq UNION {DataDeclared(n) : n \in Nodes \ Components}
<1>1. PlanInv /\ RecordsInv
  BY DEF RunInv
<1> SUFFICES ASSUME NEW pair \in collectDataFields
             PROVE  \E n \in Nodes \ Components : pair \in DataDeclared(n)
  OBVIOUS
<1>2. PICK j \in DOMAIN listed : \E q \in Range(listed[j].parts) :
          q.category = "Data" /\ pair = [lengthTag |-> q.lengthTag, dataTag |-> q.tag]
  BY DEF collectDataFields
<1>3. PICK q \in Range(listed[j].parts) :
          q.category = "Data" /\ pair = [lengthTag |-> q.lengthTag, dataTag |-> q.tag]
  BY <1>2
<1> DEFINE record == listed[j]
<1>4. PICK v \in Files : \E k \in 1 .. Count(specs[v]) : MadeFrom(record, NodeOf(v, k))
  BY <1>1 DEF RecordsInv
<1>5. PICK k \in 1 .. Count(specs[v]) : MadeFrom(record, NodeOf(v, k))
  BY <1>4
<1>6. record.kind # "component"
  BY <1>1 DEF RecordsInv
<1> DEFINE n == <<v, k>>
<1>7. n \in Nodes /\ NodeAt(n) = NodeOf(v, k)
  BY <1>1, NodesAre
<1>8. NodeAt(n).kind # "component"
  BY <1>5, <1>6, <1>7 DEF MadeFrom
<1>9. n \in Nodes \ Components
  BY <1>7, <1>8 DEF Components
<1>10. PICK c \in Range(NodeOf(v, k).children) : c.node = "data" /\ q = DataPart(c)
  BY <1>3, <1>5 DEF MadeFrom
<1>11. q.lengthTag = c.lengthTag /\ q.tag = c.tag
  BY <1>10 DEF DataPart, PartOf
<1>12. pair \in DataDeclared(n)
  BY <1>3, <1>7, <1>10, <1>11 DEF DataDeclared
<1> QED BY <1>9, <1>12

\* What the only node of its name declares is collected in the end.
LEMMA DeclaredIsCollected ==
    ASSUME RunInv, todo = <<>>, NEW n \in Nodes \ Components, Named(NodeAt(n).name) = {n}
    PROVE  DataDeclared(n) \subseteq collectDataFields
<1>1. PlanInv /\ RecordsInv
  BY DEF RunInv
<1>2. PICK w \in Files : \E i \in 1 .. Count(specs[w]) : n = <<w, i>>
  BY <1>1, NodesAre
<1>3. PICK i \in 1 .. Count(specs[w]) : n = <<w, i>>
  BY <1>2
<1>4. NodeAt(n) = NodeOf(w, i)
  BY <1>1, <1>3, NodesAre
<1> DEFINE node == NodeOf(w, i)
<1>5. Done(Item(w, "record", i))
  <2>1. done = Len(Plan) /\ DOMAIN Plan = 1 .. Len(Plan)
    BY <1>1, PlanIs DEF done
  <2>2. \E q \in DOMAIN Plan : Plan[q] = Item(w, "record", i)
    BY <1>1, AllWorkIs DEF Plan, PlanInv
  <2> QED BY <2>1, <2>2 DEF Done
<1>6. node.name \in DOMAIN byType
  BY <1>1, <1>5 DEF RecordsInv
<1> DEFINE record == byType[node.name]
<1>7. PICK v \in Files : \E k \in 1 .. Count(specs[v]) : MadeFrom(record, NodeOf(v, k))
  BY <1>1, <1>6 DEF RecordsInv
<1>8. PICK k \in 1 .. Count(specs[v]) : MadeFrom(record, NodeOf(v, k))
  BY <1>7
<1>9. NodeOf(v, k) = node
  <2>1. NodeOf(v, k).name = node.name
    BY <1>1, <1>6, <1>8 DEF MadeFrom, RecordsInv
  <2>2. <<v, k>> \in Nodes /\ NodeAt(<<v, k>>) = NodeOf(v, k)
    BY <1>1, NodesAre
  <2>3. <<v, k>> \in Named(NodeAt(n).name)
    BY <1>4, <2>1, <2>2 DEF Named
  <2>4. <<v, k>> = n
    BY <2>3
  <2> QED BY <1>4, <2>2, <2>4
<1>10. node.kind # "component"
  BY <1>4 DEF Components
<1> HIDE DEF node
<1>11. MadeFrom(record, node) /\ record.kind # "component"
  BY <1>8, <1>9, <1>10 DEF MadeFrom
<1>12. PICK j \in DOMAIN listed : listed[j] = record
  BY <1>1, <1>6, <1>11 DEF RecordsInv
<1>13. ASSUME NEW c \in Range(node.children), c.node = "data"
       PROVE  [lengthTag |-> c.lengthTag, dataTag |-> c.tag] \in collectDataFields
  <2> DEFINE p == DataPart(c)
  <2>1. p \in Range(listed[j].parts)
    BY <1>11, <1>12, <1>13 DEF MadeFrom
  <2>2. p.category = "Data" /\ p.lengthTag = c.lengthTag /\ p.tag = c.tag
    BY DEF DataPart, PartOf
  <2> HIDE DEF p
  <2> QED BY <2>1, <2>2 DEF collectDataFields
<1>14. NodeAt(n) = node
  BY <1>4 DEF node
<1> QED BY <1>13, <1>14 DEF DataDeclared

\* The decoder is told of the data fields the files declare, and of no others, whatever
\* the specifications are; and a run that ends because of a length tag with two data
\* tags ends because the files declare one.
THEOREM DataFieldsAlwaysKnown == SchemaSpec => []DataFieldsKnown
<1>1. ASSUME RunInv PROVE DataFieldsKnown
  <2> DEFINE pairs == UNION {DataDeclared(n) : n \in Nodes \ Components}
             Ambiguous(p) == \E q \in pairs : q.lengthTag = p.lengthTag /\ q # p
  <2>1. PlanInv /\ OutcomeInv
    BY <1>1 DEF RunInv
  <2>2. collectDataFields \subseteq pairs
    BY <1>1, CollectedIsDeclared
  <2> HIDE DEF pairs
  <2>3. ASSUME outcome = "generated", NEW n \in Nodes \ Components, Named(NodeAt(n).name) = {n}
        PROVE  DataDeclared(n) \subseteq collectDataFields
    <3>1. todo = <<>>
      BY <2>1, <2>3 DEF PlanInv
    <3> QED BY <1>1, <2>3, <3>1, DeclaredIsCollected
  <2>4. ASSUME outcome = "inconsistent" PROVE \E p \in pairs : Ambiguous(p)
    <3>1. PICK p \in collectDataFields : \E q \in collectDataFields :
              p.lengthTag = q.lengthTag /\ p # q
      BY <2>1, <2>4 DEF OutcomeInv
    <3> QED BY <2>2, <3>1
  <2> QED BY <2>2, <2>3, <2>4 DEF DataFieldsKnown, pairs
<1> QED BY <1>1, SchemaInvHolds, PTL

-----------------------------------------------------------------------------
(***************************************************************************)
(* The codes of the session's enumerators.                                 *)
(***************************************************************************)
NullEntry == [name |-> "Null", value |-> <<"?">>]
Entry     == Element \union {NullEntry}
EnumType  == [name : STRING, elements : Seq(Entry)]
Enum      == [node : {"enum"}, name : STRING, elements : Seq(Element)]

SessionTypes == specs["session"].types
SessionEnums == EnumNodes(specs["session"])

StartsWith(s, t) == Len(t) <= Len(s) /\ \A k \in 1 .. Len(t) : s[k] = t[k]

\* An enumeration of the session's, once it is done, is there, and whatever has its
\* name starts with the session's entries.
CodesInv ==
    /\ enums \in Seq(EnumType)
    /\ \A i \in SessionEnums :
          Done(Item("session", "type", i)) =>
              \E m \in DOMAIN enums : enums[m].name = SessionTypes[i].name
    /\ \A m \in DOMAIN enums, i \in SessionEnums :
          enums[m].name = SessionTypes[i].name =>
              StartsWith(enums[m].elements, Elements(SessionTypes[i]))

LEMMA EnumIs ==
    ASSUME NEW s \in Specifications, NEW w \in Files, NEW i \in EnumNodes(s[w])
    PROVE  i \in DOMAIN s[w].types /\ s[w].types[i] \in Enum
<1> DEFINE ts == s[w].types
<1>1. s[w] \in Specification
  BY NodeIs DEF IsFile
<1>2. ts \in Seq(TypeNode)
  BY <1>1 DEF Specification
<1>3. i \in DOMAIN ts /\ ts[i].node = "enum"
  BY DEF EnumNodes
<1> HIDE DEF ts
<1>4. ts[i] \in TypeNode
  BY <1>2, <1>3, SequenceParts
<1>5. ts[i] \in Enum
  BY <1>3, <1>4 DEF TypeNode, Enum
<1> QED BY <1>3, <1>5 DEF ts

LEMMA ElementsAre ==
    ASSUME NEW e \in Enum
    PROVE  /\ Elements(e) \in Seq(Entry) /\ Len(e.elements) \in Nat
           /\ Len(Elements(e)) = Len(e.elements) + 1 /\ Elements(e)[1] = NullEntry
           /\ \A k \in 1 .. Len(e.elements) : Elements(e)[k + 1] = e.elements[k]
<1> DEFINE t == e.elements
<1>1. t \in Seq(Entry)
  <2>1. t \in Seq(Element)
    BY DEF Enum
  <2> HIDE DEF t
  <2> QED BY <2>1 DEF Entry
<1>2. <<NullEntry>> \in Seq(Entry)
  BY DEF Entry
<1>3. Elements(e) = <<NullEntry>> \o t
  BY DEF Elements, NullEntry
<1> HIDE DEF t
<1>4. /\ <<NullEntry>> \o t \in Seq(Entry) /\ Len(t) \in Nat
      /\ Len(<<NullEntry>> \o t) = Len(t) + 1 /\ (<<NullEntry>> \o t)[1] = NullEntry
      /\ \A k \in 1 .. Len(t) : (<<NullEntry>> \o t)[k + 1] = t[k]
  BY <1>1, <1>2
<1> QED BY <1>3, <1>4 DEF t

\* Merged entries stand behind those that were there.
LEMMA MergedIs ==
    ASSUME NEW s \in Seq(Entry), NEW added \in Seq(Element)
    PROVE  /\ Merged(s, added) \in Seq(Entry) /\ Len(s) \in Nat
           /\ Len(s) <= Len(Merged(s, added)) /\ \A k \in 1 .. Len(s) : Merged(s, added)[k] = s[k]
<1> DEFINE New(k) == ~ (\/ \E i \in DOMAIN s : s[i].name = added[k].name
                        \/ \E i \in 1 .. k - 1 : added[i].name = added[k].name)
           ss == [k \in DOMAIN added |-> IF New(k) THEN <<added[k]>> ELSE <<>>]
           more == FlattenSeq(ss)
<1>1. DOMAIN added = 1 .. Len(added) /\ Len(added) \in Nat
      /\ \A k \in DOMAIN added : added[k] \in Entry
  BY SequenceParts DEF Entry
<1>2. ss \in Seq(Seq(Entry))
  <2>1. \A k \in DOMAIN added : <<added[k]>> \in Seq(Entry)
    BY <1>1
  <2> HIDE DEF New
  <2>2. ss \in [1 .. Len(added) -> Seq(Entry)]
    BY <1>1, <2>1
  <2> HIDE DEF ss
  <2> QED BY <1>1, <2>2, SequenceIs
<1>3. Merged(s, added) = s \o more
  <2>1. ss = [k \in DOMAIN added |->
                  IF \/ \E i \in DOMAIN s : s[i].name = added[k].name
                     \/ \E i \in 1 .. k - 1 : added[i].name = added[k].name
                  THEN <<>> ELSE <<added[k]>>]
    OBVIOUS
  <2> HIDE DEF ss
  <2> QED BY <2>1 DEF Merged
<1> HIDE DEF ss
<1>4. more \in Seq(Entry)
  BY <1>2, RangeFlattened
<1> HIDE DEF more
<1>5. /\ s \o more \in Seq(Entry) /\ Len(s) \in Nat /\ Len(more) \in Nat
      /\ Len(s \o more) = Len(s) + Len(more) /\ \A k \in 1 .. Len(s) : (s \o more)[k] = s[k]
  BY <1>4, JoinedIs
<1>6. Len(s) <= Len(s \o more)
  BY <1>5
<1> QED BY <1>3, <1>5, <1>6

LEMMA CodesInit == SchemaInit => CodesInv
<1> SUFFICES ASSUME SchemaInit PROVE CodesInv
  OBVIOUS
<1>1. enums = <<>> /\ todo = Plan /\ PlanInv
  BY PlanInit DEF SchemaInit, Plan, AllWork
<1>2. done = 0
  BY <1>1, PlanIs DEF done
<1>3. \A y : ~ Done(y)
  BY <1>2 DEF Done
<1>4. enums \in Seq(EnumType) /\ DOMAIN enums = {}
  BY <1>1
<1> QED BY <1>3, <1>4 DEF CodesInv

\* A step that is no session's enumeration, and leaves the enumerations alone.
LEMMA CodesStay ==
    ASSUME PlanInv, CodesInv, UNCHANGED <<specs, enums>>,
           \A i \in SessionEnums :
               Done(Item("session", "type", i))' => Done(Item("session", "type", i))
    PROVE  CodesInv'
BY DEF CodesInv, SessionTypes, SessionEnums

\* An enumeration is added: the session's own, or one no enumeration of the session's
\* shares its name with.
LEMMA EnumAdded ==
    ASSUME PlanInv, CodesInv, specs' = specs, NEW e \in Enum,
           enums' = Append(enums, [name |-> e.name, elements |-> Elements(e)]),
           \A i \in SessionEnums :
               /\ SessionTypes[i].name = e.name => SessionTypes[i] = e
               /\ Done(Item("session", "type", i))' =>
                     Done(Item("session", "type", i)) \/ SessionTypes[i] = e
    PROVE  CodesInv'
<1> DEFINE n   == Len(enums)
           new == [name |-> e.name, elements |-> Elements(e)]
<1>1. new \in EnumType /\ new.name = e.name /\ new.elements = Elements(e)
  <2>1. e.name \in STRING /\ Elements(e) \in Seq(Entry)
    BY ElementsAre DEF Enum
  <2> QED BY <2>1 DEF EnumType
<1>2. enums' = Append(enums, new) /\ enums \in Seq(EnumType)
  BY DEF CodesInv
<1> HIDE DEF new
<1>3. /\ enums' \in Seq(EnumType) /\ n \in Nat /\ DOMAIN enums = 1 .. n /\ DOMAIN enums' = 1 .. n + 1
      /\ enums'[n + 1] = new /\ \A m \in 1 .. n : enums'[m] = enums[m]
  BY <1>1, <1>2
<1> HIDE DEF n
<1>4. SessionTypes' = SessionTypes /\ SessionEnums' = SessionEnums
  BY DEF SessionTypes, SessionEnums
<1>5. ASSUME NEW i \in SessionEnums, Done(Item("session", "type", i))'
      PROVE  \E m \in DOMAIN enums' : enums'[m].name = SessionTypes[i].name
  <2>1. CASE SessionTypes[i] = e
    <3>1. n + 1 \in DOMAIN enums' /\ enums'[n + 1].name = SessionTypes[i].name
      BY <1>1, <1>3, <2>1
    <3> QED BY <3>1
  <2>2. CASE Done(Item("session", "type", i))
    <3>1. PICK m \in DOMAIN enums : enums[m].name = SessionTypes[i].name
      BY <2>2 DEF CodesInv
    <3>2. m \in DOMAIN enums' /\ enums'[m] = enums[m]
      BY <1>3
    <3> QED BY <3>1, <3>2
  <2> QED BY <1>5, <2>1, <2>2
<1>6. ASSUME NEW m \in DOMAIN enums', NEW i \in SessionEnums,
             enums'[m].name = SessionTypes[i].name
      PROVE  StartsWith(enums'[m].elements, Elements(SessionTypes[i]))
  <2>1. CASE m \in 1 .. n
    BY <1>3, <1>6, <2>1 DEF CodesInv
  <2>2. CASE m = n + 1
    <3>1. SessionTypes[i] = e
      BY <1>1, <1>3, <1>6, <2>2
    <3>2. enums'[m].elements = Elements(SessionTypes[i])
      BY <1>1, <1>3, <2>2, <3>1
    <3>3. Len(Elements(e)) \in Nat
      BY ElementsAre
    <3> QED BY <3>1, <3>2, <3>3 DEF StartsWith
  <2> QED BY <1>3, <2>1, <2>2
<1> QED BY <1>3, <1>4, <1>5, <1>6 DEF CodesInv

\* Entries are merged into an enumeration.
LEMMA EnumMerged ==
    ASSUME PlanInv, CodesInv, specs' = specs, NEW e \in Enum, NEW l \in DOMAIN enums,
           enums' = [enums EXCEPT ![l].elements = Merged(@, e.elements)],
           \A i \in SessionEnums :
               Done(Item("session", "type", i))' => Done(Item("session", "type", i))
    PROVE  CodesInv'
<1> DEFINE old  == enums[l].elements
           new  == [enums[l] EXCEPT !.elements = Merged(old, e.elements)]
<1>1. /\ enums \in Seq(EnumType) /\ DOMAIN enums = 1 .. Len(enums) /\ Len(enums) \in Nat
      /\ \A m \in DOMAIN enums : enums[m] \in EnumType
  BY SequenceParts DEF CodesInv
<1>2. old \in Seq(Entry) /\ e.elements \in Seq(Element) /\ enums[l].name \in STRING
  BY <1>1 DEF EnumType, Enum
<1>3. /\ Merged(old, e.elements) \in Seq(Entry) /\ Len(old) \in Nat
      /\ Len(old) <= Len(Merged(old, e.elements))
      /\ \A k \in 1 .. Len(old) : Merged(old, e.elements)[k] = old[k]
  BY <1>2, MergedIs
<1>4. enums' = [enums EXCEPT ![l] = new]
  OBVIOUS
<1>5. new \in EnumType /\ new.name = enums[l].name /\ new.elements = Merged(old, e.elements)
  BY <1>1, <1>2, <1>3 DEF EnumType
<1> HIDE DEF new
<1>6. /\ DOMAIN enums' = DOMAIN enums /\ enums'[l] = new
      /\ \A m \in DOMAIN enums : m # l => enums'[m] = enums[m]
  BY <1>4
<1>7. enums' \in Seq(EnumType)
  <2>1. enums' \in [1 .. Len(enums) -> EnumType]
    BY <1>1, <1>4, <1>5
  <2> QED BY <1>1, <2>1, SequenceIs
<1>8. \A m \in DOMAIN enums : enums'[m].name = enums[m].name
  BY <1>5, <1>6
<1>9. SessionTypes' = SessionTypes /\ SessionEnums' = SessionEnums
  BY DEF SessionTypes, SessionEnums
<1>10. ASSUME NEW m \in DOMAIN enums, NEW i \in SessionEnums,
              enums'[m].name = SessionTypes[i].name
       PROVE  StartsWith(enums'[m].elements, Elements(SessionTypes[i]))
  <2>1. StartsWith(enums[m].elements, Elements(SessionTypes[i]))
    BY <1>8, <1>10 DEF CodesInv
  <2>2. CASE m # l
    BY <1>6, <2>1, <2>2
  <2>3. CASE m = l
    <3> DEFINE t == Elements(SessionTypes[i])
    <3>1. Len(t) \in Nat
      <4>1. SessionTypes[i] \in Enum
        BY EnumIs DEF PlanInv, SessionTypes, SessionEnums, Files
      <4>2. Elements(SessionTypes[i]) \in Seq(Entry)
        BY <4>1, ElementsAre
      <4> QED BY <4>2
    <3>2. Len(t) <= Len(old) /\ \A k \in 1 .. Len(t) : old[k] = t[k]
      BY <2>1, <2>3 DEF StartsWith
    <3> HIDE DEF t, old
    <3> DEFINE merged == Merged(old, e.elements)
    <3>3. Len(merged) \in Nat
      BY <1>3
    <3>4. Len(t) <= Len(merged) /\ \A k \in 1 .. Len(t) : merged[k] = t[k]
      <4> HIDE DEF merged
      <4>1. Len(old) <= Len(merged) /\ \A k \in 1 .. Len(old) : merged[k] = old[k]
        BY <1>3 DEF merged
      <4> QED BY <1>3, <3>1, <3>2, <3>3, <4>1
    <3>5. enums'[m].elements = merged
      BY <1>5, <1>6, <2>3
    <3> QED BY <3>4, <3>5 DEF StartsWith, t
  <2> QED BY <2>2, <2>3
<1>11. ASSUME NEW i \in SessionEnums, Done(Item("session", "type", i))'
       PROVE  \E m \in DOMAIN enums' : enums'[m].name = SessionTypes[i].name
  BY <1>6, <1>8, <1>11 DEF CodesInv
<1> QED BY <1>6, <1>7, <1>9, <1>10, <1>11 DEF CodesInv

LEMMA CodesNext == RunInv /\ CodesInv /\ [SchemaNext]_schema => CodesInv'
<1> SUFFICES ASSUME RunInv, CodesInv, [SchemaNext]_schema PROVE CodesInv'
  OBVIOUS
<1> DEFINE x == Head(todo)
<1>1. PlanInv /\ specs \in Specifications
  BY DEF RunInv, PlanInv
<1>2. ASSUME todo # <<>>, outcome = "running", todo' = Tail(todo), UNCHANGED <<specs, outcome>>
      PROVE  /\ x = Plan[done + 1] /\ x \in Items /\ Listed(specs[x.spec], x)
             /\ \A y : Done(y)' <=> Done(y) \/ y = x
  <2>1. Plan' = Plan /\ done' = done + 1
    BY <1>1, <1>2, PlanGoesOn
  <2>2. x = Plan[done + 1] /\ x \in Items /\ Listed(specs[x.spec], x)
    BY <1>1, <1>2, HeadIs
  <2> QED BY <1>1, <2>1, <2>2, DoneGrows
<1>3. CASE AddEnum
  <2> DEFINE i == x.index
             e == SessionTypes[i]
  <2>1. /\ todo # <<>> /\ outcome = "running" /\ todo' = Tail(todo) /\ UNCHANGED <<specs, outcome>>
        /\ x.node = "type" /\ x.spec = "session" /\ e.node = "enum"
        /\ enums' = Append(enums, [name |-> e.name, elements |-> Elements(e)])
    BY <1>3 DEF AddEnum, ProcessesType, Processes, Declared, SessionTypes
  <2>2. i \in SessionEnums
    BY <1>2, <2>1 DEF Listed, SessionTypes, SessionEnums, EnumNodes
  <2>3. e \in Enum
    BY <1>1, <2>2, EnumIs DEF SessionTypes, SessionEnums, Files
  <2>4. ASSUME NEW k \in SessionEnums
        PROVE  /\ SessionTypes[k].name = e.name => SessionTypes[k] = e
               /\ Done(Item("session", "type", k))' =>
                     Done(Item("session", "type", k)) \/ SessionTypes[k] = e
    <3>1. SessionTypes[k].name = e.name => k = i
      BY <1>1, <2>2, CodesAssumption DEF SessionTypes, SessionEnums
    <3>2. Item("session", "type", k) = x => k = i
      BY DEF Item
    <3> QED BY <1>2, <2>1, <3>1, <3>2
  <2> HIDE DEF x, i, e
  <2> QED BY <1>1, <2>1, <2>3, <2>4, EnumAdded
<1>4. CASE MergeEnum
  <2> DEFINE e == specs["application"].types[x.index]
  <2>1. /\ todo # <<>> /\ outcome = "running" /\ todo' = Tail(todo) /\ UNCHANGED <<specs, outcome>>
        /\ x.node = "type" /\ x.spec = "application" /\ e.node = "enum"
        /\ \E l \in DOMAIN enums : enums' = [enums EXCEPT ![l].elements = Merged(@, e.elements)]
    BY <1>4 DEF MergeEnum, ProcessesType, Processes
  <2>2. e \in Enum
    <3>1. x.index \in EnumNodes(specs["application"])
      BY <1>2, <2>1 DEF Listed, EnumNodes
    <3> QED BY <1>1, <3>1, EnumIs DEF Files
  <2>3. PICK l \in DOMAIN enums : enums' = [enums EXCEPT ![l].elements = Merged(@, e.elements)]
    BY <2>1
  <2>4. \A k : Item("session", "type", k) # x
    BY <2>1 DEF Item
  <2>5. \A k \in SessionEnums :
            Done(Item("session", "type", k))' => Done(Item("session", "type", k))
    BY <1>2, <2>1, <2>4
  <2> HIDE DEF x, e
  <2> QED BY <1>1, <2>1, <2>2, <2>3, <2>5, EnumMerged
<1>5. CASE AddMergedEnum
  <2> DEFINE e == specs["application"].types[x.index]
  <2>1. /\ todo # <<>> /\ outcome = "running" /\ todo' = Tail(todo) /\ UNCHANGED <<specs, outcome>>
        /\ x.node = "type" /\ x.spec = "application" /\ e.node = "enum"
        /\ \A m \in DOMAIN enums : enums[m].name # e.name
        /\ enums' = Append(enums, [name |-> e.name, elements |-> Elements(e)])
    BY <1>5 DEF AddMergedEnum, ProcessesType, Processes, Declared
  <2>2. e \in Enum
    <3>1. x.index \in EnumNodes(specs["application"])
      BY <1>2, <2>1 DEF Listed, EnumNodes
    <3> QED BY <1>1, <3>1, EnumIs DEF Files
  <2>3. ASSUME NEW k \in SessionEnums
        PROVE  /\ SessionTypes[k].name # e.name
               /\ Done(Item("session", "type", k))' => Done(Item("session", "type", k))
    <3>1. k \in DOMAIN specs["session"].types
      BY <1>1, EnumIs DEF SessionEnums, Files
    <3>2. Done(Item("session", "type", k))
      BY <1>1, <2>1, <3>1, HeadIs
    <3>3. \E m \in DOMAIN enums : enums[m].name = SessionTypes[k].name
      BY <3>2 DEF CodesInv
    <3> QED BY <2>1, <3>2, <3>3
  <2> HIDE DEF x, e
  <2> QED BY <1>1, <2>1, <2>2, <2>3, EnumAdded
<1>6. CASE AddType \/ MergeType \/ AddRecord
  <2>1. /\ todo # <<>> /\ outcome = "running" /\ todo' = Tail(todo)
        /\ UNCHANGED <<specs, enums, outcome>>
        /\ \/ x.node = "record"
           \/ x.spec = "application"
           \/ x.spec = "session" /\ specs["session"].types[x.index].node = "type"
    BY <1>6 DEF AddType, MergeType, AddRecord, ProcessesType, Processes
  <2>2. ASSUME NEW k \in SessionEnums PROVE Item("session", "type", k) # x
    <3>1. specs["session"].types[k].node = "enum"
      BY DEF SessionEnums, EnumNodes
    <3> QED BY <2>1, <3>1 DEF Item
  <2>3. \A k \in SessionEnums :
            Done(Item("session", "type", k))' => Done(Item("session", "type", k))
    BY <1>2, <2>1, <2>2
  <2> HIDE DEF x
  <2> QED BY <1>1, <2>1, <2>3, CodesStay
<1>7. CASE RefuseNesting \/ Generate \/ UNCHANGED schema
  <2>1. UNCHANGED <<specs, todo, enums>>
    BY <1>7 DEF RefuseNesting, Generate, schema
  <2>2. Plan' = Plan /\ done' = done
    BY <2>1 DEF Plan, done
  <2>3. \A k \in SessionEnums :
            Done(Item("session", "type", k))' => Done(Item("session", "type", k))
    BY <2>2 DEF Done
  <2> QED BY <1>1, <2>1, <2>3, CodesStay
<1> QED BY <1>3, <1>4, <1>5, <1>6, <1>7 DEF SchemaNext

\* Entries that start with an enumeration's read its codes as it does: in front of an
\* enumerator of its own no other has the code, and the null entry is passed over.
LEMMA CodesRead ==
    ASSUME NEW s \in Seq(Entry), NEW e \in Enum, StartsWith(s, Elements(e)),
           \A k, l \in DOMAIN e.elements : e.elements[k].value = e.elements[l].value => k = l,
           \A element \in Range(e.elements) : element.name # "Null",
           NEW element \in Range(e.elements)
    PROVE  from(s, element.value) = element.name
<1> DEFINE own     == e.elements
           t       == Elements(e)
           matches == {i \in DOMAIN s : s[i].name # "Null" /\ s[i].value = element.value}
           first   == Least(matches)
<1>1. own \in Seq(Element) /\ DOMAIN own = 1 .. Len(own) /\ Len(own) \in Nat
  <2>1. own \in Seq(Element)
    BY DEF Enum
  <2> HIDE DEF own
  <2> QED BY <2>1, SequenceParts
<1>2. /\ Len(t) = Len(own) + 1 /\ t[1] = NullEntry /\ \A k \in 1 .. Len(own) : t[k + 1] = own[k]
  BY ElementsAre
<1>3. DOMAIN s = 1 .. Len(s) /\ Len(s) \in Nat
  BY SequenceParts
<1>4. Len(t) <= Len(s) /\ \A k \in 1 .. Len(t) : s[k] = t[k]
  BY DEF StartsWith
<1>5. /\ \A k, l \in DOMAIN own : own[k].value = own[l].value => k = l
      /\ \A k \in DOMAIN own : own[k].name # "Null"
  BY DEF Range
<1>6. PICK k \in DOMAIN own : own[k] = element
  BY DEF Range
<1> HIDE DEF own, t
<1>7. k + 1 \in matches
  <2>1. k + 1 \in DOMAIN s /\ s[k + 1] = own[k]
    BY <1>1, <1>2, <1>3, <1>4
  <2> QED BY <1>5, <1>6, <2>1
<1>8. matches \in SUBSET Nat /\ \A i \in matches : i \in DOMAIN s /\ s[i].name # "Null" /\ s[i].value = element.value
  BY <1>3
<1>9. from(s, element.value) = s[first].name
  BY <1>7 DEF from
<1> HIDE DEF matches
<1>10. first \in matches /\ first <= k + 1
  BY <1>7, <1>8, LeastOfNat
<1> HIDE DEF first
<1>11. first \in 1 .. Len(t) /\ s[first] = t[first]
  BY <1>1, <1>2, <1>3, <1>4, <1>8, <1>10
<1>12. first # 1
  BY <1>2, <1>8, <1>10, <1>11 DEF NullEntry
<1>13. first - 1 \in DOMAIN own /\ t[first] = own[first - 1]
  <2>1. first - 1 \in 1 .. Len(own) /\ (first - 1) + 1 = first
    BY <1>1, <1>2, <1>11, <1>12
  <2> QED BY <1>1, <1>2, <2>1
<1>14. first - 1 = k
  BY <1>5, <1>6, <1>8, <1>10, <1>11, <1>13
<1> QED BY <1>6, <1>9, <1>11, <1>13, <1>14

\* Whatever an application's specification adds, a code of the session's is read as the
\* session's enumerator, and its entries keep their place in front of the others.
THEOREM CodesKept == SchemaSpec => []SessionCodesKept
<1>1. SchemaInit => CodesInv
  BY CodesInit
<1>2. RunInv /\ CodesInv /\ [SchemaNext]_schema => CodesInv'
  BY CodesNext
<1>3. ASSUME RunInv, CodesInv PROVE SessionCodesKept
  <2>1. PlanInv /\ specs \in Specifications
    BY <1>3 DEF RunInv, PlanInv
  <2> SUFFICES ASSUME NEW i \in SessionEnums, NEW m \in DOMAIN enums,
                      enums[m].name = SessionTypes[i].name,
                      NEW element \in Range(SessionTypes[i].elements)
               PROVE  from(enums[m].elements, element.value) = element.name
    BY DEF SessionCodesKept, SessionTypes, SessionEnums
  <2> DEFINE e == SessionTypes[i]
  <2>2. i \in EnumNodes(specs["session"])
    BY DEF SessionEnums
  <2>3. e \in Enum
    BY <2>1, <2>2, EnumIs DEF SessionTypes, Files
  <2>4. /\ \A k, l \in DOMAIN e.elements : e.elements[k].value = e.elements[l].value => k = l
        /\ \A other \in Range(e.elements) : other.name # "Null"
    BY <2>1, <2>2, CodesAssumption DEF SessionTypes
  <2>5. StartsWith(enums[m].elements, Elements(e))
    BY <1>3 DEF CodesInv
  <2>6. enums[m].elements \in Seq(Entry)
    <3>1. enums[m] \in EnumType
      BY <1>3, SequenceParts DEF CodesInv
    <3> QED BY <3>1 DEF EnumType
  <2> HIDE DEF e
  <2>7. element \in Range(e.elements)
    BY DEF e
  <2> QED BY <2>3, <2>4, <2>5, <2>6, <2>7, CodesRead
<1> QED BY <1>1, <1>2, <1>3, SchemaInvHolds, PTL DEF SchemaSpec
=============================================================================
