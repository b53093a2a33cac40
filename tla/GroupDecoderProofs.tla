------------------------- MODULE GroupDecoderProofs -------------------------
(***************************************************************************)
(* Proofs about the scope stack, for any schema of groups, any number of   *)
(* scopes and any messages, whatever the counts in them say.               *)
(*                                                                         *)
(* The invariant is GroupInv.  That the scopes below the entry of a group  *)
(* wrapped where it belongs are those of the groups on one path of the     *)
(* schema (ScopesOwned) is kept only because such a group is known to sit  *)
(* in the open entry of its parent (LiveEnclosed), and the other way       *)
(* round; where the scopes lie (ScopesNested) needs both.  Any other group *)
(* is only known to leave the scopes in front of its depth alone.          *)
(*                                                                         *)
(* Which entry a group reads is a count: its k-th is the one with k starts *)
(* of entries up to it in the scope that the group was looked for in.      *)
(* EntryInv says that of every group wrapped where it belongs, whether its *)
(* scope is open or another's call truncated it.                           *)
(***************************************************************************)
EXTENDS GroupDecoder, FiniteSetTheorems, WellFoundedInduction, TLAPS

\* Least picks the smallest member.  The intervals 0 .. x, for the members x, are
\* finite sets of numbers, which the strict subset relation orders well: the
\* smallest interval belongs to the smallest member.
LEMMA LeastOfNat ==
    ASSUME NEW S \in SUBSET Nat, S # {}
    PROVE  Least(S) \in S /\ \A y \in S : Least(S) <= y
<1> DEFINE R == StrictSubsetOrdering(Nat)
           T == {0 .. x : x \in S}
<1>1. IsWellFoundedOn(R, FiniteSubsetsOf(Nat))
  BY FS_StrictSubsetOrderingWellFounded
<1>2. T \subseteq FiniteSubsetsOf(Nat) /\ T # {}
  <2>1. ASSUME NEW x \in S PROVE IsFiniteSet(0 .. x)
    BY FS_Interval
  <2>2. ASSUME NEW x \in S PROVE 0 .. x \in FiniteSubsetsOf(Nat)
    BY <2>1 DEF FiniteSubsetsOf
  <2> QED BY <2>2
<1>3. PICK I \in T : \A J \in T : ~ (<<J, I>> \in R)
  <2> HIDE DEF T, R
  <2> QED BY <1>1, <1>2, WFMin
<1>4. PICK x \in S : I = 0 .. x
  OBVIOUS
<1>5. ASSUME NEW y \in S PROVE x <= y
  <2>1. SUFFICES ASSUME y < x PROVE FALSE
    OBVIOUS
  <2>2. 0 .. y \subseteq 0 .. x /\ x \in 0 .. x /\ x \notin 0 .. y
    BY <2>1
  <2>3. <<0 .. y, 0 .. x>> \in R
    BY <2>2 DEF StrictSubsetOrdering
  <2> QED BY <1>3, <1>4, <2>3
<1> QED BY <1>4, <1>5 DEF Least

GroupInv == TypeOK /\ ScopesOwned /\ LiveEnclosed /\ ScopesNested

-----------------------------------------------------------------------------
(***************************************************************************)
(* What the helpers return.                                                *)
(***************************************************************************)
\* A field is a tag and a number, wherever in the arrays it is read.
LEMMA FieldType ==
    ASSUME message \in Messages, NEW i \in Nat
    PROVE  Field(i) \in [tag : Nat, number : Nat]
<1>1. message.tokens \in Seq([tag : Nat, number : Nat])
  BY GroupAssumption DEF IsMessage
<1>2. CASE i + 1 \in DOMAIN message.tokens
  <2> DEFINE t == message.tokens
             E == [tag : Nat, number : Nat]
  <2>1. t \in Seq(E) /\ i + 1 \in DOMAIN t /\ Field(i) = t[i + 1]
    BY <1>1, <1>2 DEF Field
  <2>2. t[i + 1] \in E
    <3> HIDE DEF t, E
    <3> QED BY <2>1
  <2> QED BY <2>1, <2>2
<1>3. CASE i + 1 \notin DOMAIN message.tokens
  BY <1>3 DEF Field, NoField
<1> QED BY <1>2, <1>3

\* find() never goes back, and stays in the range it was given.
LEMMA FindBounds ==
    ASSUME NEW offset \in Nat, NEW tag, NEW end \in Nat
    PROVE  /\ Find(offset, tag, end) \in Nat
           /\ offset <= Find(offset, tag, end)
           /\ offset <= end => Find(offset, tag, end) <= end
<1>1. CASE offset >= end
  BY <1>1 DEF Find
<1>2. CASE offset < end
  <2> DEFINE S == {i \in offset .. end - 1 : Field(i).tag = tag} \union {end}
  <2>1. S \in SUBSET Nat /\ S # {} /\ \A i \in S : offset <= i /\ i <= end
    BY <1>2
  <2>2. Least(S) \in S
    <3> HIDE DEF S
    <3> QED BY <2>1, LeastOfNat
  <2>3. Find(offset, tag, end) = Least(S)
    BY <1>2 DEF Find
  <2> QED BY <2>1, <2>2, <2>3
<1> QED BY <1>1, <1>2

\* The scopes that a scan is bounded by.
LEMMA ScopeType ==
    ASSUME TypeOK, NEW depth \in 0 .. mScopeDepth
    PROVE  ScopeOf(depth) \in Scope
<1>1. size \in Nat
  BY GroupAssumption DEF TypeOK, IsMessage, size
<1> QED BY <1>1, GroupAssumption DEF TypeOK, ScopeOf, Scope, Depth

LEMMA TruncatedBounds ==
    ASSUME TypeOK, NEW depth \in Nat
    PROVE  /\ Truncated(depth) \in 0 .. mScopeDepth
           /\ Truncated(depth) <= depth
           /\ depth <= mScopeDepth => Truncated(depth) = depth
BY GroupAssumption DEF TypeOK, Truncated

\* Where the next entry starts: behind the present one, and not past the end of
\* the enclosing scope if the present one starts before it.
LEMMA NextGroupOffsetBounds ==
    ASSUME TypeOK, NEW offset \in Nat, NEW delim, NEW depth \in 0 .. mScopeDepth
    PROVE  /\ NextGroupOffset(offset, delim, depth) \in Nat
           /\ offset < NextGroupOffset(offset, delim, depth)
           /\ offset < ScopeOf(depth).end =>
                NextGroupOffset(offset, delim, depth) <= ScopeOf(depth).end
<1>1. ScopeOf(depth).end \in Nat
  BY ScopeType DEF Scope
<1> QED BY <1>1, FindBounds DEF NextGroupOffset

\* A group wrapped where it belongs has no fewer scopes than its depth open.
LEMMA EnclosedDepth ==
    ASSUME TypeOK, NEW g \in Groups, Enclosed(g)
    PROVE  WrapDepth(g) \in 0 .. mScopeDepth
BY GroupAssumption DEF TypeOK, Enclosed, Open, WrapDepth, Decoder

\* The scopes that wrap(), next() or clear() of a group leaves, by its depth.
At(g) == Truncated(decoder[g].depth)

LEMMA AtBounds ==
    ASSUME TypeOK, NEW g \in Groups
    PROVE  /\ decoder[g] \in Decoder /\ decoder[g].depth \in Nat
           /\ At(g) \in 0 .. mScopeDepth /\ At(g) \in Nat /\ At(g) <= decoder[g].depth
           /\ decoder[g].depth <= mScopeDepth => At(g) = decoder[g].depth
           /\ mScopeDepth \in Nat
           /\ \A n \in Nat : n < mScopeDepth /\ n < decoder[g].depth => n < At(g)
<1>1. decoder[g] \in Decoder /\ mScopeDepth \in Nat
  BY GroupAssumption DEF TypeOK
<1>2. decoder[g].depth \in Nat
  BY <1>1 DEF Decoder
<1> QED BY <1>1, <1>2 DEF At, Truncated

LEMMA WrapDepthType ==
    ASSUME TypeOK, NEW g \in Groups
    PROVE  WrapDepth(g) \in Nat
BY GroupAssumption DEF TypeOK, WrapDepth, Decoder

-----------------------------------------------------------------------------
(***************************************************************************)
(* What a call does, in the terms of the invariant.                        *)
(***************************************************************************)
\* A live group can be truncated to its own depth.
LEMMA LiveDepth ==
    ASSUME TypeOK, LiveEnclosed, NEW g \in live
    PROVE  /\ decoder[g] \in Decoder
           /\ decoder[g].depth = WrapDepth(g)
           /\ decoder[g].depth \in 0 .. mScopeDepth
           /\ At(g) = decoder[g].depth
<1>1. g \in Groups /\ Enclosed(g) /\ decoder[g].depth = WrapDepth(g)
  BY DEF TypeOK, LiveEnclosed
<1>2. decoder[g].depth \in 0 .. mScopeDepth
  BY <1>1, EnclosedDepth
<1>3. decoder[g].depth \in Nat /\ decoder[g] \in Decoder /\ mScopeDepth \in Nat
  BY <1>1 DEF TypeOK, Decoder
<1> QED BY <1>1, <1>2, <1>3, AtBounds

\* wrap() leaves the scopes in front of the group's depth, and finds the first entry
\* behind the start of the innermost of them.
LEMMA WrapResult ==
    ASSUME TypeOK, NEW g \in Groups, Wrap(g)
    PROVE  /\ WrapDepth(g) \in Nat /\ mScopeDepth' = Truncated(WrapDepth(g))
           /\ mScopeDepth' \in 0 .. mScopeDepth /\ mScopeDepth' <= WrapDepth(g)
           /\ mScopeDepth \in Nat
           /\ \A n \in Nat : n < mScopeDepth /\ n < WrapDepth(g) => n < mScopeDepth'
           /\ Enclosed(g) => mScopeDepth' = WrapDepth(g)
           /\ decoder' \in [Groups -> Decoder]
           /\ decoder'[g].depth = WrapDepth(g)
           /\ decoder'[g].repeat = 0
           /\ decoder'[g].count > 0 => ScopeOf(mScopeDepth').begin < decoder'[g].next
           /\ \A h \in Groups : h # g => decoder'[h] = decoder[h]
<1> DEFINE scopes == Truncated(WrapDepth(g))
           outer == ScopeOf(scopes)
           field == Find(outer.begin, CountTag[g], outer.end)
           found == field < outer.end
           count == IF found THEN Field(field).number ELSE 0
           delim == IF found THEN Field(field + 1).tag ELSE decoder[g].delim
           next  == IF count > 0 THEN NextGroupOffset(field, delim, scopes)
                    ELSE decoder[g].next
           new   == [count |-> count, repeat |-> 0, delim |-> delim,
                     offset |-> IF found THEN field ELSE 0, next |-> next,
                     depth |-> WrapDepth(g)]
<1>1. WrapDepth(g) \in Nat
  BY WrapDepthType
<1>2. /\ scopes \in 0 .. mScopeDepth /\ scopes <= WrapDepth(g) /\ mScopeDepth \in Nat
      /\ WrapDepth(g) <= mScopeDepth => scopes = WrapDepth(g)
      /\ \A n \in Nat : n < mScopeDepth /\ n < WrapDepth(g) => n < scopes
  <2>1. mScopeDepth \in Nat
    BY GroupAssumption DEF TypeOK
  <2> QED BY <1>1, <2>1 DEF Truncated
<1>16. Enclosed(g) => scopes = WrapDepth(g)
  BY <1>2, EnclosedDepth
<1>3. outer \in Scope
  BY <1>2, ScopeType
<1>4. field \in Nat /\ outer.begin <= field
  BY <1>3, FindBounds DEF Scope
<1>5. Field(field) \in [tag : Nat, number : Nat] /\ Field(field + 1) \in [tag : Nat, number : Nat]
  BY <1>4, FieldType DEF TypeOK
<1>6. decoder[g] \in Decoder
  BY DEF TypeOK
<1>7. count \in Nat /\ delim \in Nat
  BY <1>5, <1>6 DEF Decoder
<1>8. /\ NextGroupOffset(field, delim, scopes) \in Nat
      /\ field < NextGroupOffset(field, delim, scopes)
  BY <1>2, <1>4, NextGroupOffsetBounds
<1>9. next \in Nat /\ (count > 0 => outer.begin < next)
  BY <1>3, <1>4, <1>6, <1>8 DEF Decoder, Scope
<1>11. new \in Decoder
  <2> HIDE DEF field, count, delim, next, found
  <2> QED BY <1>1, <1>4, <1>7, <1>9 DEF Decoder
<1>12. decoder' = [decoder EXCEPT ![g] = new] /\ mScopeDepth' = scopes
  BY DEF Wrap
<1> HIDE DEF scopes, outer, field, found, count, delim, next
<1>13. decoder' \in [Groups -> Decoder] /\ decoder'[g] = new
  <2> HIDE DEF new
  <2> QED BY <1>11, <1>12 DEF TypeOK
<1>14. \A h \in Groups : h # g => decoder'[h] = decoder[h]
  BY <1>12 DEF TypeOK
<1>15. /\ new.depth = WrapDepth(g) /\ new.repeat = 0
       /\ new.count = count /\ new.next = next
  OBVIOUS
<1>17. mScopeDepth' = Truncated(WrapDepth(g))
  BY <1>12 DEF scopes
<1> HIDE DEF new
<1> QED BY <1>1, <1>2, <1>9, <1>12, <1>13, <1>14, <1>15, <1>16, <1>17 DEF outer

\* next() replaces the scopes from the group's depth on by the entry that starts
\* where it said the next one would, or by nothing if there is no room.
LEMMA NextEntryResult ==
    ASSUME TypeOK, NEW g \in Groups, NextEntry(g)
    PROVE  /\ decoder' \in [Groups -> Decoder]
           /\ decoder'[g].depth = decoder[g].depth
           /\ decoder'[g].offset = decoder[g].next
           /\ decoder[g].next < decoder'[g].next
           /\ decoder[g].next < ScopeOf(At(g)).end => decoder'[g].next <= ScopeOf(At(g)).end
           /\ \A h \in Groups : h # g => decoder'[h] = decoder[h]
           /\ \/ /\ mScopeDepth' = At(g)
                 /\ UNCHANGED <<mScopes, owner>>
              \/ /\ At(g) < MaxGroupDepth
                 /\ mScopeDepth' = At(g) + 1
                 /\ decoder'[g].repeat > 0
                 /\ mScopes' = [mScopes EXCEPT ![At(g)] =
                      [begin |-> decoder[g].next, end |-> decoder'[g].next]]
                 /\ owner' = [owner EXCEPT ![At(g)] = g]
<1> DEFINE d == decoder[g]
           at == At(g)
           next == NextGroupOffset(d.next, d.delim, at)
           ended == [d EXCEPT !.count = 0, !.repeat = 0, !.offset = d.next, !.next = next]
           moved == [d EXCEPT !.repeat = d.repeat + 1, !.offset = d.next, !.next = next]
<1>2. d \in Decoder /\ at \in 0 .. mScopeDepth /\ at \in Nat
  BY AtBounds
<1>3. d.next \in Nat
  BY <1>2 DEF Decoder
<1>4. /\ next \in Nat /\ d.next < next
      /\ d.next < ScopeOf(at).end => next <= ScopeOf(at).end
  BY <1>2, <1>3, NextGroupOffsetBounds
<1>5. \/ /\ Full(at)
         /\ mScopeDepth' = at
         /\ decoder' = [decoder EXCEPT ![g] = ended]
         /\ UNCHANGED <<mScopes, owner>>
      \/ /\ ~ Full(at)
         /\ mScopeDepth' = at + 1
         /\ decoder' = [decoder EXCEPT ![g] = moved]
         /\ mScopes' = [mScopes EXCEPT ![at] = [begin |-> d.next, end |-> next]]
         /\ owner' = [owner EXCEPT ![at] = g]
  BY DEF NextEntry, At
<1> HIDE DEF next
<1>6. /\ ended \in Decoder /\ moved \in Decoder
      /\ ended.depth = d.depth /\ ended.offset = d.next /\ ended.next = next
      /\ moved.depth = d.depth /\ moved.offset = d.next /\ moved.next = next
      /\ moved.repeat > 0
  <2> HIDE DEF d
  <2>1. /\ d \in [count : Nat, repeat : Nat, delim : Nat, offset : Nat, next : Nat, depth : Nat]
        /\ d.next \in Nat /\ next \in Nat /\ d.repeat + 1 \in Nat /\ d.repeat + 1 > 0
    BY <1>2, <1>4 DEF Decoder
  <2>2. /\ ended \in Decoder
        /\ ended.depth = d.depth /\ ended.offset = d.next /\ ended.next = next
    BY <2>1 DEF Decoder
  <2>3. /\ moved \in Decoder /\ moved.repeat = d.repeat + 1
        /\ moved.depth = d.depth /\ moved.offset = d.next /\ moved.next = next
    BY <2>1 DEF Decoder
  <2> QED BY <2>1, <2>2, <2>3
<1> HIDE DEF ended, moved, at
<1>7. decoder \in [Groups -> Decoder] /\ MaxGroupDepth \in Nat /\ mScopeDepth \in Nat
  BY GroupAssumption DEF TypeOK
<1>8. CASE /\ Full(at)
           /\ mScopeDepth' = at
           /\ decoder' = [decoder EXCEPT ![g] = ended]
           /\ UNCHANGED <<mScopes, owner>>
  BY <1>4, <1>6, <1>7, <1>8 DEF at
<1>9. CASE /\ ~ Full(at)
           /\ mScopeDepth' = at + 1
           /\ decoder' = [decoder EXCEPT ![g] = moved]
           /\ mScopes' = [mScopes EXCEPT ![at] = [begin |-> d.next, end |-> next]]
           /\ owner' = [owner EXCEPT ![at] = g]
  <2>1. at < MaxGroupDepth
    BY <1>2, <1>7, <1>9 DEF Full
  <2>2. decoder'[g] = moved /\ decoder' \in [Groups -> Decoder]
    BY <1>6, <1>7, <1>9
  <2>3. \A h \in Groups : h # g => decoder'[h] = decoder[h]
    BY <1>7, <1>9
  <2> QED BY <1>4, <1>6, <1>9, <2>1, <2>2, <2>3 DEF at
<1> QED BY <1>5, <1>8, <1>9

\* clear() touches the count, repeat and offset of its own group only, and leaves
\* the scopes that enclose it.
LEMMA ClearResult ==
    ASSUME TypeOK, NEW g \in Groups, Clear(g)
    PROVE  /\ decoder' \in [Groups -> Decoder]
           /\ decoder'[g].depth = decoder[g].depth
           /\ \A h \in Groups : h # g => decoder'[h] = decoder[h]
           /\ mScopeDepth' = IF decoder[g].repeat > 0 THEN At(g) ELSE mScopeDepth
           /\ mScopeDepth' \in 0 .. mScopeDepth
<1>1. decoder[g] \in Decoder /\ At(g) \in 0 .. mScopeDepth /\ mScopeDepth \in Nat
  BY AtBounds
<1> DEFINE new == [decoder[g] EXCEPT !.count = 0, !.repeat = 0, !.offset = 0]
<1>2. new \in Decoder /\ new.depth = decoder[g].depth
  BY <1>1 DEF Decoder
<1>3. decoder' = [decoder EXCEPT ![g] = new]
  BY DEF Clear
<1> HIDE DEF new
<1>4. /\ decoder' \in [Groups -> Decoder] /\ decoder'[g] = new
      /\ \A h \in Groups : h # g => decoder'[h] = decoder[h]
  BY <1>2, <1>3 DEF TypeOK
<1>5. mScopeDepth' = IF decoder[g].repeat > 0 THEN At(g) ELSE mScopeDepth
  BY DEF Clear, ScopesKept, At
<1> QED BY <1>1, <1>2, <1>4, <1>5

-----------------------------------------------------------------------------
(***************************************************************************)
(* Every step keeps the invariant.                                         *)
(***************************************************************************)
LEMMA TypeOKStep ==
    ASSUME TypeOK, [Next]_vars
    PROVE  TypeOK'
<1> USE GroupAssumption
<1>1. ASSUME NEW m \in Messages, WrapMessage(m) PROVE TypeOK'
  BY <1>1 DEF WrapMessage, TypeOK
<1>2. ASSUME NEW g \in Groups, Wrap(g) PROVE TypeOK'
  <2>1. mScopeDepth' \in 0 .. MaxGroupDepth /\ decoder' \in [Groups -> Decoder]
    BY <1>2, WrapResult DEF TypeOK
  <2>2. live' \subseteq Groups /\ UNCHANGED <<message, mScopes, owner>>
    BY <1>2 DEF Wrap, TypeOK
  <2> QED BY <2>1, <2>2 DEF TypeOK
<1>3. ASSUME NEW g \in Groups, NextEntry(g) PROVE TypeOK'
  <2>1. live' \subseteq Groups /\ message' = message
    BY <1>3 DEF NextEntry, TypeOK
  <2>2. At(g) \in 0 .. mScopeDepth /\ decoder[g].next \in Nat /\ At(g) \in Nat
    BY AtBounds DEF Decoder
  <2>3. decoder' \in [Groups -> Decoder] /\ decoder'[g].next \in Nat
    BY <1>3, NextEntryResult DEF Decoder
  <2>4. CASE mScopeDepth' = At(g) /\ UNCHANGED <<mScopes, owner>>
    BY <2>1, <2>2, <2>3, <2>4 DEF TypeOK
  <2>5. CASE /\ At(g) < MaxGroupDepth
             /\ mScopeDepth' = At(g) + 1
             /\ mScopes' = [mScopes EXCEPT ![At(g)] =
                  [begin |-> decoder[g].next, end |-> decoder'[g].next]]
             /\ owner' = [owner EXCEPT ![At(g)] = g]
    <3> DEFINE entry == [begin |-> decoder[g].next, end |-> decoder'[g].next]
    <3>1. entry \in Scope
      BY <2>2, <2>3 DEF Scope
    <3> HIDE DEF entry
    <3>2. mScopes' \in [Depth -> Scope]
      BY <2>5, <3>1 DEF TypeOK, entry
    <3>3. owner' \in [Depth -> Groups \union {NoGroup}]
      BY <2>5 DEF TypeOK
    <3>4. mScopeDepth' \in 0 .. MaxGroupDepth
      BY <2>2, <2>5
    <3> QED BY <2>1, <2>3, <3>2, <3>3, <3>4 DEF TypeOK
  <2> QED BY <1>3, <2>4, <2>5, NextEntryResult
<1>4. ASSUME NEW g \in Groups, Clear(g) PROVE TypeOK'
  <2>1. live' \subseteq Groups /\ UNCHANGED <<message, mScopes, owner>>
    BY <1>4 DEF Clear, TypeOK
  <2>2. decoder' \in [Groups -> Decoder] /\ mScopeDepth' \in 0 .. MaxGroupDepth
    BY <1>4, ClearResult DEF TypeOK
  <2> QED BY <2>1, <2>2 DEF TypeOK
<1>5. CASE UNCHANGED vars
  BY <1>5 DEF vars, TypeOK
<1> QED BY <1>1, <1>2, <1>3, <1>4, <1>5 DEF Next

\* An index below a smaller bound is one below a greater.
LEMMA FewerIndices == \A m \in Nat : \A n \in 0 .. m : \A d \in 0 .. n - 1 : d \in 0 .. m - 1
OBVIOUS

\* The scopes in front of the entry of a group wrapped where it belongs.
LEMMA LiveBelow ==
    ASSUME GroupInv, NEW d \in 0 .. mScopeDepth - 1, owner[d] \in live, NEW e \in 0 .. d
    PROVE  /\ owner[e] \in live
           /\ decoder[owner[e]].depth = e /\ decoder[owner[e]].repeat > 0
<1>1. mScopeDepth \in Nat
  BY GroupAssumption DEF GroupInv, TypeOK
<1>2. e \in 0 .. mScopeDepth - 1 /\ (e = d \/ e \in 0 .. d - 1)
  BY <1>1
<1>3. owner[e] \in live
  BY <1>2 DEF GroupInv, ScopesOwned
<1> QED BY <1>2, <1>3 DEF GroupInv, ScopesOwned

\* The scopes that enclose a group wrapped where it belongs: all of them those of
\* such groups, the last one its parent's.
LEMMA EnclosedPath ==
    ASSUME GroupInv, NEW g \in Groups, Enclosed(g)
    PROVE  /\ \A e \in 0 .. WrapDepth(g) - 1 :
                 /\ e \in 0 .. mScopeDepth - 1 /\ owner[e] \in live
                 /\ decoder[owner[e]].depth = e
           /\ Parent[g] = IF WrapDepth(g) = 0 THEN NoGroup ELSE owner[WrapDepth(g) - 1]
<1>1. mScopeDepth \in Nat
  BY GroupAssumption DEF GroupInv, TypeOK
<1>2. CASE Parent[g] = NoGroup
  BY <1>2 DEF WrapDepth
<1>3. CASE Parent[g] # NoGroup
  <2> DEFINE above == decoder[Parent[g]].depth
  <2>1. /\ Parent[g] \in live /\ Parent[g] \in Groups
        /\ above < mScopeDepth /\ owner[above] = Parent[g]
    BY <1>3, GroupAssumption DEF Enclosed, Open
  <2>2. above \in Nat /\ WrapDepth(g) = above + 1
    BY <1>3, <2>1 DEF WrapDepth, GroupInv, TypeOK, Decoder
  <2> HIDE DEF above
  <2>3. above \in 0 .. mScopeDepth - 1
    BY <1>1, <2>1, <2>2
  <2>4. ASSUME NEW e \in 0 .. WrapDepth(g) - 1
        PROVE  e \in 0 .. mScopeDepth - 1 /\ e \in 0 .. above
    BY <1>1, <2>2, <2>3
  <2> QED BY <2>1, <2>2, <2>3, <2>4, LiveBelow
<1> QED BY <1>2, <1>3

\* Giving up scopes keeps what is known of the others, if the groups wrapped where they
\* belong that own one stay so, and the group whose members change has none of them.
LEMMA FewerScopesOwned ==
    ASSUME GroupInv, NEW g \in Groups, mScopeDepth' \in 0 .. mScopeDepth,
           UNCHANGED <<mScopes, owner>>,
           \A h \in Groups : h # g => decoder'[h] = decoder[h],
           \A d \in 0 .. mScopeDepth' - 1 : owner[d] \in live' =>
               /\ owner[d] \in live /\ owner[d] # g
               /\ \A e \in 0 .. d - 1 : owner[e] \in live'
    PROVE  ScopesOwned'
<1>1. mScopeDepth \in Nat
  BY GroupAssumption DEF GroupInv, TypeOK
<1>2. \A d \in 0 .. mScopeDepth' - 1 : d \in 0 .. mScopeDepth - 1
  BY <1>1, FewerIndices
<1>3. ASSUME NEW d \in 0 .. mScopeDepth' - 1, owner[d] \in live'
      PROVE  /\ decoder'[owner[d]].depth = d /\ decoder'[owner[d]].repeat > 0
             /\ mScopes[d] = [begin |-> decoder'[owner[d]].offset,
                              end |-> decoder'[owner[d]].next]
             /\ Parent[owner[d]] = IF d = 0 THEN NoGroup ELSE owner[d - 1]
             /\ \A e \in 0 .. d - 1 : owner[e] \in live'
  <2>1. /\ d \in 0 .. mScopeDepth - 1 /\ owner[d] \in live /\ owner[d] # g
        /\ \A e \in 0 .. d - 1 : owner[e] \in live'
    BY <1>2, <1>3
  <2>2. decoder'[owner[d]] = decoder[owner[d]]
    BY <2>1 DEF GroupInv, TypeOK
  <2> QED BY <2>1, <2>2 DEF GroupInv, ScopesOwned
<1> QED BY <1>3 DEF ScopesOwned

\* The scopes that wrap() leaves to groups wrapped where they belong were theirs.
LEMMA WrapLiveOwners ==
    ASSUME GroupInv, NEW g \in Groups, Wrap(g)
    PROVE  \A d \in 0 .. mScopeDepth' - 1 : owner[d] \in live' => owner[d] \in live
<1>1. ASSUME NEW d \in 0 .. mScopeDepth' - 1, Enclosed(g) PROVE owner[d] \in live
  BY <1>1, WrapResult, EnclosedPath DEF GroupInv
<1> QED BY <1>1 DEF Wrap

LEMMA FrontIndices ==
    \A n \in Nat : \A d \in 0 .. n - 1 : \A e \in 0 .. d - 1 :
        e \in 0 .. d /\ e \in 0 .. n - 1 /\ e < n /\ e \in Nat
OBVIOUS

LEMMA WrapOwned ==
    ASSUME GroupInv, NEW g \in Groups, Wrap(g)
    PROVE  ScopesOwned'
<1> USE DEF GroupInv
<1>1. /\ WrapDepth(g) \in Nat /\ mScopeDepth \in Nat
      /\ mScopeDepth' \in 0 .. mScopeDepth /\ mScopeDepth' <= WrapDepth(g)
      /\ Enclosed(g) => mScopeDepth' = WrapDepth(g)
      /\ \A h \in Groups : h # g => decoder'[h] = decoder[h]
  BY WrapResult
<1>2. /\ UNCHANGED <<mScopes, owner>>
      /\ live' = {h \in live \ {g} : decoder[h].depth <= WrapDepth(g)}
                     \union (IF Enclosed(g) THEN {g} ELSE {})
  BY DEF Wrap
\* An open scope that stays is not one of g's own, if g is where it belongs.
<1>3. ASSUME NEW d \in 0 .. mScopeDepth' - 1, owner[d] \in live PROVE owner[d] # g
  <2>1. SUFFICES ASSUME owner[d] = g PROVE FALSE
    OBVIOUS
  <2>2. d \in 0 .. mScopeDepth - 1
    BY <1>1, FewerIndices
  <2>3. decoder[g].depth = d /\ decoder[g].depth = WrapDepth(g)
    BY <1>3, <2>1, <2>2 DEF ScopesOwned, LiveEnclosed
  <2> QED BY <1>1, <2>3
<1>4. \A d \in 0 .. mScopeDepth' - 1 : owner[d] \in live' => owner[d] \in live
  BY WrapLiveOwners
<1>5. ASSUME NEW d \in 0 .. mScopeDepth' - 1, owner[d] \in live', NEW e \in 0 .. d - 1
      PROVE  owner[e] \in live'
  <2>1. /\ d \in 0 .. mScopeDepth - 1 /\ e \in 0 .. d /\ e \in 0 .. mScopeDepth' - 1
        /\ e <= WrapDepth(g)
    <3>1. mScopeDepth' \in Nat
      BY <1>1
    <3>4. mScopeDepth' <= WrapDepth(g) /\ WrapDepth(g) \in Nat /\ mScopeDepth \in Nat
      BY <1>1
    <3>5. d \in 0 .. mScopeDepth - 1
      BY <1>1, <1>5, FewerIndices
    <3>2. e \in 0 .. d /\ e \in 0 .. mScopeDepth' - 1 /\ e < mScopeDepth' /\ e \in Nat
      BY <1>5, <3>1, FrontIndices
    <3>6. e <= WrapDepth(g)
      BY <3>1, <3>2, <3>4
    <3> QED BY <3>2, <3>5, <3>6
  <2>2. owner[e] \in live /\ decoder[owner[e]].depth = e
    BY <1>4, <1>5, <2>1, LiveBelow
  <2> QED BY <1>2, <1>3, <2>1, <2>2
<1> QED BY <1>1, <1>2, <1>3, <1>4, <1>5, FewerScopesOwned

\* What next() leaves in front of the scope it pushes.
LEMMA NextEntryFront ==
    ASSUME GroupInv, NEW g \in Groups, NextEntry(g), NEW d \in 0 .. At(g) - 1
    PROVE  /\ d \in 0 .. mScopeDepth - 1 /\ d < mScopeDepth'
           /\ mScopes'[d] = mScopes[d] /\ owner'[d] = owner[d]
           /\ owner[d] \in live => /\ owner[d] # g
                                   /\ \A e \in 0 .. d : owner[e] \in live'
<1> USE GroupAssumption DEF GroupInv
<1>1. /\ At(g) \in 0 .. mScopeDepth /\ At(g) \in Nat /\ At(g) <= decoder[g].depth
      /\ decoder[g].depth \in Nat /\ mScopeDepth \in Nat
  BY AtBounds
<1>2. d \in 0 .. mScopeDepth - 1 /\ d \in Depth /\ d # At(g) /\ d < decoder[g].depth
  BY <1>1 DEF Depth, TypeOK
<1>3. mScopeDepth' \in {At(g), At(g) + 1}
  BY NextEntryResult
<1>4. d < mScopeDepth'
  BY <1>1, <1>3
<1>5. mScopes'[d] = mScopes[d] /\ owner'[d] = owner[d]
  BY <1>2, NextEntryResult DEF TypeOK
<1>6. ASSUME owner[d] \in live PROVE owner[d] # g
  <2>1. d \in 0 .. d
    BY <1>1
  <2>2. decoder[owner[d]].depth = d
    BY <1>2, <1>6, <2>1, LiveBelow
  <2> QED BY <1>1, <1>2, <2>2
<1>7. ASSUME owner[d] \in live, NEW e \in 0 .. d PROVE owner[e] \in live'
  <2>1. owner[e] \in live /\ decoder[owner[e]].depth = e
    BY <1>2, <1>7, LiveBelow
  <2>2. ~ (e > decoder[g].depth)
    BY <1>1, <1>2
  <2> QED BY <2>1, <2>2 DEF NextEntry, Below
<1> QED BY <1>2, <1>4, <1>5, <1>6, <1>7

LEMMA NextEntryOwned ==
    ASSUME GroupInv, NEW g \in Groups, NextEntry(g)
    PROVE  ScopesOwned'
<1> USE GroupAssumption DEF GroupInv
<1> DEFINE at == At(g)
<1>1. /\ at \in 0 .. mScopeDepth /\ at \in Nat /\ mScopeDepth \in Nat
      /\ live' = live \ Below(g)
      /\ decoder'[g].depth = decoder[g].depth /\ decoder'[g].offset = decoder[g].next
      /\ \A h \in Groups : h # g => decoder'[h] = decoder[h]
  BY AtBounds, NextEntryResult DEF NextEntry
<1> HIDE DEF at
<1>2. ASSUME NEW d \in 0 .. at - 1, owner'[d] \in live'
      PROVE  /\ decoder'[owner'[d]].depth = d /\ decoder'[owner'[d]].repeat > 0
             /\ mScopes'[d] = [begin |-> decoder'[owner'[d]].offset,
                               end |-> decoder'[owner'[d]].next]
             /\ Parent[owner'[d]] = IF d = 0 THEN NoGroup ELSE owner'[d - 1]
             /\ \A e \in 0 .. d - 1 : owner'[e] \in live'
  <2>0. \A e \in 0 .. d : e \in 0 .. at - 1 /\ owner'[e] = owner[e]
    BY <1>1, NextEntryFront DEF at
  <2>1. /\ d \in 0 .. mScopeDepth - 1 /\ owner'[d] = owner[d] /\ mScopes'[d] = mScopes[d]
        /\ d - 1 \in 0 .. d \/ d = 0
        /\ \A e \in 0 .. d - 1 : e \in 0 .. d
    BY NextEntryFront DEF at
  <2>2. owner[d] \in live /\ owner[d] \in Groups
    BY <1>1, <1>2, <2>1 DEF TypeOK
  <2>3. decoder'[owner[d]] = decoder[owner[d]] /\ \A e \in 0 .. d : owner[e] \in live'
    BY <1>1, <2>2, NextEntryFront DEF at
  <2>4. d # 0 => owner'[d - 1] = owner[d - 1]
    BY <2>0, <2>1
  <2> QED BY <2>0, <2>1, <2>2, <2>3, <2>4 DEF ScopesOwned
<1>3. CASE mScopeDepth' = at
  BY <1>2, <1>3 DEF ScopesOwned
<1>4. CASE /\ at < MaxGroupDepth
           /\ mScopeDepth' = at + 1
           /\ decoder'[g].repeat > 0
           /\ mScopes' = [mScopes EXCEPT ![at] =
                [begin |-> decoder[g].next, end |-> decoder'[g].next]]
           /\ owner' = [owner EXCEPT ![at] = g]
  <2>1. at \in Depth
    BY <1>1, <1>4 DEF Depth
  <2>2. /\ owner'[at] = g
        /\ mScopes'[at] = [begin |-> decoder[g].next, end |-> decoder'[g].next]
    BY <1>4, <2>1 DEF TypeOK
  <2>3. ASSUME g \in live'
        PROVE  /\ decoder'[g].depth = at
               /\ Parent[g] = IF at = 0 THEN NoGroup ELSE owner'[at - 1]
               /\ \A e \in 0 .. at - 1 : owner'[e] \in live'
    <3>1. g \in live /\ Enclosed(g) /\ decoder[g].depth = WrapDepth(g) /\ WrapDepth(g) = at
      BY <1>1, <2>3, LiveDepth DEF LiveEnclosed, at
    <3>2. /\ \A e \in 0 .. at - 1 : owner[e] \in live
          /\ Parent[g] = IF at = 0 THEN NoGroup ELSE owner[at - 1]
      BY <3>1, EnclosedPath
    <3>3. ASSUME NEW e \in 0 .. at - 1 PROVE owner'[e] = owner[e] /\ owner'[e] \in live'
      <4>1. e \in 0 .. e
        BY <1>1
      <4> QED BY <3>2, <4>1, NextEntryFront DEF at
    <3>4. at # 0 => at - 1 \in 0 .. at - 1
      BY <1>1
    <3> QED BY <1>1, <3>1, <3>2, <3>3, <3>4
  <2>4. ASSUME NEW d \in 0 .. mScopeDepth' - 1 PROVE d = at \/ d \in 0 .. at - 1
    BY <1>1, <1>4
  <2> QED BY <1>1, <1>2, <1>4, <2>2, <2>3, <2>4 DEF ScopesOwned
<1> QED BY <1>3, <1>4, NextEntryResult DEF at

\* The scopes that clear() keeps, and whose they are.
LEMMA ClearFront ==
    ASSUME GroupInv, NEW g \in Groups, Clear(g), NEW d \in 0 .. mScopeDepth' - 1,
           owner[d] \in live
    PROVE  /\ d \in 0 .. mScopeDepth - 1 /\ owner[d] # g
           /\ \A e \in 0 .. d : owner[e] \in live'
<1> USE DEF GroupInv
<1>1. /\ At(g) \in 0 .. mScopeDepth /\ At(g) \in Nat /\ At(g) <= decoder[g].depth
      /\ decoder[g].depth \in Nat /\ mScopeDepth \in Nat
  BY AtBounds
<1>2. /\ mScopeDepth' = IF decoder[g].repeat > 0 THEN At(g) ELSE mScopeDepth
      /\ mScopeDepth' \in 0 .. mScopeDepth
      /\ live' = live \ ({g} \union IF decoder[g].repeat > 0 THEN Below(g) ELSE {})
  BY ClearResult DEF Clear
<1>3. d \in 0 .. mScopeDepth - 1
  BY <1>1, <1>2, FewerIndices
<1>4. ASSUME NEW e \in 0 .. d PROVE owner[e] # g /\ owner[e] \in live'
  <2>1. /\ owner[e] \in live /\ decoder[owner[e]].depth = e /\ decoder[owner[e]].repeat > 0
    BY <1>3, LiveBelow
  <2>2. decoder[g].repeat > 0 => e < decoder[g].depth
    BY <1>1, <1>2
  <2>3. owner[e] # g
    BY <1>1, <2>1, <2>2
  <2>4. decoder[g].repeat > 0 => owner[e] \notin Below(g)
    BY <1>1, <2>1, <2>2 DEF Below
  <2> QED BY <1>2, <2>1, <2>3, <2>4
<1>5. d \in 0 .. d
  BY <1>1, <1>3
<1> QED BY <1>3, <1>4, <1>5

LEMMA ScopesOwnedStep ==
    ASSUME GroupInv, [Next]_vars
    PROVE  ScopesOwned'
<1>1. ASSUME NEW m \in Messages, WrapMessage(m) PROVE ScopesOwned'
  BY <1>1 DEF WrapMessage, ScopesOwned
<1>2. ASSUME NEW g \in Groups, Clear(g) PROVE ScopesOwned'
  <2>1. /\ UNCHANGED <<mScopes, owner>> /\ live' \subseteq live
        /\ mScopeDepth' \in 0 .. mScopeDepth
        /\ \A h \in Groups : h # g => decoder'[h] = decoder[h]
    BY <1>2, ClearResult DEF Clear, GroupInv
  <2>2. ASSUME NEW d \in 0 .. mScopeDepth' - 1, owner[d] \in live'
        PROVE  /\ owner[d] \in live /\ owner[d] # g
               /\ \A e \in 0 .. d - 1 : owner[e] \in live'
    <3>1. \A e \in 0 .. d - 1 : e \in 0 .. d
      OBVIOUS
    <3> QED BY <1>2, <2>1, <2>2, <3>1, ClearFront
  <2> QED BY <2>1, <2>2, FewerScopesOwned
<1>3. CASE UNCHANGED vars
  BY <1>3 DEF vars, ScopesOwned, GroupInv
<1> QED BY <1>1, <1>2, <1>3, WrapOwned, NextEntryOwned DEF Next

\* What LiveEnclosed says of one group.
Placed(g) ==
    /\ Enclosed(g)
    /\ decoder[g].depth = WrapDepth(g)
    /\ HasNext(g) => ScopeOf(decoder[g].depth).begin < decoder[g].next

\* A parent is live, in its open entry, one level up.
LEMMA ParentPlaced ==
    ASSUME TypeOK, LiveEnclosed, NEW h \in live, Parent[h] # NoGroup
    PROVE  /\ Parent[h] \in live
           /\ decoder[Parent[h]].depth \in Nat
           /\ decoder[h].depth = decoder[Parent[h]].depth + 1
           /\ Open(Parent[h])
BY DEF TypeOK, LiveEnclosed, Enclosed, WrapDepth, Decoder

\* A group keeps its place if its members, those of its parent, and the scopes
\* above it stay as they are.
LEMMA PlacedKept ==
    ASSUME GroupInv, NEW h \in live,
           decoder'[h] = decoder[h],
           Parent[h] # NoGroup => /\ Parent[h] \in live'
                                  /\ decoder'[Parent[h]] = decoder[Parent[h]]
                                  /\ decoder[Parent[h]].depth < mScopeDepth'
                                  /\ owner'[decoder[Parent[h]].depth] =
                                       owner[decoder[Parent[h]].depth],
           ScopeOf(decoder[h].depth)' = ScopeOf(decoder[h].depth)
    PROVE  Placed(h)'
<1>1. Placed(h) /\ h \in Groups
  BY DEF GroupInv, LiveEnclosed, Placed, TypeOK
<1>2. Enclosed(h)'
  BY <1>1 DEF Placed, Enclosed, Open
<1>3. WrapDepth(h)' = WrapDepth(h)
  BY DEF WrapDepth
<1>4. HasNext(h)' = HasNext(h)
  BY DEF HasNext
<1> QED BY <1>1, <1>2, <1>3, <1>4 DEF Placed

LEMMA WrapLive ==
    ASSUME GroupInv, NEW g \in Groups, Wrap(g)
    PROVE  LiveEnclosed'
<1> USE DEF GroupInv
<1>1. /\ live' = {h \in live \ {g} : decoder[h].depth <= WrapDepth(g)}
                     \union (IF Enclosed(g) THEN {g} ELSE {})
      /\ UNCHANGED <<message, mScopes, owner>>
  BY DEF Wrap
<1>2. /\ WrapDepth(g) \in Nat /\ decoder'[g].depth = WrapDepth(g)
      /\ decoder'[g].repeat = 0
      /\ Enclosed(g) => mScopeDepth' = WrapDepth(g)
      /\ decoder'[g].count > 0 => ScopeOf(mScopeDepth').begin < decoder'[g].next
      /\ \A h \in Groups : h # g => decoder'[h] = decoder[h]
      /\ \A n \in Nat : n < mScopeDepth /\ n < WrapDepth(g) => n < mScopeDepth'
  BY WrapResult
<1>3. \A depth : ScopeOf(depth)' = ScopeOf(depth)
  BY <1>1 DEF ScopeOf, size
<1>4. ASSUME Enclosed(g), Parent[g] # NoGroup
      PROVE  /\ Parent[g] # g /\ Parent[g] \in live' /\ Open(Parent[g])
             /\ decoder'[Parent[g]] = decoder[Parent[g]]
             /\ decoder[Parent[g]].depth < WrapDepth(g)
  <2>1. Parent[g] \in live /\ Open(Parent[g]) /\ Parent[g] \in Groups
    BY <1>4 DEF Enclosed, TypeOK
  <2>2. decoder[Parent[g]].depth \in Nat /\ WrapDepth(g) = decoder[Parent[g]].depth + 1
    BY <1>4, <2>1 DEF WrapDepth, TypeOK, Decoder
  <2>3. Parent[g] # g
    BY <2>1, <2>2 DEF LiveEnclosed
  <2> QED BY <1>1, <1>2, <2>1, <2>2, <2>3
<1>5. ASSUME Enclosed(g) PROVE Placed(g)'
  <2>1. Enclosed(g)'
    BY <1>1, <1>2, <1>4, <1>5 DEF Enclosed, Open
  <2>2. WrapDepth(g)' = WrapDepth(g)
    BY <1>4, <1>5 DEF WrapDepth
  <2> QED BY <1>2, <1>3, <1>5, <2>1, <2>2 DEF Placed, HasNext
<1>6. ASSUME NEW h \in live, decoder[h].depth <= WrapDepth(g), h # g PROVE Placed(h)'
  <2>1. ASSUME Parent[h] # NoGroup
        PROVE  /\ Parent[h] \in live' /\ decoder'[Parent[h]] = decoder[Parent[h]]
               /\ decoder[Parent[h]].depth < mScopeDepth'
    <3>1. /\ Parent[h] \in live /\ decoder[Parent[h]].depth \in Nat
          /\ decoder[h].depth = decoder[Parent[h]].depth + 1 /\ Open(Parent[h])
      BY <2>1, ParentPlaced
    <3>2. decoder[Parent[h]].depth < WrapDepth(g)
      BY <1>2, <1>6, <3>1
    <3>3. Parent[h] # g
      BY <1>2, <3>1, <3>2 DEF LiveEnclosed
    <3>4. decoder[Parent[h]].depth < mScopeDepth'
      BY <1>2, <3>1, <3>2 DEF Open
    <3> QED BY <1>1, <1>2, <3>1, <3>2, <3>3, <3>4 DEF TypeOK
  <2> QED BY <1>1, <1>2, <1>3, <1>6, <2>1, PlacedKept DEF TypeOK
<1> QED BY <1>1, <1>5, <1>6 DEF LiveEnclosed, Placed

LEMMA NextEntryLive ==
    ASSUME GroupInv, NEW g \in Groups, NextEntry(g)
    PROVE  LiveEnclosed'
<1> USE DEF GroupInv
<1>0. PICK at \in Nat : at = At(g)
  BY AtBounds
<1>1. /\ live' = live \ Below(g) /\ message' = message /\ HasNext(g)
  BY DEF NextEntry
<1>2. /\ at \in 0 .. mScopeDepth /\ at \in Nat /\ decoder[g].depth \in Nat
      /\ \A n \in Nat : n < mScopeDepth /\ n < decoder[g].depth => n < at
  BY <1>0, AtBounds
<1>3. /\ decoder'[g].depth = decoder[g].depth /\ decoder[g].next < decoder'[g].next
      /\ decoder' \in [Groups -> Decoder]
      /\ \A h \in Groups : h # g => decoder'[h] = decoder[h]
  BY NextEntryResult
<1>4. \A d \in 0 .. at - 1 :
          d < mScopeDepth' /\ mScopes'[d] = mScopes[d] /\ owner'[d] = owner[d]
  BY <1>0, NextEntryFront
<1>5. \A d \in 0 .. at : ScopeOf(d)' = ScopeOf(d)
  BY <1>1, <1>2, <1>4 DEF ScopeOf, size
<1>6. ASSUME NEW h \in live', Parent[h] # NoGroup
      PROVE  /\ Parent[h] \in live' /\ decoder'[Parent[h]] = decoder[Parent[h]]
             /\ Open(Parent[h])
             /\ decoder[Parent[h]].depth < mScopeDepth'
             /\ owner'[decoder[Parent[h]].depth] = owner[decoder[Parent[h]].depth]
             /\ decoder[h].depth \in 0 .. at
  <2>1. /\ h \in live /\ Parent[h] \in live /\ decoder[Parent[h]].depth \in Nat
        /\ decoder[h].depth = decoder[Parent[h]].depth + 1 /\ Open(Parent[h])
    BY <1>1, <1>6, ParentPlaced
  <2>2. decoder[h].depth <= decoder[g].depth
    BY <1>1, <1>2, <1>6, <2>1 DEF Below
  <2>3. decoder[Parent[h]].depth < decoder[g].depth
    BY <1>2, <2>1, <2>2
  <2>4. Parent[h] \notin Below(g) /\ Parent[h] # g
    BY <1>2, <2>1, <2>3 DEF Below
  <2>5. decoder[Parent[h]].depth \in 0 .. at - 1
    BY <1>2, <2>1, <2>3 DEF Open
  <2>6. decoder[h].depth \in 0 .. at
    BY <1>2, <2>1, <2>5
  <2> QED BY <1>1, <1>2, <1>3, <1>4, <2>1, <2>4, <2>5, <2>6 DEF TypeOK
<1>7. ASSUME g \in live' PROVE Placed(g)'
  <2>1. /\ Placed(g) /\ g \in live
    BY <1>1, <1>7 DEF LiveEnclosed, Placed
  <2>2. Enclosed(g)'
    BY <1>6, <1>7, <2>1 DEF Placed, Enclosed, Open
  <2>3. WrapDepth(g)' = WrapDepth(g)
    BY <1>6, <1>7 DEF WrapDepth
  <2>4. decoder[g].depth = at /\ decoder[g].depth = WrapDepth(g)
    BY <1>0, <2>1, LiveDepth
  <2>5. ScopeOf(at).begin < decoder[g].next
    BY <1>1, <2>1, <2>4 DEF Placed
  <2>6. ScopeOf(at).begin \in Nat /\ decoder[g].next \in Nat /\ decoder'[g].next \in Nat
    BY <1>2, <1>3, ScopeType DEF Scope, TypeOK, Decoder
  <2>7. ScopeOf(at)' = ScopeOf(at)
    BY <1>2, <1>5
  <2>8. ScopeOf(decoder[g].depth)'.begin < decoder'[g].next
    <3>1. ScopeOf(decoder[g].depth)' = ScopeOf(at)'
      BY <1>3, <2>4 DEF ScopeOf
    <3> QED BY <1>3, <2>5, <2>6, <2>7, <3>1
  <2> QED BY <1>3, <2>2, <2>3, <2>4, <2>8 DEF Placed
<1>8. ASSUME NEW h \in live', h # g PROVE Placed(h)'
  <2>1. h \in live /\ h \in Groups /\ decoder'[h] = decoder[h]
    BY <1>1, <1>3, <1>8 DEF TypeOK
  <2>2. decoder[h].depth \in 0 .. at
    <3>1. CASE Parent[h] = NoGroup
      BY <1>2, <2>1, <3>1, LiveDepth DEF WrapDepth
    <3> QED BY <1>6, <1>8, <3>1
  <2>3. ScopeOf(decoder[h].depth)' = ScopeOf(decoder[h].depth)
    <3>1. PICK n \in 0 .. at : n = decoder[h].depth
      BY <2>2
    <3>2. ScopeOf(n)' = ScopeOf(n)
      BY <1>1, <1>2, <1>4, <3>1 DEF ScopeOf, size
    <3> QED BY <2>1, <3>1, <3>2 DEF ScopeOf, size
  <2> QED BY <1>6, <1>8, <2>1, <2>3, PlacedKept
<1> QED BY <1>7, <1>8 DEF LiveEnclosed, Placed

LEMMA ClearLive ==
    ASSUME GroupInv, NEW g \in Groups, Clear(g)
    PROVE  LiveEnclosed'
<1> USE DEF GroupInv
<1>1. /\ live' = live \ ({g} \union IF decoder[g].repeat > 0 THEN Below(g) ELSE {})
      /\ UNCHANGED <<message, mScopes, owner>>
  BY DEF Clear
<1>2. /\ decoder[g].depth \in Nat /\ mScopeDepth \in Nat
      /\ \A n \in Nat : n < mScopeDepth /\ n < decoder[g].depth => n < At(g)
      /\ \A h \in Groups : h # g => decoder'[h] = decoder[h]
      /\ mScopeDepth' = IF decoder[g].repeat > 0 THEN At(g) ELSE mScopeDepth
  BY AtBounds, ClearResult
<1>3. \A depth : ScopeOf(depth)' = ScopeOf(depth)
  BY <1>1 DEF ScopeOf, size
<1>4. SUFFICES ASSUME NEW h \in live' PROVE Placed(h)'
  BY DEF LiveEnclosed, Placed
<1>5. h \in live /\ h \in Groups /\ h # g /\ decoder'[h] = decoder[h]
  BY <1>1, <1>2 DEF TypeOK
<1>6. ASSUME Parent[h] # NoGroup
      PROVE  /\ Parent[h] \in live' /\ decoder'[Parent[h]] = decoder[Parent[h]]
             /\ decoder[Parent[h]].depth < mScopeDepth'
  <2>1. /\ Parent[h] \in live /\ decoder[Parent[h]].depth \in Nat
        /\ decoder[h].depth = decoder[Parent[h]].depth + 1 /\ Open(Parent[h])
    BY <1>5, <1>6, ParentPlaced
  <2>2. CASE decoder[g].repeat > 0
    <3>1. decoder[h].depth <= decoder[g].depth
      BY <1>1, <1>2, <1>5, <2>1, <2>2 DEF Below
    <3>2. decoder[Parent[h]].depth < decoder[g].depth
      BY <1>2, <2>1, <3>1
    <3>3. Parent[h] \notin Below(g) /\ Parent[h] # g
      BY <1>2, <2>1, <3>2 DEF Below
    <3> QED BY <1>1, <1>2, <2>1, <2>2, <3>2, <3>3 DEF TypeOK, Open
  <2>3. CASE ~ (decoder[g].repeat > 0)
    <3>1. decoder[Parent[h]].depth \in 0 .. mScopeDepth - 1
      BY <1>2, <2>1 DEF Open
    <3>2. decoder[Parent[h]].repeat > 0
      BY <2>1, <3>1 DEF Open, ScopesOwned
    <3> QED BY <1>1, <1>2, <2>1, <2>3, <3>2 DEF TypeOK, Open
  <2> QED BY <2>2, <2>3
<1> QED BY <1>1, <1>3, <1>5, <1>6, PlacedKept

\* What ScopesNested says of one scope.
Nested(d) ==
    /\ mScopes[d].begin < mScopes[d].end
    /\ owner[d] \in live =>
          /\ ScopeOf(d).begin < mScopes[d].begin
          /\ mScopes[d].begin < ScopeOf(d).end => mScopes[d].end <= ScopeOf(d).end

\* Scopes given up leave the others nested as they are, if no group has since been
\* wrapped where it belongs that owns one.
LEMMA FewerScopesNested ==
    ASSUME GroupInv, mScopeDepth' \in 0 .. mScopeDepth, UNCHANGED <<message, mScopes, owner>>,
           \A d \in 0 .. mScopeDepth' - 1 : owner[d] \in live' => owner[d] \in live
    PROVE  ScopesNested'
<1>1. mScopeDepth \in Nat
  BY GroupAssumption DEF GroupInv, TypeOK
<1>2. \A d \in 0 .. mScopeDepth' - 1 : d \in 0 .. mScopeDepth - 1
  BY <1>1, FewerIndices
<1>3. \A d : ScopeOf(d)' = ScopeOf(d) /\ mScopes'[d] = mScopes[d]
  BY DEF ScopeOf, size
<1> QED BY <1>2, <1>3 DEF GroupInv, ScopesNested

LEMMA NextEntryNested ==
    ASSUME GroupInv, NEW g \in Groups, NextEntry(g)
    PROVE  ScopesNested'
<1> USE GroupAssumption DEF GroupInv
<1>0. PICK at \in Nat : at = At(g)
  BY AtBounds
<1>1. /\ at \in 0 .. mScopeDepth /\ at \in Nat /\ mScopeDepth \in Nat
      /\ message' = message /\ HasNext(g) /\ live' = live \ Below(g)
      /\ decoder[g].next < decoder'[g].next
      /\ decoder[g].next < ScopeOf(at).end => decoder'[g].next <= ScopeOf(at).end
  BY <1>0, AtBounds, NextEntryResult DEF NextEntry
<1>2. \A d \in 0 .. at - 1 : /\ d \in 0 .. mScopeDepth - 1
                             /\ mScopes'[d] = mScopes[d] /\ owner'[d] = owner[d]
  BY <1>0, NextEntryFront
<1>3. \/ mScopeDepth' = at
      \/ /\ at < MaxGroupDepth /\ mScopeDepth' = at + 1
         /\ mScopes' = [mScopes EXCEPT ![at] =
              [begin |-> decoder[g].next, end |-> decoder'[g].next]]
         /\ owner' = [owner EXCEPT ![at] = g]
  BY <1>0, NextEntryResult
<1>4. \A d \in 0 .. at : ScopeOf(d)' = ScopeOf(d)
  BY <1>1, <1>2 DEF ScopeOf, size
<1>5. ASSUME NEW d \in 0 .. at - 1 PROVE Nested(d)'
  <2>1. d \in 0 .. at /\ d \in 0 .. mScopeDepth - 1
    BY <1>1, <1>2
  <2>2. ScopeOf(d)' = ScopeOf(d) /\ mScopes'[d] = mScopes[d] /\ owner'[d] = owner[d]
    BY <1>2, <1>4, <2>1
  <2>3. Nested(d)
    BY <2>1 DEF ScopesNested, Nested
  <2> QED BY <1>1, <2>2, <2>3 DEF Nested
<1>6. CASE mScopeDepth' = at
  BY <1>5, <1>6 DEF ScopesNested, Nested
<1>7. CASE /\ at < MaxGroupDepth /\ mScopeDepth' = at + 1
           /\ mScopes' = [mScopes EXCEPT ![at] =
                [begin |-> decoder[g].next, end |-> decoder'[g].next]]
           /\ owner' = [owner EXCEPT ![at] = g]
  <2>1. at \in Depth
    BY <1>1, <1>7 DEF Depth
  <2>2. /\ mScopes'[at] = [begin |-> decoder[g].next, end |-> decoder'[g].next]
        /\ owner'[at] = g /\ ScopeOf(at)' = ScopeOf(at)
    BY <1>1, <1>4, <1>7, <2>1 DEF TypeOK
  <2>3. ASSUME g \in live PROVE ScopeOf(at).begin < decoder[g].next
    BY <1>0, <1>1, <2>3, LiveDepth DEF LiveEnclosed
  <2>4. Nested(at)'
    BY <1>1, <2>2, <2>3 DEF Nested
  <2>5. ASSUME NEW d \in 0 .. mScopeDepth' - 1 PROVE d = at \/ d \in 0 .. at - 1
    BY <1>1, <1>7
  <2>6. ASSUME NEW d \in 0 .. mScopeDepth' - 1 PROVE Nested(d)'
    <3>1. CASE d = at
      BY <2>4, <3>1
    <3>2. CASE d \in 0 .. at - 1
      BY <1>5, <3>2
    <3> QED BY <2>5, <2>6, <3>1, <3>2
  <2> QED BY <2>6 DEF ScopesNested, Nested
<1> QED BY <1>3, <1>6, <1>7

LEMMA ScopesNestedStep ==
    ASSUME GroupInv, [Next]_vars
    PROVE  ScopesNested'
<1> USE DEF GroupInv
<1>1. ASSUME NEW m \in Messages, WrapMessage(m) PROVE ScopesNested'
  BY <1>1 DEF WrapMessage, ScopesNested
<1>2. ASSUME NEW g \in Groups, Wrap(g) PROVE ScopesNested'
  BY <1>2, WrapResult, WrapLiveOwners, FewerScopesNested DEF Wrap
<1>3. ASSUME NEW g \in Groups, Clear(g) PROVE ScopesNested'
  BY <1>3, ClearResult, FewerScopesNested DEF Clear
<1>4. CASE UNCHANGED vars
  <2>1. mScopeDepth' \in 0 .. mScopeDepth
    BY <1>4, GroupAssumption DEF vars, TypeOK
  <2> QED BY <1>4, <2>1, FewerScopesNested DEF vars
<1> QED BY <1>1, <1>2, <1>3, <1>4, NextEntryNested DEF Next

LEMMA LiveEnclosedStep ==
    ASSUME GroupInv, [Next]_vars
    PROVE  LiveEnclosed'
<1>1. ASSUME NEW m \in Messages, WrapMessage(m) PROVE LiveEnclosed'
  BY <1>1 DEF WrapMessage, LiveEnclosed
<1>2. CASE UNCHANGED vars
  <2>1. ASSUME NEW h \in live' PROVE Placed(h)'
    BY <1>2 DEF GroupInv, LiveEnclosed, Placed, vars, Enclosed, Open, WrapDepth, HasNext,
               ScopeOf, size
  <2> QED BY <2>1 DEF LiveEnclosed, Placed
<1> QED BY <1>1, <1>2, WrapLive, NextEntryLive, ClearLive DEF Next

-----------------------------------------------------------------------------
\* The scopes, the group decoders and the history of the specification are always
\* what they are said to be, and the invariant of this module holds.
THEOREM Invariance == Spec => []GroupInv
<1>1. Init => GroupInv
  <2> SUFFICES ASSUME Init PROVE GroupInv
    OBVIOUS
  <2>1. Fresh \in Decoder /\ [begin |-> 0, end |-> 0] \in Scope
    BY DEF Fresh, Decoder, Scope
  <2>2. TypeOK
    BY <2>1, GroupAssumption DEF Init, TypeOK
  <2>3. ScopesOwned /\ LiveEnclosed /\ ScopesNested
    BY DEF Init, ScopesOwned, LiveEnclosed, ScopesNested
  <2> QED BY <2>2, <2>3 DEF GroupInv
<1>2. GroupInv /\ [Next]_vars => GroupInv'
  BY TypeOKStep, ScopesOwnedStep, LiveEnclosedStep, ScopesNestedStep DEF GroupInv
<1> QED BY <1>1, <1>2, PTL DEF Spec

\* Type correctness of FieldDecoder's scopes and the group decoders: in particular
\* the scope stack never has more scopes than there is room for.
THEOREM TypeCorrect == Spec => []TypeOK
BY Invariance, PTL DEF GroupInv

\* However wrap(), next() and clear() of groups are interleaved, those of siblings and
\* of decoders the application kept included, the scopes up to the entry of a group
\* wrapped where it belongs are the current entries of the groups on one path of the
\* schema (GroupDecoder.hpp:80-148).
THEOREM OpenScopesOwned == Spec => []ScopesOwned
BY Invariance, PTL DEF GroupInv

\* A group wrapped where it belongs stays in that entry until the entry's own group
\* moves on, whatever is done with any other decoder.
THEOREM LiveGroupsEnclosed == Spec => []LiveEnclosed
BY Invariance, PTL DEF GroupInv

\* No scope is empty, whoever pushed it, and that of a group wrapped where it belongs
\* ends inside the scope around it if it starts there.
THEOREM OpenScopesNested == Spec => []ScopesNested
BY Invariance, PTL DEF GroupInv

\* One call leaves the scopes in front of its group's depth alone.
LEMMA EnclosingStep ==
    ASSUME GroupInv, NEW g \in Groups, Wrap(g) \/ NextEntry(g) \/ Clear(g),
           NEW d \in 0 .. mScopeDepth - 1, d < decoder'[g].depth
    PROVE  d < mScopeDepth' /\ mScopes'[d] = mScopes[d] /\ owner'[d] = owner[d]
<1> USE DEF GroupInv
<1>1. /\ mScopeDepth \in Nat /\ decoder[g].depth \in Nat /\ At(g) \in Nat
      /\ \A n \in Nat : n < mScopeDepth /\ n < decoder[g].depth => n < At(g)
  BY AtBounds
<1>2. d \in Nat /\ d < mScopeDepth
  BY <1>1
<1>3. CASE Wrap(g)
  <2>1. d < mScopeDepth'
    BY <1>2, <1>3, WrapResult
  <2> QED BY <1>3, <2>1 DEF Wrap
<1>4. CASE NextEntry(g)
  <2>1. d \in 0 .. At(g) - 1
    BY <1>1, <1>2, <1>4, NextEntryResult
  <2> QED BY <1>4, <2>1, NextEntryFront
<1>5. CASE Clear(g)
  <2>1. d < mScopeDepth'
    BY <1>1, <1>2, <1>5, ClearResult
  <2> QED BY <1>5, <2>1 DEF Clear
<1> QED BY <1>3, <1>4, <1>5

\* wrap(), next() and clear() of a group, wherever it was wrapped, leave the scopes in
\* front of its depth alone.
THEOREM EnclosingKept == Spec => EnclosingEntriesKept
<1>1. GroupInv /\ [Next]_vars =>
        [\A g \in Groups :
           Wrap(g) \/ NextEntry(g) \/ Clear(g) =>
             \A d \in 0 .. mScopeDepth - 1 : d < decoder'[g].depth =>
               d < mScopeDepth' /\ mScopes'[d] = mScopes[d] /\ owner'[d] = owner[d]]_vars
  BY EnclosingStep
<1> QED BY <1>1, Invariance, PTL DEF Spec, EnclosingEntriesKept

-----------------------------------------------------------------------------
(***************************************************************************)
(* Which entry the getters search.  EntryExact is about the group whose    *)
(* scope is open; that it stays true needs to be known of every group that *)
(* is wrapped where it belongs: how many of its entries lie in front of where    *)
(* the next one starts (NextFound), and which one it is in (EntryFound).   *)
(* Both are said of a group g, its members d and the scope sc that it is   *)
(* looked for in, so that they can be said of the members after a call.    *)
(***************************************************************************)
UpTo(S, n)   == {i \in S : i <= n}
Before(S, n) == {i \in S : i < n}
Beyond(S, n, end) == Least({i \in S : i > n} \union {end})

Outer(g)           == ScopeOf(decoder[g].depth)
CountFields(g, sc) == {i \in sc.begin .. sc.end - 1 : Field(i).tag = CountTag[g]}
CountField(g, sc)  == Least(CountFields(g, sc))
Delimiter(g, sc)   == Field(CountField(g, sc) + 1).tag
Starts(g, sc) ==
    {i \in sc.begin .. sc.end - 1 : i > CountField(g, sc) /\ Field(i).tag = Delimiter(g, sc)}

NextFound(d, S, end) ==
    IF d.next < end
    THEN d.next \in S /\ Cardinality(Before(S, d.next)) = d.repeat
    ELSE Cardinality(S) <= d.repeat

EntryFound(d, S, end) ==
    d.repeat \in 1 .. Cardinality(S) =>
        /\ d.offset \in S
        /\ Cardinality(UpTo(S, d.offset)) = d.repeat
        /\ d.next = Beyond(S, d.offset, end)

Counted(g, d, sc) ==
    d.count > 0 =>
        /\ CountFields(g, sc) # {}
        /\ d.delim = Delimiter(g, sc)
        /\ NextFound(d, Starts(g, sc), sc.end)
        /\ EntryFound(d, Starts(g, sc), sc.end)

EntryInv ==
    \A g \in live : /\ Counted(g, decoder[g], Outer(g))
                    /\ decoder[g].repeat > 0 => decoder[g].count > 0

\* The elements of a set up to one of them are one more than those before it, and the
\* next one, if there is one, has just those before it.
LEMMA NextStart ==
    ASSUME NEW end \in Nat, NEW S \in SUBSET (0 .. end - 1), NEW n \in S
    PROVE  /\ IsFiniteSet(S)
           /\ Cardinality(UpTo(S, n)) = Cardinality(Before(S, n)) + 1
           /\ Beyond(S, n, end) \in n + 1 .. end
           /\ Beyond(S, n, end) < end =>
                  /\ Beyond(S, n, end) \in S
                  /\ Before(S, Beyond(S, n, end)) = UpTo(S, n)
           /\ Beyond(S, n, end) >= end => UpTo(S, n) = S
<1> DEFINE T == {i \in S : i > n} \union {end}
           m == Beyond(S, n, end)
<1>1. IsFiniteSet(S) /\ IsFiniteSet(Before(S, n))
  <2>1. IsFiniteSet(0 .. end - 1)
    BY FS_Interval
  <2>2. IsFiniteSet(S)
    BY <2>1, FS_Subset
  <2>3. Before(S, n) \in SUBSET S
    BY DEF Before
  <2> QED BY <2>2, <2>3, FS_Subset
<1>2. \A i \in S : i \in Nat /\ i < end
  OBVIOUS
<1>3. Cardinality(UpTo(S, n)) = Cardinality(Before(S, n)) + 1
  <2>1. n \in Nat /\ n \notin Before(S, n)
    BY <1>2 DEF Before
  <2>2. ASSUME NEW i \in S PROVE i <= n <=> i < n \/ i = n
    BY <1>2, <2>1
  <2>3. UpTo(S, n) = Before(S, n) \union {n}
    BY <2>2 DEF UpTo, Before
  <2> QED BY <1>1, <2>1, <2>3, FS_AddElement
<1>4. m \in T /\ \A i \in T : m <= i
  <2>1. T \in SUBSET Nat /\ T # {}
    BY <1>2
  <2>2. m = Least(T)
    BY DEF Beyond
  <2> HIDE DEF T, m
  <2> QED BY <2>1, <2>2, LeastOfNat
<1> HIDE DEF m
<1>5. m \in n + 1 .. end /\ (m < end => m \in S)
  BY <1>2, <1>4
<1>6. ASSUME m < end PROVE Before(S, m) = UpTo(S, n)
  <2>1. ASSUME NEW i \in S PROVE i < m <=> i <= n
    <3>1. i \in Nat /\ n \in Nat /\ m \in Nat /\ n < m /\ (i > n => m <= i)
      BY <1>2, <1>4, <1>5
    <3> QED BY <3>1
  <2> QED BY <2>1 DEF Before, UpTo
<1>7. ASSUME m >= end PROVE UpTo(S, n) = S
  <2>1. ASSUME NEW i \in S PROVE i <= n
    <3>1. i \in Nat /\ i < end /\ n \in Nat /\ m \in Nat /\ (i > n => m <= i)
      BY <1>2, <1>4, <1>5
    <3> QED BY <1>7, <3>1
  <2> QED BY <2>1 DEF UpTo
<1> QED BY <1>1, <1>3, <1>5, <1>6, <1>7 DEF m

\* Where a scan for a tag stops.
LEMMA FindIs ==
    ASSUME NEW offset \in Nat, NEW tag, NEW end \in Nat, offset <= end
    PROVE  Find(offset, tag, end) =
               Least({i \in offset .. end - 1 : Field(i).tag = tag} \union {end})
<1>1. CASE offset = end
  <2>1. {i \in offset .. end - 1 : Field(i).tag = tag} \union {end} = {end}
    BY <1>1
  <2>2. Least({end}) = end
    <3>1. {end} \in SUBSET Nat /\ {end} # {}
      OBVIOUS
    <3>2. Least({end}) \in {end}
      BY <3>1, LeastOfNat
    <3> QED BY <3>2
  <2> QED BY <1>1, <2>1, <2>2 DEF Find
<1>2. CASE offset < end
  BY <1>2 DEF Find
<1> QED BY <1>1, <1>2

\* The count field is in the scope, and the entries start behind it.
LEMMA StartsType ==
    ASSUME NEW g \in Groups, NEW sc \in Scope
    PROVE  /\ sc.begin \in Nat /\ sc.end \in Nat
           /\ Starts(g, sc) \in SUBSET (0 .. sc.end - 1)
           /\ CountFields(g, sc) # {} =>
                  /\ CountField(g, sc) \in CountFields(g, sc)
                  /\ CountField(g, sc) \in sc.begin .. sc.end - 1
<1>1. sc.begin \in Nat /\ sc.end \in Nat
  BY DEF Scope
<1>2. CountFields(g, sc) \in SUBSET Nat /\ CountFields(g, sc) \subseteq sc.begin .. sc.end - 1
  BY <1>1 DEF CountFields
<1>3. CountFields(g, sc) # {} => CountField(g, sc) \in CountFields(g, sc)
  BY <1>2, LeastOfNat DEF CountField
<1>4. Starts(g, sc) \in SUBSET (0 .. sc.end - 1)
  BY <1>1 DEF Starts
<1> QED BY <1>1, <1>2, <1>3, <1>4

\* nextGroupOffset() from the count field, or from the start of an entry, finds the
\* start of the next entry or the end of the scope.
LEMMA NextIsBeyond ==
    ASSUME NEW g \in Groups, NEW sc \in Scope, CountFields(g, sc) # {},
           NEW n \in CountField(g, sc) .. sc.end - 1
    PROVE  Find(n + 1, Delimiter(g, sc), sc.end) = Beyond(Starts(g, sc), n, sc.end)
<1> DEFINE tag == Delimiter(g, sc)
           end == sc.end
           S   == Starts(g, sc)
<1>1. /\ CountField(g, sc) \in Nat /\ end \in Nat /\ sc.begin \in Nat
      /\ sc.begin <= CountField(g, sc)
  BY StartsType
<1>2. n + 1 \in Nat /\ n + 1 <= end
  BY <1>1
<1>3. S = {i \in sc.begin .. end - 1 : i > CountField(g, sc) /\ Field(i).tag = tag}
  BY DEF Starts
<1> HIDE DEF tag, S, end
<1>4. {i \in n + 1 .. end - 1 : Field(i).tag = tag} = {i \in S : i > n}
  <2>1. n \in Nat /\ n >= CountField(g, sc)
    BY <1>1 DEF end
  <2>2. ASSUME NEW i
        PROVE  i \in n + 1 .. end - 1 <=>
                   i \in sc.begin .. end - 1 /\ i > CountField(g, sc) /\ i > n
    BY <1>1, <2>1
  <2> QED BY <1>3, <2>2
<1>5. Find(n + 1, tag, end)
          = Least({i \in n + 1 .. end - 1 : Field(i).tag = tag} \union {end})
  BY <1>1, <1>2, FindIs
<1> QED BY <1>4, <1>5 DEF Beyond, tag, S, end

\* What is known of a group after a step that leaves the message alone.
LEMMA CountedAfter ==
    ASSUME message' = message, NEW g, NEW d, NEW sc, decoder'[g] = d, Outer(g)' = sc
    PROVE  Counted(g, decoder[g], Outer(g))' <=> Counted(g, d, sc)
<1>1. \A i : Field(i)' = Field(i)
  BY DEF Field, NoField
<1>2. CountFields(g, Outer(g))' = CountFields(g, sc)
  BY <1>1 DEF CountFields
<1>3. CountField(g, Outer(g))' = CountField(g, sc)
  BY <1>2 DEF CountField
<1>4. Delimiter(g, Outer(g))' = Delimiter(g, sc)
  BY <1>1, <1>3 DEF Delimiter
<1>5. Starts(g, Outer(g))' = Starts(g, sc)
  BY <1>1, <1>3, <1>4 DEF Starts
<1> QED BY <1>2, <1>4, <1>5 DEF Counted, NextFound, EntryFound

\* wrap() knows the first entry: where it starts, and that none is in front of it.
LEMMA WrapCounted ==
    ASSUME TypeOK, NEW g \in Groups, Enclosed(g), Wrap(g)
    PROVE  Counted(g, decoder'[g], ScopeOf(WrapDepth(g)))
<1> DEFINE sc    == ScopeOf(WrapDepth(g))
           end   == sc.end
           S     == Starts(g, sc)
           field == Find(sc.begin, CountTag[g], sc.end)
           d     == decoder'[g]
<1>1. /\ WrapDepth(g) \in 0 .. mScopeDepth
      /\ Truncated(WrapDepth(g)) = WrapDepth(g)
  <2>1. WrapDepth(g) \in 0 .. mScopeDepth
    BY EnclosedDepth
  <2> QED BY <2>1, TruncatedBounds DEF TypeOK
<1>2. sc \in Scope /\ sc.begin \in Nat /\ end \in Nat
  BY <1>1, ScopeType DEF Scope
<1>3. d.repeat = 0
  BY WrapResult
<1>4. SUFFICES ASSUME d.count > 0
               PROVE  /\ CountFields(g, sc) # {} /\ d.delim = Delimiter(g, sc)
                      /\ NextFound(d, S, end)
  BY <1>3 DEF Counted, EntryFound
<1>5. /\ field < end
      /\ d.delim = Field(field + 1).tag
      /\ d.next = Find(field + 1, d.delim, end)
  <2> DEFINE found == field < end
             count == IF found THEN Field(field).number ELSE 0
             delim == IF found THEN Field(field + 1).tag ELSE decoder[g].delim
             next  == IF count > 0 THEN NextGroupOffset(field, delim, WrapDepth(g))
                      ELSE decoder[g].next
             new   == [count |-> count, repeat |-> 0, delim |-> delim,
                       offset |-> IF found THEN field ELSE 0, next |-> next,
                       depth |-> WrapDepth(g)]
  <2>1. decoder' = [decoder EXCEPT ![g] = new]
    BY <1>1 DEF Wrap
  <2>2. d = new
    <3> HIDE DEF new
    <3> QED BY <2>1 DEF TypeOK
  <2>3. count > 0
    <3> HIDE DEF count, delim, next, d
    <3> QED BY <2>2, <1>4
  <2>4. found
    BY <2>3
  <2>5. d.delim = delim /\ d.next = next
    <3> HIDE DEF count, delim, next, d
    <3> QED BY <2>2
  <2>6. next = Find(field + 1, delim, end)
    BY <2>3 DEF NextGroupOffset
  <2> HIDE DEF next
  <2> QED BY <2>4, <2>5, <2>6
<1> HIDE DEF sc, end, S, field, d
<1>6. /\ sc.begin < end /\ field \in CountFields(g, sc)
      /\ \A i \in CountFields(g, sc) : field <= i
  <2> DEFINE T == CountFields(g, sc) \union {end}
  <2>1. sc.begin < end
    BY <1>2, <1>5 DEF Find, field, end
  <2>2. field = Least(T)
    BY <1>2, <2>1 DEF Find, CountFields, field, end
  <2>3. T \in SUBSET Nat /\ T # {}
    BY <1>2 DEF CountFields, end
  <2> HIDE DEF T
  <2>4. field \in T /\ \A i \in T : field <= i
    BY <2>2, <2>3, LeastOfNat
  <2> QED BY <1>2, <1>5, <2>1, <2>4 DEF T
<1>7. CountField(g, sc) = field
  <2>1. CountFields(g, sc) \in SUBSET Nat /\ CountFields(g, sc) # {}
    BY <1>2, <1>6 DEF CountFields
  <2>2. /\ CountField(g, sc) \in CountFields(g, sc)
        /\ \A i \in CountFields(g, sc) : CountField(g, sc) <= i
    BY <2>1, LeastOfNat DEF CountField
  <2>3. field <= CountField(g, sc) /\ CountField(g, sc) <= field
    BY <1>6, <2>2
  <2> QED BY <1>6, <2>1, <2>2, <2>3
<1>8. field \in Nat /\ field \in CountField(g, sc) .. sc.end - 1
  <2>1. field \in Nat
    BY <1>2, <1>6 DEF CountFields
  <2> QED BY <1>2, <1>5, <1>7, <2>1 DEF end
<1>9. d.delim = Delimiter(g, sc)
  BY <1>5, <1>7 DEF Delimiter
<1>10. d.next = Beyond(S, field, end)
  BY <1>2, <1>5, <1>6, <1>8, <1>9, NextIsBeyond DEF S, end
<1>11. \A i \in S : i \in Nat /\ i > field /\ i < end
  BY <1>2, <1>7 DEF S, Starts, end
<1>12. d.next \in S \union {end} /\ \A i \in S : d.next <= i
  <2> DEFINE T == {i \in S : i > field} \union {end}
  <2>1. T \in SUBSET Nat /\ T # {}
    BY <1>2, <1>11
  <2>2. Least(T) \in T /\ \A i \in T : Least(T) <= i
    <3> HIDE DEF T
    <3> QED BY <2>1, LeastOfNat
  <2> QED BY <1>10, <1>11, <2>2 DEF Beyond
<1>13. CASE d.next < end
  <2>1. Before(S, d.next) = {}
    <3>1. ASSUME NEW i \in S PROVE ~ (i < d.next)
      BY <1>2, <1>11, <1>12
    <3> QED BY <3>1 DEF Before
  <2>2. d.next \in S
    BY <1>2, <1>12, <1>13
  <2> QED BY <1>3, <1>6, <1>9, <1>13, <2>1, <2>2, FS_EmptySet DEF NextFound
<1>14. CASE ~ (d.next < end)
  <2>1. S = {}
    BY <1>2, <1>11, <1>12, <1>14
  <2> QED BY <1>3, <1>6, <1>9, <1>14, <2>1, FS_EmptySet DEF NextFound
<1> QED BY <1>13, <1>14

\* next() moves on by exactly one entry: the one it enters is the one it said would
\* be next, and as many are in front of it as it has entered before.
LEMMA NextEntryCounted ==
    ASSUME TypeOK, LiveEnclosed, NEW g \in live, NextEntry(g),
           Counted(g, decoder[g], Outer(g))
    PROVE  /\ Counted(g, decoder'[g], Outer(g))
           /\ decoder'[g].repeat > 0 => decoder'[g].count > 0
<1> DEFINE d    == decoder[g]
           e    == decoder'[g]
           sc   == Outer(g)
           end  == sc.end
           S    == Starts(g, sc)
           next == Find(d.next + 1, d.delim, end)
           ended == [d EXCEPT !.count = 0, !.repeat = 0, !.offset = d.next, !.next = next]
           moved == [d EXCEPT !.repeat = d.repeat + 1, !.offset = d.next, !.next = next]
<1>1. /\ g \in Groups /\ d \in Decoder /\ d.depth \in 0 .. mScopeDepth
      /\ Truncated(d.depth) = d.depth
      /\ d.repeat < d.count
  BY LiveDepth DEF NextEntry, HasNext, At, TypeOK
<1>2. sc \in Scope /\ end \in Nat
  BY <1>1, ScopeType DEF Outer, Scope
<1>3. decoder' = [decoder EXCEPT ![g] = ended] \/ decoder' = [decoder EXCEPT ![g] = moved]
  BY <1>1 DEF NextEntry, NextGroupOffset, Outer
<1>4. e = ended \/ e = moved
  <2> HIDE DEF ended, moved
  <2> QED BY <1>3 DEF TypeOK
<1>5. /\ d.count \in Nat /\ d.repeat \in Nat /\ d.next \in Nat /\ d.count > 0
  BY <1>1 DEF Decoder
<1>6. /\ CountFields(g, sc) # {} /\ d.delim = Delimiter(g, sc)
      /\ NextFound(d, S, end) /\ EntryFound(d, S, end)
  BY <1>5 DEF Counted
<1>7. S \in SUBSET (0 .. end - 1) /\ IsFiniteSet(S) /\ Cardinality(S) \in Nat
  <2>1. S \in SUBSET (0 .. end - 1)
    BY <1>1, <1>2, StartsType
  <2>2. IsFiniteSet(0 .. end - 1)
    BY <1>2, FS_Interval
  <2>3. IsFiniteSet(S)
    BY <2>1, <2>2, FS_Subset
  <2> QED BY <2>1, <2>3, FS_CardinalityType
<1> HIDE DEF sc, end, S, next, e
<1>8. /\ ended.count = 0 /\ ended.repeat = 0
      /\ moved.count = d.count /\ moved.repeat = d.repeat + 1 /\ moved.delim = d.delim
      /\ moved.offset = d.next /\ moved.next = next
  <2> HIDE DEF d
  <2> QED BY <1>1 DEF Decoder
<1> HIDE DEF ended, moved
<1>9. CASE e = ended
  BY <1>8, <1>9 DEF Counted, e, sc
<1>10. CASE e = moved
  <2>1. /\ e.count = d.count /\ e.repeat = d.repeat + 1 /\ e.delim = d.delim
        /\ e.offset = d.next /\ e.next = next
    BY <1>8, <1>10
  <2>2. CASE d.next < end
    <3>1. d.next \in S /\ Cardinality(Before(S, d.next)) = d.repeat
      BY <1>6, <2>2 DEF NextFound
    <3>2. d.next \in CountField(g, sc) .. sc.end - 1
      <4>1. CountField(g, sc) \in sc.begin .. sc.end - 1 /\ sc.begin \in Nat
        BY <1>1, <1>2, <1>6, StartsType
      <4>2. d.next > CountField(g, sc)
        BY <3>1 DEF S, Starts
      <4> QED BY <1>2, <1>5, <2>2, <4>1, <4>2 DEF end
    <3>3. next = Beyond(S, d.next, end)
      BY <1>1, <1>2, <1>6, <3>2, NextIsBeyond DEF next, S, end
    <3>4. /\ Cardinality(UpTo(S, d.next)) = d.repeat + 1
          /\ next \in Nat
          /\ next < end => next \in S /\ Before(S, next) = UpTo(S, d.next)
          /\ next >= end => UpTo(S, d.next) = S
      BY <1>2, <1>5, <1>7, <3>1, <3>3, NextStart
    <3>5. NextFound(e, S, end)
      <4>1. CASE next < end
        BY <2>1, <3>4, <4>1 DEF NextFound
      <4>2. CASE ~ (next < end)
        <5>1. Cardinality(S) = e.repeat
          BY <1>2, <2>1, <3>4, <4>2
        <5> QED BY <1>7, <2>1, <4>2, <5>1 DEF NextFound
      <4> QED BY <4>1, <4>2
    <3>6. EntryFound(e, S, end)
      BY <2>1, <3>1, <3>3, <3>4 DEF EntryFound
    <3> QED BY <1>5, <1>6, <2>1, <3>5, <3>6 DEF Counted, S, end, sc, e
  <2>3. CASE ~ (d.next < end)
    <3>1. Cardinality(S) <= d.repeat
      BY <1>6, <2>3 DEF NextFound
    <3>2. next = d.next + 1 /\ ~ (next < end)
      BY <1>2, <1>5, <2>3 DEF next, Find
    <3>3. NextFound(e, S, end)
      BY <1>5, <1>7, <2>1, <3>1, <3>2 DEF NextFound
    <3>4. EntryFound(e, S, end)
      BY <1>5, <1>7, <2>1, <3>1 DEF EntryFound
    <3> QED BY <1>5, <1>6, <2>1, <3>3, <3>4 DEF Counted, S, end, sc, e
  <2> QED BY <2>2, <2>3
<1> QED BY <1>4, <1>9, <1>10

\* What EntryInv says of one group.
Known(g) ==
    /\ Counted(g, decoder[g], Outer(g))
    /\ decoder[g].repeat > 0 => decoder[g].count > 0

\* A group whose members stay is still known if the scope around it stays too.
LEMMA KnownKept ==
    ASSUME message' = message, NEW h, Known(h), decoder'[h] = decoder[h],
           ScopeOf(decoder[h].depth)' = ScopeOf(decoder[h].depth)
    PROVE  Known(h)'
<1>1. Outer(h)' = Outer(h)
  BY DEF Outer
<1>2. Counted(h, decoder[h], Outer(h))' <=> Counted(h, decoder[h], Outer(h))
  BY <1>1, CountedAfter
<1> QED BY <1>2 DEF Known

LEMMA WrapKnown ==
    ASSUME GroupInv, EntryInv, NEW g \in Groups, Wrap(g)
    PROVE  EntryInv'
<1>1. /\ live' = {h \in live \ {g} : decoder[h].depth <= WrapDepth(g)}
                     \union (IF Enclosed(g) THEN {g} ELSE {})
      /\ UNCHANGED <<message, mScopes, owner>>
  BY DEF Wrap
<1>2. /\ decoder'[g].depth = WrapDepth(g) /\ decoder'[g].repeat = 0
      /\ \A h \in Groups : h # g => decoder'[h] = decoder[h]
  BY WrapResult DEF GroupInv
<1>3. \A depth : ScopeOf(depth)' = ScopeOf(depth)
  BY <1>1 DEF ScopeOf, size
<1>4. ASSUME Enclosed(g) PROVE Known(g)'
  <2>1. Outer(g)' = ScopeOf(WrapDepth(g))
    BY <1>2, <1>3 DEF Outer
  <2>2. Counted(g, decoder'[g], ScopeOf(WrapDepth(g)))
    BY <1>4, WrapCounted DEF GroupInv
  <2>3. Counted(g, decoder[g], Outer(g))'
    BY <1>1, <2>1, <2>2, CountedAfter
  <2> QED BY <1>2, <2>3 DEF Known
<1>5. ASSUME NEW h \in live', h # g PROVE Known(h)'
  <2>1. h \in live /\ h \in Groups /\ decoder'[h] = decoder[h] /\ Known(h)
    BY <1>1, <1>2, <1>5 DEF GroupInv, TypeOK, EntryInv, Known
  <2> QED BY <1>1, <1>3, <2>1, KnownKept
<1>6. g \in live' => Enclosed(g)
  BY <1>1
<1> QED BY <1>4, <1>5, <1>6 DEF EntryInv, Known

LEMMA NextEntryKnown ==
    ASSUME GroupInv, EntryInv, NEW g \in Groups, NextEntry(g)
    PROVE  EntryInv'
<1> USE DEF GroupInv
<1>0. PICK at \in Nat : at = At(g)
  BY AtBounds
<1>1. live' = live \ Below(g) /\ message' = message
  BY DEF NextEntry
<1>2. /\ at \in 0 .. mScopeDepth /\ decoder[g].depth \in Nat
      /\ \A n \in Nat : n < mScopeDepth /\ n < decoder[g].depth => n < at
  BY <1>0, AtBounds
<1>3. /\ decoder'[g].depth = decoder[g].depth
      /\ \A h \in Groups : h # g => decoder'[h] = decoder[h]
  BY NextEntryResult
<1>4. \A d \in 0 .. at - 1 : mScopes'[d] = mScopes[d] /\ owner'[d] = owner[d]
  BY <1>0, NextEntryFront
<1>5. \A d \in 0 .. at : ScopeOf(d)' = ScopeOf(d)
  BY <1>1, <1>2, <1>4 DEF ScopeOf, size
\* The scope around a group that stays in its entry is in front of what next() changes.
<1>6. ASSUME NEW h \in live' PROVE ScopeOf(decoder[h].depth)' = ScopeOf(decoder[h].depth)
                                  /\ Outer(h)' = Outer(h)
  <2>1. h \in live /\ h \in Groups /\ decoder'[h].depth = decoder[h].depth
    BY <1>1, <1>3, <1>6 DEF TypeOK
  <2>2. decoder[h].depth \in 0 .. at
    <3>1. CASE Parent[h] = NoGroup
      BY <1>2, <2>1, <3>1, LiveDepth DEF WrapDepth
    <3>2. CASE Parent[h] # NoGroup
      <4>1. /\ decoder[Parent[h]].depth \in Nat /\ Open(Parent[h])
            /\ decoder[h].depth = decoder[Parent[h]].depth + 1
        BY <2>1, <3>2, ParentPlaced
      <4>2. decoder[h].depth <= decoder[g].depth
        BY <1>1, <1>2, <1>6, <2>1, <4>1 DEF Below
      <4>3. decoder[Parent[h]].depth < at
        BY <1>2, <4>1, <4>2 DEF Open
      <4> QED BY <1>2, <4>1, <4>3
    <3> QED BY <3>1, <3>2
  <2>3. PICK n \in 0 .. at : n = decoder[h].depth
    BY <2>2
  <2>4. ScopeOf(n)' = ScopeOf(n)
    BY <1>1, <1>2, <1>4, <2>3 DEF ScopeOf, size
  <2> QED BY <2>1, <2>3, <2>4 DEF Outer, ScopeOf, size
<1>7. ASSUME g \in live' PROVE Known(g)'
  <2>1. g \in live /\ Counted(g, decoder[g], Outer(g))
    BY <1>1, <1>7 DEF EntryInv
  <2>2. /\ Counted(g, decoder'[g], Outer(g))
        /\ decoder'[g].repeat > 0 => decoder'[g].count > 0
    BY <2>1, NextEntryCounted
  <2>3. Counted(g, decoder[g], Outer(g))'
    BY <1>1, <1>6, <1>7, <2>2, CountedAfter
  <2> QED BY <2>2, <2>3 DEF Known
<1>8. ASSUME NEW h \in live', h # g PROVE Known(h)'
  <2>1. h \in live /\ decoder'[h] = decoder[h] /\ Known(h)
    BY <1>1, <1>3, <1>8 DEF TypeOK, EntryInv, Known
  <2> QED BY <1>1, <1>6, <1>8, <2>1, KnownKept
<1> QED BY <1>7, <1>8 DEF EntryInv, Known

LEMMA ClearKnown ==
    ASSUME GroupInv, EntryInv, NEW g \in Groups, Clear(g)
    PROVE  EntryInv'
<1> USE DEF GroupInv
<1>1. /\ live' = live \ ({g} \union IF decoder[g].repeat > 0 THEN Below(g) ELSE {})
      /\ UNCHANGED <<message, mScopes, owner>>
  BY DEF Clear
<1>2. \A h \in Groups : h # g => decoder'[h] = decoder[h]
  BY ClearResult
<1>3. \A depth : ScopeOf(depth)' = ScopeOf(depth)
  BY <1>1 DEF ScopeOf, size
<1>4. ASSUME NEW h \in live' PROVE Known(h)'
  <2>1. h \in live /\ h \in Groups /\ decoder'[h] = decoder[h] /\ Known(h)
    BY <1>1, <1>2, <1>4 DEF TypeOK, EntryInv, Known
  <2> QED BY <1>1, <1>3, <2>1, KnownKept
<1> QED BY <1>4 DEF EntryInv, Known

LEMMA EntryInvStep ==
    ASSUME GroupInv, EntryInv, [Next]_vars
    PROVE  EntryInv'
<1>1. ASSUME NEW m \in Messages, WrapMessage(m) PROVE EntryInv'
  BY <1>1 DEF WrapMessage, EntryInv
<1>2. CASE UNCHANGED vars
  <2>1. /\ UNCHANGED <<message, decoder, live>>
        /\ \A depth : ScopeOf(depth)' = ScopeOf(depth)
    BY <1>2 DEF vars, ScopeOf, size
  <2>2. ASSUME NEW h \in live PROVE Known(h)'
    BY <2>1, KnownKept DEF EntryInv, Known
  <2> QED BY <2>1, <2>2 DEF EntryInv, Known
<1> QED BY <1>1, <1>2, WrapKnown, NextEntryKnown, ClearKnown DEF Next

\* The entry the open scope of a group shows is the one that next() was called for.
LEMMA EntryIsExact ==
    ASSUME GroupInv, EntryInv
    PROVE  EntryExact
<1> USE DEF GroupInv
<1> SUFFICES ASSUME NEW g \in live, Open(g),
                    decoder[g].repeat <= Cardinality(EntryStarts(g))
             PROVE  LET entry == mScopes[decoder[g].depth]
                        later == {i \in EntryStarts(g) : i > entry.begin}
                    IN  /\ entry.begin \in EntryStarts(g)
                        /\ Cardinality(EntryStarts(g) \ later) = decoder[g].repeat
                        /\ entry.end = Least(later \union {ScopeOf(decoder[g].depth).end})
  BY DEF EntryExact
<1> DEFINE d == decoder[g]
           sc == Outer(g)
           S == Starts(g, sc)
<1>1. /\ g \in Groups /\ d \in Decoder
      /\ d.depth \in 0 .. mScopeDepth - 1 /\ owner[d.depth] = g
      /\ mScopeDepth \in Nat
  BY GroupAssumption DEF Open, TypeOK, Decoder
<1>2. /\ g \in live /\ d.repeat > 0
      /\ mScopes[d.depth] = [begin |-> d.offset, end |-> d.next]
  BY <1>1 DEF ScopesOwned
<1>3. sc \in Scope /\ sc.end \in Nat
  BY <1>1, ScopeType DEF Outer, Scope
<1>4. EntryStarts(g) = S
  BY DEF EntryStarts, Starts, Outer, CountField, CountFields, Delimiter
<1>5. EntryFound(d, S, sc.end)
  BY <1>2 DEF EntryInv, Counted
<1>6. S \in SUBSET (0 .. sc.end - 1) /\ Cardinality(S) \in Nat
  <2>1. S \in SUBSET (0 .. sc.end - 1)
    BY <1>1, <1>3, StartsType
  <2>2. IsFiniteSet(0 .. sc.end - 1)
    BY <1>3, FS_Interval
  <2> QED BY <2>1, <2>2, FS_Subset, FS_CardinalityType
<1>7. d.repeat \in 1 .. Cardinality(S)
  BY <1>1, <1>2, <1>4, <1>6 DEF Decoder
<1>8. /\ d.offset \in S /\ Cardinality(UpTo(S, d.offset)) = d.repeat
      /\ d.next = Beyond(S, d.offset, sc.end)
  BY <1>5, <1>7 DEF EntryFound
<1> HIDE DEF S
<1>9. S \ {i \in S : i > d.offset} = UpTo(S, d.offset)
  <2>1. ASSUME NEW i \in S PROVE i > d.offset <=> ~ (i <= d.offset)
    <3>1. \A j \in S : j \in Nat
      BY <1>6
    <3>2. i \in Nat /\ d.offset \in Nat
      <4> HIDE DEF d
      <4> QED BY <1>8, <3>1
    <3> QED BY <3>2
  <2> QED BY <2>1 DEF UpTo
<1>10. ScopeOf(decoder[g].depth).end = sc.end
  BY DEF Outer
<1> HIDE DEF sc
<1> QED BY <1>2, <1>4, <1>8, <1>9, <1>10 DEF Beyond

\* Of every group wrapped where it belongs it is known which entry it is in and where
\* the next one starts, counted in the scope around it (GroupDecoder.hpp:80-133).
THEOREM EntriesKnown == Spec => []EntryInv
<1>1. Init => EntryInv
  BY DEF Init, EntryInv
<1>2. GroupInv /\ EntryInv /\ [Next]_vars => EntryInv'
  BY EntryInvStep
<1> QED BY <1>1, <1>2, Invariance, PTL DEF Spec

\* After the k-th next() of a group wrapped where it belongs the getters of its entry
\* search exactly the k-th entry of the message, for any nesting of groups and any order
\* of the calls.
THEOREM EntriesExact == Spec => []EntryExact
<1>1. GroupInv /\ EntryInv => EntryExact
  BY EntryIsExact
<1> QED BY <1>1, Invariance, EntriesKnown, PTL
=============================================================================
