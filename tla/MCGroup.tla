------------------------------ MODULE MCGroup ------------------------------
(***************************************************************************)
(* Instances of the group decoder for TLC: a chain of three nested groups, *)
(* one more than the two scopes there is room for, and a sibling of the    *)
(* outermost.                                                              *)
(***************************************************************************)
EXTENDS GroupDecoder, TLC

CONSTANTS Legs, Nested, Deepest, Hops

Schema    == {Legs, Nested, Deepest, Hops}
ParentOf  == (Legs :> NoGroup) @@ (Nested :> Legs) @@ (Deepest :> Nested) @@ (Hops :> NoGroup)
CountTags == (Legs :> 555) @@ (Nested :> 539) @@ (Deepest :> 804) @@ (Hops :> 627)

T(tag)        == [tag |-> tag, number |-> 0]
N(tag, count) == [tag |-> tag, number |-> count]
Header  == <<T(8), T(9), T(35)>>
Trailer == <<T(10)>>
Whole(body)     == [tokens |-> Header \o body \o Trailer, size |-> Len(body) + 4]
Before(m, left) == [m EXCEPT !.tokens = @ \o left]

\* Two hops, the last of which reads as one that goes on to the end of the message; two
\* legs, with two nested parties and with none.
TwoHops   == <<N(627, 2), T(628), T(629), T(628)>>
Party     == <<T(524), N(804, 0)>>
SubParty  == <<T(524), N(804, 1), T(545)>>
HopsFirst ==
    Whole(TwoHops \o <<N(555, 2), T(600), N(539, 2)>> \o Party \o SubParty \o <<T(600), T(556)>>)
\* One entry fewer than the count says, with the tokens of an earlier message
\* behind the CheckSum.
Over    == Before(Whole(<<N(555, 2), T(600), N(539, 2), T(524)>>),
                  <<N(539, 2), T(524), T(524), T(10)>>)

Received == {HopsFirst, Over}

\* States that differ only in what neither an action nor a property reads before it is
\* written again are one state: the slots from mScopeDepth on; of a decoder that has no
\* entry left, its delimiter, and if its enclosing entry is gone or it is empty, all but its
\* depth and whether clear() has a scope to close; and where an entry begins that no
\* longer is one.
SeenOf(g) ==
    LET d == decoder[g]
    IN  IF HasNext(g)
        THEN <<d.depth, d.repeat, d.count, d.next, d.delim, IF g \in live THEN d.offset ELSE 0>>
        ELSE IF g \in live /\ d.repeat > 0 THEN <<d.depth, d.repeat, d.next, d.offset>>
        ELSE <<d.depth, d.repeat > 0>>
Seen == <<message, [d \in {d \in Depth : d < mScopeDepth} |-> <<mScopes[d], owner[d]>>],
          mScopeDepth, [g \in Groups |-> SeenOf(g)], live>>
=============================================================================
