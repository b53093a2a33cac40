---------------------------- MODULE GroupDecoder ----------------------------
(***************************************************************************)
(* Repeating groups: the scope stack of FieldDecoder                       *)
(* (detail/parser/FieldDecoder.hpp) and the GroupDecoder objects           *)
(* (decoder/GroupDecoder.hpp) that a message's accessors hand out, one per *)
(* group of the schema.  The application wraps a group, advances it entry  *)
(* by entry, and may do the same with a group nested in the current entry  *)
(* or with another group at the same depth.  Nothing stops it from going   *)
(* on with a decoder whose enclosing entry is gone: wrap(), next() and     *)
(* clear() of any decoder it holds may come at any time.                   *)
(*                                                                         *)
(* A message is its tokens, each a tag and, for a NumInGroup field, the    *)
(* number convertToUint32 makes of it (0 when it makes none).  The token   *)
(* arrays go on behind the message's own tokens: with what an earlier      *)
(* message left there, then with the zeros they start with.  Indices are   *)
(* zero-based.                                                             *)
(***************************************************************************)
EXTENDS Integers, Sequences, FiniteSets, Scans

CONSTANTS
    Groups,        \* the group decoders
    NoGroup,       \* no group: what encloses a group directly in the message
    Parent,        \* the group each is nested in, or NoGroup
    CountTag,      \* the NumInGroup tag of each
    MaxGroupDepth, \* slots of m_scopes
    Messages       \* the tokenized messages FieldDecoder may be wrapped over

\* A NumInGroup field is never a message's last token: the CheckSum is.
IsMessage(m) ==
    /\ m \in [tokens : Seq([tag : Nat, number : Nat]), size : Nat]
    /\ m.size \in 1 .. Len(m.tokens)
    /\ \A g \in Groups : m.tokens[m.size].tag # CountTag[g]

ASSUME GroupAssumption ==
    /\ NoGroup \notin Groups
    /\ Parent \in [Groups -> Groups \union {NoGroup}]
    /\ CountTag \in [Groups -> Nat \ {0}]
    /\ MaxGroupDepth \in Nat
    /\ \A m \in Messages : IsMessage(m)

VARIABLES
    message,      \* m_fields, m_tags and m_size
    mScopes,      \* m_scopes
    mScopeDepth,  \* m_scopeDepth
    decoder,      \* the members of each GroupDecoder
    owner,        \* history: the group whose entry each scope slot was pushed for
    live          \* history: the groups wrapped in what is still the current entry of their parent

vars == <<message, mScopes, mScopeDepth, decoder, owner, live>>

Depth == 0 .. MaxGroupDepth - 1
Scope == [begin : Nat, end : Nat]
Decoder == [count : Nat, repeat : Nat, delim : Nat, offset : Nat, next : Nat, depth : Nat]

size     == message.size
NoField  == [tag |-> 0, number |-> 0]
Field(i) == IF i + 1 \in DOMAIN message.tokens THEN message.tokens[i + 1] ELSE NoField

-----------------------------------------------------------------------------
(***************************************************************************)
(* FieldDecoder.                                                           *)
(***************************************************************************)
\* find(): where a scan from `offset` for `tag` stops.
Find(offset, tag, end) ==
    IF offset >= end THEN offset
    ELSE Least({i \in offset .. end - 1 : Field(i).tag = tag} \union {end})

\* groupScope() when `depth` scopes are open, and groupScopeAt().
ScopeOf(depth) ==
    IF depth > 0 THEN mScopes[depth - 1] ELSE [begin |-> 0, end |-> size]
ScopeAt(depth) ==
    IF depth \in 0 .. mScopeDepth - 1 THEN mScopes[depth] ELSE [begin |-> 0, end |-> 0]

\* truncateGroupScopes().  Mutant: it leaves the scopes alone.
ScopesLeft(depth) == mScopeDepth
Truncated(depth) == IF depth < mScopeDepth THEN depth ELSE mScopeDepth

\* pushGroupScope() has no room.  Mutant: one scope too many.
FullPastEnd(depth) == depth > MaxGroupDepth
Full(depth) == depth >= MaxGroupDepth

\* wrap() over the next message: the scopes go, the group decoders stay as they were.
WrapMessage(m) ==
    /\ message' = m
    /\ mScopeDepth' = 0
    /\ live' = {}
    /\ UNCHANGED <<mScopes, decoder, owner>>

-----------------------------------------------------------------------------
(***************************************************************************)
(* What the application does: it holds a nested group's decoder once its    *)
(* accessor has wrapped it, and advances a group while hasNext() says so.  *)
(***************************************************************************)

\* A decoder the application holds: a group of the message itself reads before its
\* first wrap() as in a message without it, a nested one has been wrapped below another.
Held(g) == Parent[g] = NoGroup \/ decoder[g].depth > 0

\* g's current entry is the one its getters search.
Open(g) == decoder[g].depth < mScopeDepth /\ owner[decoder[g].depth] = g

\* wrap() would look for g where it belongs: in the message itself, or in the
\* current entry of its parent.  The accessor does not ask.
Enclosed(g) ==
    \/ Parent[g] = NoGroup
    \/ Parent[g] \in live /\ Open(Parent[g])

HasNext(g) == decoder[g].repeat < decoder[g].count

\* The groups whose enclosing entry is gone once g's current entry is.
Below(g) == {h \in live : decoder[h].depth > decoder[g].depth}

-----------------------------------------------------------------------------
(***************************************************************************)
(* GroupDecoder.                                                           *)
(***************************************************************************)
\* Mutants: a nested group's entries are looked for in the whole message; the scan
\* starts at the entry's own delimiter.
NextInMessage(offset, delim, depth) == Find(offset + 1, delim, size)
NextFromOwn(offset, delim, depth) == Find(offset, delim, ScopeOf(depth).end)
NextGroupOffset(offset, delim, depth) ==
    Find(offset + 1, delim, ScopeOf(depth).end)

\* Mutant: the depth of the enclosing group itself, not one below it.
ParentDepth(g) == IF Parent[g] = NoGroup THEN 0 ELSE decoder[Parent[g]].depth

\* What the generated accessors pass to wrap(): scopeDepth's default, or childDepth().
WrapDepth(g) == IF Parent[g] = NoGroup THEN 0 ELSE decoder[Parent[g]].depth + 1

Wrap(g) ==
    /\ Parent[g] # NoGroup => Held(Parent[g])
    /\ LET depth  == WrapDepth(g)
           scopes == Truncated(depth)
           outer  == ScopeOf(scopes)
           field  == Find(outer.begin, CountTag[g], outer.end)
           found  == field < outer.end
           count  == IF found THEN Field(field).number ELSE 0
           delim  == IF found THEN Field(field + 1).tag ELSE decoder[g].delim
       IN  /\ mScopeDepth' = scopes
           /\ decoder' = [decoder EXCEPT ![g] =
                 [count |-> count, repeat |-> 0, delim |-> delim,
                  offset |-> IF found THEN field ELSE 0,
                  next |-> IF count > 0 THEN NextGroupOffset(field, delim, scopes) ELSE @.next,
                  depth |-> depth]]
    /\ live' = {h \in live \ {g} : decoder[h].depth <= WrapDepth(g)}
                \union (IF Enclosed(g) THEN {g} ELSE {})
    /\ UNCHANGED <<message, mScopes, owner>>

NextEntry(g) ==
    /\ HasNext(g)
    /\ LET d      == decoder[g]
           scopes == Truncated(d.depth)
           next   == NextGroupOffset(d.next, d.delim, scopes)
       IN  IF Full(scopes)
           THEN /\ mScopeDepth' = scopes
                /\ decoder' = [decoder EXCEPT ![g] =
                      [d EXCEPT !.count = 0, !.repeat = 0, !.offset = d.next, !.next = next]]
                /\ UNCHANGED <<mScopes, owner>>
           ELSE /\ mScopes' = [mScopes EXCEPT ![scopes] = [begin |-> d.next, end |-> next]]
                /\ mScopeDepth' = scopes + 1
                /\ decoder' = [decoder EXCEPT ![g] =
                      [d EXCEPT !.repeat = d.repeat + 1, !.offset = d.next, !.next = next]]
                /\ owner' = [owner EXCEPT ![scopes] = g]
    /\ live' = live \ Below(g)
    /\ UNCHANGED message

\* The scopes clear() keeps.  Mutant: not those of the enclosing entries.
NoScopeKept(g) == IF decoder[g].repeat > 0 THEN 0 ELSE mScopeDepth
ScopesKept(g) == IF decoder[g].repeat > 0 THEN Truncated(decoder[g].depth) ELSE mScopeDepth

Clear(g) ==
    /\ mScopeDepth' = ScopesKept(g)
    /\ decoder' = [decoder EXCEPT ![g] = [@ EXCEPT !.count = 0, !.repeat = 0, !.offset = 0]]
    /\ live' = live \ ({g} \union IF decoder[g].repeat > 0 THEN Below(g) ELSE {})
    /\ UNCHANGED <<message, mScopes, owner>>

-----------------------------------------------------------------------------
Fresh == [count |-> 0, repeat |-> 0, delim |-> 0, offset |-> 0, next |-> 0, depth |-> 0]

Init ==
    /\ message \in Messages
    /\ mScopes = [d \in Depth |-> [begin |-> 0, end |-> 0]]
    /\ mScopeDepth = 0
    /\ decoder = [g \in Groups |-> Fresh]
    /\ owner = [d \in Depth |-> NoGroup]
    /\ live = {}

Next ==
    \/ \E m \in Messages : WrapMessage(m)
    \/ \E g \in Groups : Wrap(g) \/ NextEntry(g) \/ Clear(g)

Spec == Init /\ [][Next]_vars

-----------------------------------------------------------------------------
(***************************************************************************)
(* Properties.                                                             *)
(***************************************************************************)
TypeOK ==
    /\ message \in Messages
    /\ mScopes \in [Depth -> Scope]
    /\ mScopeDepth \in 0 .. MaxGroupDepth
    /\ decoder \in [Groups -> Decoder]
    /\ owner \in [Depth -> Groups \union {NoGroup}]
    /\ live \subseteq Groups

\* Below the current entry of a group wrapped where it belongs the scope stack
\* reads as one path through the nesting of the schema: each scope is the current
\* entry of a group, at that group's own depth, and the scope below it is the
\* current entry of the group it is nested in.  Whatever the application does with
\* siblings and with decoders it kept, none of these scopes outlives its entry.
ScopesOwned ==
    \A d \in 0 .. mScopeDepth - 1 : owner[d] \in live =>
        /\ decoder[owner[d]].depth = d /\ decoder[owner[d]].repeat > 0
        /\ mScopes[d] = [begin |-> decoder[owner[d]].offset, end |-> decoder[owner[d]].next]
        /\ Parent[owner[d]] = IF d = 0 THEN NoGroup ELSE owner[d - 1]
        /\ \A e \in 0 .. d - 1 : owner[e] \in live

\* A group wrapped where it belongs stays there, at the depth it was wrapped for,
\* and its next entry starts inside that entry, until the entry's own group moves
\* on: no call on a sibling, or on a decoder whose own entry is gone, can move it.
LiveEnclosed ==
    \A g \in live :
        /\ Enclosed(g)
        /\ decoder[g].depth = WrapDepth(g)
        /\ HasNext(g) => ScopeOf(decoder[g].depth).begin < decoder[g].next

\* An open scope holds at least its delimiter, whoever pushed it, so the length
\* findIndex hands to the SIMD search is positive; that of a group wrapped where it
\* belongs starts behind the start of the scope around it, and ends inside that
\* scope if it starts there.
ScopesNested ==
    \A d \in 0 .. mScopeDepth - 1 :
        LET outer == ScopeOf(d) IN
        /\ mScopes[d].begin < mScopes[d].end
        /\ owner[d] \in live =>
              /\ outer.begin < mScopes[d].begin
              /\ mScopes[d].begin < outer.end => mScopes[d].end <= outer.end

\* The first field of each of g's entries: the tag behind its count field, as
\* often as it comes in the enclosing entry.
EntryStarts(g) ==
    LET outer == ScopeOf(decoder[g].depth)
        fields == outer.begin .. outer.end - 1
        count == Least({i \in fields : Field(i).tag = CountTag[g]})
    IN  {i \in fields : i > count /\ Field(i).tag = Field(count + 1).tag}

\* After the k-th next() the getters search exactly the k-th entry: from its
\* delimiter to the next one, or to the end of the enclosing entry, whatever was
\* wrapped, left half read or read again before, in this message or an earlier one.
EntryExact ==
    \A g \in live :
        Open(g) /\ decoder[g].repeat <= Cardinality(EntryStarts(g)) =>
            LET entry == mScopes[decoder[g].depth]
                later == {i \in EntryStarts(g) : i > entry.begin}
            IN  /\ entry.begin \in EntryStarts(g)
                /\ Cardinality(EntryStarts(g) \ later) = decoder[g].repeat
                /\ entry.end = Least(later \union {ScopeOf(decoder[g].depth).end})

\* Wrapping, advancing or leaving a group, wherever it was wrapped, never disturbs
\* the scopes in front of its depth: they stay open and unchanged.
EnclosingEntriesKept ==
    [][\A g \in Groups :
         Wrap(g) \/ NextEntry(g) \/ Clear(g) =>
             \A d \in 0 .. mScopeDepth - 1 : d < decoder'[g].depth =>
                 d < mScopeDepth' /\ mScopes'[d] = mScopes[d] /\ owner'[d] = owner[d]]_vars

\* The generator says that "a group's fields are read from its own current entry,
\* not whichever scope is innermost": where a group's getters search is the entry
\* that its own last next() found.
OwnEntryRead ==
    \A g \in live : decoder[g].repeat > 0 =>
        ScopeAt(decoder[g].depth) = [begin |-> decoder[g].offset, end |-> decoder[g].next]
=============================================================================
