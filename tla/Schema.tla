------------------------------- MODULE Schema -------------------------------
(***************************************************************************)
(* The generator's data model (generator/.../DataModel.hpp): the session's *)
(* specification is processed, the application's merged into it, node by   *)
(* node, and decoders, enumerations and the table of data fields are       *)
(* generated from what is in it then (generator/.../FixGenerator.cpp).     *)
(*                                                                         *)
(* A specification is [types, records], its nodes as they stand in the     *)
(* file: enumerations and types one after the other.  A record node has a  *)
(* kind, "component", "group" or "message", and `in`, the number of the    *)
(* record node it stands in or 0; its children are fields, groups and data *)
(* fields.  Codes of values are sequences of characters.  The maximal      *)
(* lengths of values are left out.                                         *)
(***************************************************************************)
EXTENDS Scans, Integers, Sequences, SequencesExt, FiniteSets

CONSTANTS
    Primitives,         \* name -> category: what processTypes() starts with
    MaxGroupDepth,      \* 8
    Specifications      \* pairs of a session's and an application's

ASSUME SchemaAssumption == MaxGroupDepth \in Nat \ {0}

Files   == {"session", "application"}
Element == [name : STRING, value : Seq(STRING)]
Child   ==
    [node : {"field"}, name : STRING, tag : Nat, type : STRING, presence : STRING]
    \union [node : {"group"}, name : STRING, tag : Nat, counter : STRING, presence : STRING]
    \union [node : {"data"}, name : STRING, tag : Nat, lengthTag : Nat, counter : STRING,
            presence : STRING]
TypeNode ==
    [node : {"enum"}, name : STRING, elements : Seq(Element)]
    \union [node : {"type"}, name : STRING, from : STRING]
Specification ==
    [types   : Seq(TypeNode),
     records : Seq([kind : {"component", "group", "message"}, name : STRING, in : Nat,
                    children : Seq(Child)])]

\* The groups among a record's children are record nodes themselves, and stand behind it.
GroupNodesIn(records) ==
    \A i \in DOMAIN records :
        /\ records[i].in < i
        /\ \A c \in Range(records[i].children) :
              c.node = "group" =>
                  \E j \in DOMAIN records :
                      records[j].in = i /\ records[j].kind = "group" /\ records[j].name = c.name

ASSUME SpecificationAssumption ==
    /\ Specifications \subseteq [Files -> Specification]
    /\ \A s \in Specifications, w \in Files : GroupNodesIn(s[w].records)

\* No group has a component's name, and no field stands for a record with data fields
\* in it: of either, the generated headers do not compile.
ASSUME MembersAssumption ==
    \A s \in Specifications, v, w \in Files :
        \A m \in Range(s[v].records), n \in Range(s[w].records) :
            /\ m.kind = "group" => n.kind # "component" \/ n.name # m.name
            /\ \A c \in Range(m.children) :
                  c.node = "field" /\ c.type = n.name =>
                      \A d \in Range(n.children) : d.node # "data"

EnumNodes(spec) == {i \in DOMAIN spec.types : spec.types[i].node = "enum"}

\* The session's file is consistent: its enumerations differ in their names, and the
\* enumerators of one in their codes.
ASSUME CodesAssumption ==
    \A s \in Specifications :
        LET declared == s["session"].types
        IN  \A i, j \in EnumNodes(s["session"]) :
                /\ declared[i].name = declared[j].name => i = j
                /\ \A k, l \in DOMAIN declared[i].elements :
                      declared[i].elements[k].value = declared[i].elements[l].value => k = l
                /\ \A e \in Range(declared[i].elements) : e.name # "Null"

VARIABLES
    specs,      \* the two specifications
    todo,       \* nodes to be processed, in order
    types,      \* m_types: name -> category
    enums,      \* m_enums: [name, elements]
    byType,     \* m_recordsByType
    listed,     \* m_records
    outcome     \* "running", "generated", or why there is nothing

schema == <<specs, todo, types, enums, byType, listed, outcome>>

Elements(e) == <<[name |-> "Null", value |-> <<"?">>]>> \o e.elements

-----------------------------------------------------------------------------
(***************************************************************************)
(* The order of the nodes.                                                 *)
(***************************************************************************)
\* The members of a set of numbers up to n, in order.
Ascending(n, S) == FlattenSeq([i \in 1 .. n |-> IF i \in S THEN <<i>> ELSE <<>>])

Selected(spec, kind) ==
    Ascending(Len(spec.records), {i \in DOMAIN spec.records : spec.records[i].kind = kind})
GroupsIn(spec, i) ==
    Ascending(Len(spec.records),
              {j \in DOMAIN spec.records : spec.records[j].in = i /\ spec.records[j].kind = "group"})

\* Mutant: a record comes before the groups in it.
RecordFirst(spec) ==
    LET order[i \in DOMAIN spec.records] ==
            <<i>> \o FlattenSeq([k \in DOMAIN GroupsIn(spec, i) |-> order[GroupsIn(spec, i)[k]]])
    IN  order

\* The groups in a record come before it.
GroupsFirst(spec) ==
    LET order[i \in DOMAIN spec.records] ==
            FlattenSeq([k \in DOMAIN GroupsIn(spec, i) |-> order[GroupsIn(spec, i)[k]]]) \o <<i>>
    IN  order

\* Mutant: the messages come before the groups.
MessagesBeforeGroups(spec) ==
    LET selected == Selected(spec, "message") \o Selected(spec, "component")
                    \o Selected(spec, "group")
        order    == GroupsFirst(spec)
    IN  FlattenSeq([k \in DOMAIN selected |-> order[selected[k]]])

\* All components, all groups however deep, all messages.
RecordOrder(spec) ==
    LET selected == Selected(spec, "component") \o Selected(spec, "group")
                    \o Selected(spec, "message")
        order    == GroupsFirst(spec)
    IN  FlattenSeq([k \in DOMAIN selected |-> order[selected[k]]])

NodesOf(which, node, indices) ==
    [k \in DOMAIN indices |-> [node |-> node, spec |-> which, index |-> indices[k]]]
Work(which, spec) ==
    NodesOf(which, "type", [i \in DOMAIN spec.types |-> i])
    \o NodesOf(which, "record", RecordOrder(spec))

\* select_nodes("ancestor::group").
GroupAncestors(spec) ==
    LET count[i \in DOMAIN spec.records] ==
            LET outer == spec.records[i].in
            IN  IF outer = 0 THEN 0
                ELSE count[outer] + IF spec.records[outer].kind = "group" THEN 1 ELSE 0
    IN  count

-----------------------------------------------------------------------------
(***************************************************************************)
(* Types and enumerations.                                                 *)
(***************************************************************************)
Processes(node) == todo # <<>> /\ Head(todo).node = node /\ outcome = "running"

ProcessesType(file, node) ==
    /\ Processes("type") /\ Head(todo).spec = file
    /\ specs[file].types[Head(todo).index].node = node

\* try_emplace.
Emplaced(map, key, value) ==
    IF key \in DOMAIN map THEN map
    ELSE [k \in DOMAIN map \union {key} |-> IF k = key THEN value ELSE map[k]]

Declared(e) ==
    /\ enums' = Append(enums, [name |-> e.name, elements |-> Elements(e)])
    /\ types' = Emplaced(types, e.name, "Enum")

AddEnum ==
    /\ ProcessesType("session", "enum")
    /\ Declared(specs.session.types[Head(todo).index])
    /\ todo' = Tail(todo)
    /\ UNCHANGED <<specs, byType, listed, outcome>>

\* Mutant: the application's entries come first.
ApplicationFirst(entries, added) ==
    SelectSeq(added, LAMBDA e : \A i \in DOMAIN entries : entries[i].name # e.name) \o entries

\* Entries whose name is new are appended.
Merged(entries, added) ==
    entries \o FlattenSeq([k \in DOMAIN added |->
                  IF \/ \E i \in DOMAIN entries : entries[i].name = added[k].name
                     \/ \E i \in 1 .. k - 1 : added[i].name = added[k].name
                  THEN <<>> ELSE <<added[k]>>])

MergeEnum ==
    /\ ProcessesType("application", "enum")
    /\ LET e == specs.application.types[Head(todo).index]
       IN  \E i \in DOMAIN enums :
             /\ enums[i].name = e.name
             /\ \A j \in 1 .. i - 1 : enums[j].name # e.name
             /\ enums' = [enums EXCEPT ![i].elements = Merged(@, e.elements)]
    /\ todo' = Tail(todo)
    /\ UNCHANGED <<specs, types, byType, listed, outcome>>

AddMergedEnum ==
    /\ ProcessesType("application", "enum")
    /\ LET e == specs.application.types[Head(todo).index]
       IN  (\A i \in DOMAIN enums : enums[i].name # e.name) /\ Declared(e)
    /\ todo' = Tail(todo)
    /\ UNCHANGED <<specs, byType, listed, outcome>>

\* A type derived from one that is not known yet, be it an enumeration declared behind
\* it, is left out.
WithType(t) ==
    IF t.from \in DOMAIN types THEN Emplaced(types, t.name, types[t.from]) ELSE types

AddType ==
    /\ ProcessesType("session", "type")
    /\ types' = WithType(specs.session.types[Head(todo).index])
    /\ todo' = Tail(todo)
    /\ UNCHANGED <<specs, enums, byType, listed, outcome>>

MergeType ==
    /\ ProcessesType("application", "type")
    /\ types' = WithType(specs.application.types[Head(todo).index])
    /\ todo' = Tail(todo)
    /\ UNCHANGED <<specs, enums, byType, listed, outcome>>

-----------------------------------------------------------------------------
(***************************************************************************)
(* Records.                                                                *)
(***************************************************************************)
FieldOf(tag, name, type, presence, category) ==
    [tag |-> tag, name |-> name, type |-> type, presence |-> presence, category |-> category]
PartOf(tag, name, type, lengthTag, presence, category) ==
    [tag |-> tag, name |-> name, type |-> type, lengthTag |-> lengthTag,
     presence |-> presence, category |-> category]

NoFields == [fields |-> <<>>, parts |-> <<>>]

Group(c) ==
    [fields |-> << FieldOf(0, c.name, c.name, c.presence, "Struct"),
                   FieldOf(c.tag, c.counter, c.name, c.presence, "Counter") >>,
     parts  |-> << PartOf(c.tag, c.name, c.name, 0, c.presence, "Group") >>]

DataField(c) ==
    [fields |-> << FieldOf(c.lengthTag, c.counter, c.name, c.presence, "Counter") >>,
     parts  |-> << PartOf(c.tag, c.name, "Data", c.lengthTag, c.presence, "Data") >>]

\* A component's fields, and its groups under their own names.
Expanded(component, presence) ==
    [fields |-> component.fields,
     parts  |-> [i \in DOMAIN component.parts |->
                    LET p == component.parts[i]
                    IN  PartOf(p.tag, p.name, p.name, 0, presence, "Struct")]]

\* A field of no type is a component, if one is known already.
PlainField(c) ==
    IF c.type \in DOMAIN types
    THEN [fields |-> <<FieldOf(c.tag, c.name, c.type, c.presence, types[c.type])>>,
          parts  |-> <<>>]
    ELSE IF c.type \in DOMAIN byType THEN Expanded(byType[c.type], c.presence)
    ELSE NoFields

Entries(c) ==
    CASE c.node = "group" -> Group(c)
      [] c.node = "data"  -> DataField(c)
      [] c.node = "field" -> PlainField(c)

processFields(children) ==
    [fields |-> FlattenSeq([k \in DOMAIN children |-> Entries(children[k]).fields]),
     parts  |-> FlattenSeq([k \in DOMAIN children |-> Entries(children[k]).parts])]

Record(node) ==
    [name |-> node.name, kind |-> node.kind, fields |-> processFields(node.children).fields,
     parts |-> processFields(node.children).parts]

TooDeep ==
    LET spec == specs[Head(todo).spec]
        i    == Head(todo).index
    IN  spec.records[i].kind = "group" /\ GroupAncestors(spec)[i] >= MaxGroupDepth

\* The first record of a name is kept; components get no decoder.
AddRecord ==
    /\ Processes("record") /\ ~TooDeep
    /\ LET node   == specs[Head(todo).spec].records[Head(todo).index]
           record == Record(node)
           known  == node.name \in DOMAIN byType
       IN  /\ byType' = Emplaced(byType, node.name, record)
           /\ listed' = IF known \/ node.kind = "component" THEN listed
                        ELSE Append(listed, record)
    /\ todo' = Tail(todo)
    /\ UNCHANGED <<specs, types, enums, outcome>>

\* Throws.
RefuseNesting ==
    /\ Processes("record") /\ TooDeep
    /\ outcome' = "too deep"
    /\ UNCHANGED <<specs, todo, types, enums, byType, listed>>

-----------------------------------------------------------------------------
(***************************************************************************)
(* What is generated.                                                      *)
(***************************************************************************)
\* Mutant: only the messages are looked at.
DataFieldsOfMessages ==
    {[lengthTag |-> p.lengthTag, dataTag |-> p.tag] :
        p \in UNION {{q \in Range(listed[i].parts) : q.category = "Data"} :
                        i \in {j \in DOMAIN listed : listed[j].kind = "message"}}}

\* [lengthTag, dataTag] of the data fields of all records that get a decoder.
collectDataFields ==
    {[lengthTag |-> p.lengthTag, dataTag |-> p.tag] :
        p \in UNION {{q \in Range(listed[i].parts) : q.category = "Data"} : i \in DOMAIN listed}}

\* A length tag of two data tags ends the run.
Generate ==
    /\ todo = <<>> /\ outcome = "running"
    /\ outcome' = IF \E p, q \in collectDataFields : p.lengthTag = q.lengthTag /\ p # q
                  THEN "inconsistent" ELSE "generated"
    /\ UNCHANGED <<specs, todo, types, enums, byType, listed>>

\* from(code) of a generated enumeration, the first entry of that code: a switch over
\* codes of one character, or comparisons with the others one by one.
from(entries, code) ==
    LET matches == {i \in DOMAIN entries : entries[i].name # "Null" /\ entries[i].value = code}
    IN  IF matches = {} THEN "Null" ELSE entries[Least(matches)].name

\* The fields of a decoder that have a getter.
Getters(fields) == SelectSeq(fields, LAMBDA f : f.category \notin {"Counter", "Struct"})

SchemaInit ==
    /\ specs \in Specifications
    /\ todo = Work("session", specs.session) \o Work("application", specs.application)
    /\ types = Primitives
    /\ enums = <<>> /\ byType = <<>> /\ listed = <<>>
    /\ outcome = "running"

SchemaNext ==
    \/ AddEnum \/ MergeEnum \/ AddMergedEnum \/ AddType \/ MergeType
    \/ AddRecord \/ RefuseNesting \/ Generate

SchemaSpec == SchemaInit /\ [][SchemaNext]_schema

-----------------------------------------------------------------------------
(***************************************************************************)
(* What the files say, without the order in which they are read.           *)
(***************************************************************************)
Nodes == UNION {{<<s, i>> : i \in DOMAIN specs[s].records} : s \in Files}
NodeAt(n) == specs[n[1]].records[n[2]]
Named(name) == {n \in Nodes : NodeAt(n).name = name}
Components  == {n \in Nodes : NodeAt(n).kind = "component"}

\* The types a file's fields may have: an enumeration, and a type derived from one that
\* stands above it, the session's above the application's.
TypeNodes == specs.session.types \o specs.application.types
Resolved  ==
    LET known[i \in DOMAIN TypeNodes] ==
            \/ TypeNodes[i].node = "enum"
            \/ TypeNodes[i].from \in DOMAIN Primitives
            \/ \E j \in 1 .. i - 1 : TypeNodes[j].name = TypeNodes[i].from /\ known[j]
    IN  known
TypesFor(n) ==
    LET nodes == IF n[1] = "session" THEN DOMAIN specs.session.types ELSE DOMAIN TypeNodes
    IN  DOMAIN Primitives \union {TypeNodes[i].name : i \in {k \in nodes : Resolved[k]}}

\* The component a node is or stands in, or the node itself.
Outermost(n) ==
    CHOOSE i \in 1 .. n[2] :
        /\ NodeAt(<<n[1], i>>).in = 0
        /\ \A j \in i + 1 .. n[2] : NodeAt(<<n[1], j>>).in # 0

\* Components see the ones above them; everything else sees all in its file.
Sees(n, component) ==
    \/ component[1] = "session" /\ n[1] = "application"
    \/ /\ component[1] = n[1]
       /\ \/ NodeAt(<<n[1], Outermost(n)>>).kind # "component"
          \/ component[2] < Outermost(n)

\* The fields with a getter: a field that names a component it sees stands for its
\* fields; one that names nothing it sees is left out.
DeclaredFields ==
    LET declared[n \in Nodes] ==
            FoldLeft(LAMBDA fs, c :
                IF c.node # "field" THEN fs
                ELSE IF c.type \in TypesFor(n)
                THEN Append(fs, [tag |-> c.tag, name |-> c.name, presence |-> c.presence])
                ELSE LET seen == {m \in Components : NodeAt(m).name = c.type /\ Sees(n, m)}
                     IN  IF seen = {} THEN fs ELSE fs \o declared[CHOOSE m \in seen : TRUE],
                <<>>, NodeAt(n).children)
    IN  declared

\* Every message and every group has a decoder with a getter for each of its fields and
\* those of its components, in order; if others have its name, it is one of theirs,
\* and none at all if a component has it (DataModel.hpp:144-203, 239-264).
FieldsAsDeclared ==
    outcome = "generated" =>
        \A n \in Nodes \ Components :
            \/ Named(NodeAt(n).name) \intersect Components # {}
            \/ \E i \in DOMAIN listed, m \in Named(NodeAt(n).name) :
                  /\ listed[i].name = NodeAt(n).name
                  /\ \A j \in DOMAIN listed : listed[j].name = NodeAt(n).name => j = i
                  /\ [k \in DOMAIN Getters(listed[i].fields) |->
                        LET f == Getters(listed[i].fields)[k]
                        IN  [tag |-> f.tag, name |-> f.name, presence |-> f.presence]]
                     = DeclaredFields[m]

\* A decoder stands behind those of the groups it has as members, its components'
\* among them: the generated headers declare before they use
\* (DataModel.hpp:229-232, 267-274; FixGenerator.cpp:391-394, 735-739).
MembersFirst ==
    \A i \in DOMAIN listed : \A p \in Range(listed[i].parts) :
        p.type # "Data" => \E j \in 1 .. i - 1 : listed[j].name = p.type

\* The decoder is told of every data field of a message or group, in whichever file and
\* however deep, under the one length tag that is its own; two for one length tag end
\* the run (FixGenerator.cpp:130-157).
DataDeclared(n) ==
    {[lengthTag |-> c.lengthTag, dataTag |-> c.tag] :
        c \in {d \in Range(NodeAt(n).children) : d.node = "data"}}
DataFieldsKnown ==
    outcome \in {"generated", "inconsistent"} =>
        LET pairs == UNION {DataDeclared(n) : n \in Nodes \ Components}
            Ambiguous(p) == \E q \in pairs : q.lengthTag = p.lengthTag /\ q # p
        IN  /\ outcome = "generated" =>
                  \A n \in Nodes \ Components :
                      Named(NodeAt(n).name) = {n} => DataDeclared(n) \subseteq collectDataFields
            /\ outcome = "inconsistent" => \E p \in pairs : Ambiguous(p)
            /\ collectDataFields \subseteq pairs

\* "entries from session.xml come first" (readme.md:305): whatever an application's
\* specification adds, the codes of the session's enumerators are read as before.
SessionCodesKept ==
    outcome = "generated" =>
        \A n \in EnumNodes(specs.session), i \in DOMAIN enums :
            enums[i].name = specs.session.types[n].name =>
                \A element \in Range(specs.session.types[n].elements) :
                    from(enums[i].elements, element.value) = element.name

-----------------------------------------------------------------------------
\* "Duplicate values are silently dropped" (readme.md:305): no code has two
\* enumerators.
ValuesMergedOnce ==
    \A i \in DOMAIN enums : \A j, k \in DOMAIN enums[i].elements :
        enums[i].elements[j].value = enums[i].elements[k].value => j = k
=============================================================================
