------------------------------ MODULE MCSchema ------------------------------
(***************************************************************************)
(* Specifications for TLC: all ways to put a few nodes into a session's    *)
(* and an application's file.                                              *)
(***************************************************************************)
EXTENDS Schema

PrimitivesOf == [uint32 |-> "Uint32", string |-> "String", Protocol |-> "Enum"]

Fld(name, tag, type, presence) ==
    [node |-> "field", name |-> name, tag |-> tag, type |-> type, presence |-> presence]
Grp(name, tag) ==
    [node |-> "group", name |-> name, tag |-> tag, counter |-> "No" \o name,
     presence |-> "optional"]
Dat(name, tag, lengthTag) ==
    [node |-> "data", name |-> name, tag |-> tag, lengthTag |-> lengthTag,
     counter |-> name \o "Len", presence |-> "optional"]
Rec(kind, name, in, children) == [kind |-> kind, name |-> name, in |-> in, children |-> children]

El(name, value) == [name |-> name, value |-> value]
EnumOf(name, elements) == [node |-> "enum", name |-> name, elements |-> elements]
TypeOf(name, type) == [node |-> "type", name |-> name, from |-> type]
MsgType(elements) == EnumOf("MessageType", elements)

Uses(name, component) == Fld(name, 0, component, "required")
Plain(name, tag) == Fld(name, tag, "uint32", "required")

\* Header with a group; a component in a component; a group in a group in a message; a
\* component in a group; data in messages and groups.
Header == <<Rec("component", "Header", 0, <<Plain("Seq", 34), Grp("Hops", 627)>>),
            Rec("group", "Hops", 1, <<Fld("HopID", 628, "string", "optional")>>)>>
Inner == <<Rec("component", "Inner", 0, <<Fld("One", 601, "uint32", "optional")>>)>>
Outer == <<Rec("component", "Outer", 0, <<Uses("In", "Inner"), Plain("Two", 602)>>)>>
Logon == <<Rec("message", "Logon", 0,
               <<Uses("H", "Header"), Fld("Kind", 98, "Kind", "optional"), Dat("Xml", 213, 212)>>)>>

Messages ==
    { <<>>, <<Rec("message", "Quote", 0,
                <<Uses("H", "Header"), Uses("O", "Outer"), Fld("Early", 54, "Early", "required"),
                  Fld("Late", 55, "Late", "required")>>)>>,
      <<Rec("message", "Order", 0, <<Uses("H", "Header"), Grp("Legs", 555), Plain("Qty", 38)>>),
        Rec("group", "Legs", 1, <<Plain("LegID", 602), Grp("Nested", 2000), Uses("I", "Inner")>>),
        Rec("group", "Nested", 2, <<Uses("O", "Outer"), Dat("Raw", 96, 95)>>)>>,
      \* the same group name with other fields, Logon again, three groups deep
      <<Rec("message", "List", 0, <<Grp("Legs", 555), Plain("Qty", 38)>>),
        Rec("group", "Legs", 1, <<Plain("Other", 603)>>)>>,
      <<Rec("message", "Logon", 0, <<Plain("Seq", 34)>>)>>,
      <<Rec("message", "Inner", 0, <<Plain("Seq", 34)>>)>>,
      <<Rec("message", "Deep", 0, <<Grp("A", 1)>>), Rec("group", "A", 1, <<Grp("B", 2)>>),
        Rec("group", "B", 2, <<Grp("C", 3)>>), Rec("group", "C", 3, <<Plain("Px", 132)>>)>>,
      \* the length tag of Xml for other data
      <<Rec("message", "Blob", 0, <<Dat("Other", 214, 212)>>)>> }

\* A record's `in` counts from the start of its file.
Shifted(records, n) ==
    [i \in DOMAIN records |->
        [records[i] EXCEPT !.in = IF @ = 0 THEN 0 ELSE @ + n]]
File(parts) == FoldLeft(LAMBDA file, p : file \o Shifted(p, Len(file)), <<>>, parts)

\* A type derived from an enumeration declared behind it, and one declared before it.
SessionOf ==
    [types |-> <<MsgType(<<El("Logon", <<"A">>), El("Logout", <<"5">>)>>),
                 TypeOf("Text", "string"), TypeOf("Early", "Kind"),
                 EnumOf("Kind", <<El("None", <<"0">>), El("Big", <<"1", "0">>)>>)>>,
     records |-> File(<<Header, Logon>>)]

\* Enumerators the application adds: none, a new one, one the session has, the
\* session's code under another name, the session's name for another code.
AddedEnums ==
    { <<>>, <<MsgType(<<El("Quote", <<"S">>)>>)>>,
      <<MsgType(<<El("Logon", <<"A">>), El("Quote", <<"A", "E">>)>>),
        EnumOf("Side", <<El("Buy", <<"1">>)>>)>>,
      <<EnumOf("Kind", <<El("Huge", <<"1", "0">>), El("None", <<"7">>)>>)>> }

Applications ==
    { [types |-> <<TypeOf("Name", "Text"), TypeOf("Lost", "Side")>> \o e \o <<TypeOf("Late", "Side")>>,
       records |-> File(p)] :
        e \in AddedEnums,
        p \in {order \o <<m, n>> : order \in {<<Inner, Outer>>, <<Outer, Inner>>},
                                  m \in Messages, n \in Messages} }

SpecificationsOf == {[session |-> SessionOf, application |-> a] : a \in Applications}
=============================================================================
