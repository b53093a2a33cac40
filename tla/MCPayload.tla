----------------------------- MODULE MCPayload -----------------------------
(***************************************************************************)
(* Instances of the payload decoder for TLC: families of messages, each    *)
(* with every alignment of its fields to the 16-byte blocks, and buffers   *)
(* made from them.                                                         *)
(***************************************************************************)
EXTENDS PayloadChecks

FIXT11 == <<70, 73, 88, 84, 46, 49, 46, 49>>        \* "FIXT.1.1"
NoDataFields == <<>>

Rep(byte, n) == [i \in 1 .. n |-> byte]
F(tag, value) == [tag |-> tag, value |-> value]

\* 35=0|49=AAA..A|56=BBB|34=2|52=CC..C|: the sender's length moves everything
\* after it across the block boundaries.
HeaderOf(sender) ==
    << F(35, <<48>>), F(49, Rep(65, sender)), F(56, Rep(66, 3)), F(34, <<50>>),
       F(52, Rep(67, 9)) >>

\* A data field: 212 is the length of 213, whose bytes may be anything.
XmlData == 212 :> 213 @@ 95 :> 96
Xml(payload) == <<F(212, Decimal(Len(payload))), F(213, payload)>>
Raw(payload) == <<F(95, Decimal(Len(payload))), F(96, payload)>>
LongText == <<F(58, Rep(71, 17))>>

\* What follows the header.  A message is chosen by its sender's length and one
\* of these.
Ending == [
    none    |-> <<>>,
    text    |-> <<F(58, Rep(68, 4))>>,
    tag4    |-> <<F(1128, Rep(57, 5))>>,
    equals  |-> <<F(371, <<97, 61, 98, 61, 99>>), F(112, Rep(69, 16))>>,
    empty   |-> <<F(7, <<54>>), F(8, <<>>), F(112, Rep(69, 6))>>,
    logon   |-> <<F(98, <<48>>), F(108, Rep(51, 5)), F(553, Rep(70, 4))>>,
    \* payloads: plain, none, with SOH, a whole field, '=' after a letter and
    \* after a digit, a whole CheckSum field and its tag alone, SOH and digits at
    \* the end, digits across a block
    xml     |-> Xml(Rep(97, 6)) \o LongText,
    xmlNone |-> Xml(<<>>) \o LongText,
    xmlSoh  |-> Xml(<<97, 1, 98>>) \o LongText,
    xmlTag  |-> Xml(<<1, 53, 56, 61, 120, 1>>) \o LongText,
    xmlEq   |-> Xml(<<97, 61, 98>>) \o LongText,
    xmlNum  |-> Xml(<<49, 61, 50>>) \o LongText,
    xmlSum  |-> Xml(<<97, 1, 49, 48, 61, 48, 48, 48, 1, 98>>) \o LongText,
    xmlTen  |-> Xml(<<1, 49, 48, 61>>) \o LongText,
    xmlLast |-> Xml(<<120, 1, 49, 50>>) \o LongText,
    xmlLong |-> Xml(Rep(55, 19)) \o LongText,
    \* two data fields: the first's payload has the second's tags in it; the other way
    both    |-> Xml(<<1, 57, 54, 61, 120, 1>>) \o Raw(<<97, 1>>) \o LongText,
    rawTags |-> Raw(<<1, 50, 49, 50, 61, 50, 1, 50, 49, 51, 61>>) \o Xml(<<49, 61>>) \o LongText,
    \* a length field without its data field; its tag inside a value
    noXml   |-> <<F(212, <<52>>)>> \o LongText,
    inText  |-> <<F(58, <<120, 50, 49, 50, 61, 55>>)>> \o LongText,
    \* two short fields close to the end
    short   |-> <<F(7, <<103>>), F(3, <<104>>)>> ]

Named(senders, tails) ==
    {HeaderOf(sender) \o Ending[tail] : sender \in senders, tail \in tails}
WholeBuffers == {m.bytes : m \in Messages}

-----------------------------------------------------------------------------
NoBodies == {}

\* Whole messages, one per parse and object.
Senders == 1 .. 16
Wholes == Named(Senders, {"none", "text", "tag4", "equals", "empty", "logon"})
AllWholes == Wholes \union Named(Senders, {"xml", "xmlNone", "xmlSoh", "xmlTag", "xmlEq", "xmlNum",
                              "xmlSum", "xmlTen", "xmlLast", "xmlLong", "both", "rawTags"})

\* The encoder writes 21 bytes of SendingTime.
SentAt == <<50, 48>> \o Rep(49, 19)
WithTime(body, time) == [body EXCEPT ![5].value = time]
EncodedWholes ==
    {WithTime(body, SentAt) : body \in Named(Senders, {"none", "text", "empty", "logon", "xmlSoh",
                                                      "xmlTag", "xmlSum", "xmlNum"})}

(***************************************************************************)
(* Damaged buffers: every truncation of a message, every byte outside the  *)
(* CheckSum field of one without data replaced, required fields missing, a *)
(* foreign BeginString, buffers too short.  The values of length fields    *)
(* keep their digits.                                                      *)
(***************************************************************************)
CheckSumSize == 7
Truncations(bytes) == {SubSeq(bytes, 1, n) : n \in 0 .. Len(bytes) - 1}
Replacements(bytes) ==
    {[bytes EXCEPT ![i] = b] :
        i \in (1 .. Len(bytes) - CheckSumSize) \ (14 .. 15),
        b \in {FieldEnd, TagEnd, 55}} \ {bytes}
PlainWholes   == Named({3, 10}, {"text"})
DamagedWholes == PlainWholes \union Named({2, 9}, {"xmlSoh", "xmlSum"})
Incomplete == FieldsBytes(AllFields(FIXT11, SubSeq(HeaderOf(17), 1, 2)))
\* A data length field in the place of BodyLength, and nothing behind it.
OnlyDataLength == FieldsBytes(<<F(BeginStringTag, FIXT11), F(212, <<52>>)>>) \o Rep(97, 15)
DamagedBuffers ==
    {Incomplete, OnlyDataLength}
    \union UNION {Truncations(FieldsBytes(AllFields(FIXT11, body))) : body \in DamagedWholes}
    \union Truncations(FieldsBytes(PaddedFields(FIXT11, WithTime(HeaderOf(5), SentAt))))
    \union UNION {Replacements(FieldsBytes(AllFields(FIXT11, body))) : body \in PlainWholes}
AllBuffers == WholeBuffers \union DamagedBuffers

(***************************************************************************)
(* One object used for one buffer after another: whole messages, with and  *)
(* without data, alone and followed by more than a block of the next, and  *)
(* fragments, some ending between blocks, and messages whose data fields   *)
(* are not laid out as the decoder expects.                                *)
(***************************************************************************)
ReuseWholes == Named({1, 6, 12}, {"none", "text", "logon"})
               \union Named({14}, {"text"}) \union Named({2, 9}, {"xmlSoh", "xmlNum"})
NextMessage == SubSeq(FieldsBytes(AllFields(FIXT11, HeaderOf(3))), 1, 20)
OddDataFields ==
    {FieldsBytes(AllFields(FIXT11, body)) :
        body \in {HeaderOf(4) \o Ending.noXml, HeaderOf(4) \o Ending.inText,
                  HeaderOf(4) \o Xml(<<1, 53, 61>>) \o Ending.inText,
                  Xml(<<97>>) \o HeaderOf(5)}}
ReuseBuffers ==
    WholeBuffers
    \union {m.bytes \o NextMessage : m \in Messages}
    \union {SubSeq(m.bytes, 1, n) : m \in Messages, n \in {32, 48, 56}}
    \union OddDataFields

-----------------------------------------------------------------------------
(***************************************************************************)
(* An instance that shows where the code departs from its comments.        *)
(***************************************************************************)
ShortTails == Named(Senders, {"short"})
=============================================================================
