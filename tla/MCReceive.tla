----------------------------- MODULE MCReceive -----------------------------
(***************************************************************************)
(* Instances of the receiving loop for TLC: streams of up to five messages, *)
(* with the verdict each must get.                                         *)
(***************************************************************************)
EXTENDS Receive

FIXT11 == <<70, 73, 88, 84, 46, 49, 46, 49>>        \* "FIXT.1.1"
NoDataFields == <<>>
Rep(byte, n) == [i \in 1 .. n |-> byte]
F(tag, value) == [tag |-> tag, value |-> value]
Entry(tag, limit) == [tag |-> tag, limit |-> limit]

Us   == Rep(66, 3)
Them == Rep(65, 5)

\* Two message types: "D" needs a Text of at most 20 bytes and may have 44; "AB" is the
\* header alone.
HeaderFields == <<Entry(49, 8), Entry(56, 8), Entry(34, 10), Entry(52, 24)>>
RecordsOf ==
    <<68>> :> [required |-> Append(HeaderFields, Entry(58, 20)),
               optional |-> <<Entry(44, 6)>>]
    @@ <<65, 66>> :> [required |-> HeaderFields, optional |-> <<>>]

Body(type, from, to, rest) ==
    <<F(35, type), F(49, from), F(56, to), F(34, <<50>>), F(52, Rep(67, 9))>> \o rest
Sent(body) == FieldsBytes(AllFields(FIXT11, body))

OrderOf(rest) == Sent(Body(<<68>>, Them, Us, rest))
Text(n) == F(58, Rep(68, n))

M(bytes, status, tag) == [bytes |-> bytes, verdict |-> Verdict(status, tag)]
Good(n)   == M(OrderOf(<<Text(n)>>), "Success", 0)
Priced    == M(OrderOf(<<F(44, Rep(51, 4)), Text(6)>>), "Success", 0)
NoText    == M(OrderOf(<<F(44, Rep(51, 6))>>), "RequiredFieldMissing", 58)
LongText  == M(OrderOf(<<Text(21)>>), "InvalidLength", 58)
LongPrice == M(OrderOf(<<F(44, Rep(51, 7)), Text(5)>>), "InvalidLength", 44)
Foreign   == M(Sent(Body(<<65, 66>>, Rep(65, 4), Us, <<>>)), "InvalidSenderCompId", 49)
Astray    == M(Sent(Body(<<65, 66>>, Them, Rep(66, 4), <<Text(9)>>)), "InvalidTargetCompId", 56)
NoNumber  == M(Sent(<<F(35, <<65, 66>>), F(49, Them), F(56, Us), F(52, Rep(67, 9)), Text(9)>>),
               "InvalidSequenceNumber", 34)
Plain     == M(Sent(Body(<<65, 66>>, Them, Us, <<>>)), "Success", 0)
Unknown   == M(Sent(Body(<<90>>, Them, Us, <<Text(3)>>)), "InvalidMessageType", 0)
\* A byte of the text was changed on the way: the tag is left as it was.
Damaged(tag) ==
    LET order == OrderOf(<<Text(12)>>)
    IN  M([order EXCEPT ![Len(order) - 10] = 69], "InvalidCheckSum", tag)

StreamsOf ==
    { <<NoText, Damaged(58), Good(4), Foreign, Good(11)>>,
      <<LongPrice, Unknown, Damaged(0), Priced>>,
      <<Astray, Plain, LongText, NoNumber, Good(19)>> }

\* Streams that show where the code departs from what its comments say.
IntactStreams == {<<Good(6), Good(11)>>}
CutBehindFirst == {<<NoText, Good(12)>>}
=============================================================================
