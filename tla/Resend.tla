------------------------------- MODULE Resend -------------------------------
(***************************************************************************)
(* basicEncodeResend() (encoder/ResendEncoder.hpp): one call parses a       *)
(* message sent before with a decoder of its own and writes it again with  *)
(* this SendingTime, PossDupFlag and the original SendingTime, which it     *)
(* finds by their positions.                                               *)
(***************************************************************************)
EXTENDS PayloadChecks

CONSTANT
    CurrentTime     \* this retransmission's SendingTime, as its 21 bytes

VARIABLES
    resent          \* the bytes written, or why there are none yet

resendVars == <<vars, resent>>

MsgSeqNumPosition   == 5
SendingTimePosition == 6
SendingTimeTag      == 52

NotReturned == [returned |-> FALSE, bytes |-> <<>>]
Returns(bytes) == [returned |-> TRUE, bytes |-> bytes]
Refused == Returns(<<>>)        \* returned 0

PossDupFlag         == FieldBytes([tag |-> 43, value |-> <<89>>])
OrigSendingTime(time) == FieldBytes([tag |-> 122, value |-> time])

\* One past the SOH of field i.
EndOf(i) == mFields[i].position + mFields[i].length + 1

\* Mutant: the original SendingTime is copied through as well.
CopiedPrefix == Slice(buffer, EndOf(BodyLengthPosition), EndOf(SendingTimePosition))

BeginPart  == Slice(buffer, 0, EndOf(0))
BodyPrefix == Slice(buffer, EndOf(BodyLengthPosition), EndOf(MsgSeqNumPosition))
BodySuffix == Slice(buffer, EndOf(SendingTimePosition), mFields[last].position - 3)
SendingTimeValue ==
    LET field == mFields[SendingTimePosition]
    IN  Slice(buffer, field.position, field.position + field.length)

NewBody ==
    BodyPrefix \o FieldBytes([tag |-> SendingTimeTag, value |-> CurrentTime])
    \o PossDupFlag \o OrigSendingTime(SendingTimeValue) \o BodySuffix
LengthCode == Decimal(Len(NewBody))

Rewritten ==
    LET framed == BeginPart \o FieldBytes([tag |-> BodyLengthTag, value |-> LengthCode])
                  \o NewBody
    IN  framed \o FieldBytes([tag |-> CheckSumTag, value |-> Padded(SumOf(framed) % 256, 3)])

\* The destination is less than 64 bytes larger than the original.
TooSmall ==
    /\ resent = NotReturned /\ parses = 0
    /\ resent' = Refused
    /\ UNCHANGED vars

\* The call parses the original.
ParseOriginal ==
    /\ resent = NotReturned
    /\ Call
    /\ UNCHANGED resent

Parsing == Step /\ UNCHANGED resent

\* The original did not parse, or has too few fields.
Refuse ==
    /\ resent = NotReturned /\ parses = 1 /\ pc = "idle"
    /\ result.status # "Success" \/ mCount <= SendingTimePosition
    /\ resent' = Refused
    /\ UNCHANGED vars

\* Seven fields without SendingTime would make the suffix's length negative; the
\* copy is then undefined, and no instance has such an original.
Rewrite ==
    /\ resent = NotReturned /\ parses = 1 /\ pc = "idle"
    /\ result.status = "Success" /\ mCount > SendingTimePosition
    /\ EndOf(SendingTimePosition) <= mFields[last].position - 3
    /\ resent' = Returns(Rewritten)
    /\ UNCHANGED vars

ResendInit == Init /\ resent = NotReturned
ResendNext == TooSmall \/ ParseOriginal \/ Parsing \/ Refuse \/ Rewrite

ResendSpec == ResendInit /\ [][ResendNext]_resendVars

\* parse() runs to its return.
FairResendSpec == ResendSpec /\ WF_resendVars(Parsing)

-----------------------------------------------------------------------------
\* 35=..|49=..|56=..|34=..| and what follows 52=..|.
HeaderSize == 5
Duplicate(body) ==
    SubSeq(body, 1, HeaderSize - 1)
    \o <<[tag |-> SendingTimeTag, value |-> CurrentTime], [tag |-> 43, value |-> <<89>>],
         [tag |-> 122, value |-> body[HeaderSize].value]>>
    \o SubSeq(body, HeaderSize + 1, Len(body))

\* A message is written again as the message its fields make with the new
\* SendingTime, PossDupFlag and OrigSendingTime behind MsgSeqNum and everything else
\* kept, its BodyLength and CheckSum its own; an original that is cut off, damaged or
\* lacks fields is refused (ResendEncoder.hpp:22-37, 50-61).
ResendExact ==
    resent.returned /\ parses > 0 =>
        IF WholeIn(buffer) = {} THEN resent = Refused
        ELSE \A m \in WholeIn(buffer) :
                 resent.bytes = FieldsBytes(AllFields(ProtocolCode, Duplicate(m.body)))
=============================================================================
