------------------------------ MODULE Receive ------------------------------
(***************************************************************************)
(* The receiving side of a session: the loop of readme.md:150-168 over the *)
(* bytes read from a socket, one PayloadDecoder for all of them, and the   *)
(* generated message handler and validate() (FixGenerator.cpp), with       *)
(* MessageDecoder::validateSession() behind it.                            *)
(*                                                                         *)
(* The socket hands over what the counterparty sent in pieces cut anywhere.*)
(* The bytes that are not handled yet stay in front of what arrives next.  *)
(***************************************************************************)
EXTENDS Accessor

CONSTANTS
    Streams,        \* what the counterparty may send: sequences of [bytes, verdict]
    Records,        \* the generated decoders: from MessageId to [required, optional],
                    \* sequences of [tag, limit], no limit being 0
    SenderCompId, TargetCompId,     \* of the SessionContext
    MaxDeliveries   \* bound: reads of the socket; the last one reads all the rest

ASSUME StreamAssumption ==
    Streams \subseteq Seq([bytes : Seq(Byte), verdict : [status : STRING, tag : Nat]])

VARIABLES
    sent,           \* what the counterparty sends
    arrived,        \* bytes of it read from the socket
    consumed,       \* bytes of it handled
    loop,           \* what the loop does next
    deliveries,     \* reads so far
    lastFailedTag   \* FixMessageHandler::m_lastFailedTag

loopVars    == <<sent, arrived, consumed, loop, deliveries, lastFailedTag>>
receiveVars == <<vars, loopVars>>

Stream(messages) == FlattenSeq([i \in DOMAIN messages |-> messages[i].bytes])
input == Slice(Stream(sent), consumed, arrived)

Verdict(status, tag) == [status |-> status, tag |-> tag]

-----------------------------------------------------------------------------
(***************************************************************************)
(* FixMessageHandler::handle() of the message just tokenized.              *)
(***************************************************************************)

\* The index of a field, kept in an int8_t.
Index(tag) ==
    IF Indices(tag) = {} THEN -1 ELSE ((Least(Indices(tag)) + 128) % 256) - 128

\* One byte, or two when the value has them.
messageId ==
    LET field == mFields[MessageTypePosition]
        first == At(buffer, field.position)
    IN  IF field.length >= 2 /\ At(buffer, field.position + 1) # FieldEnd
        THEN <<first, At(buffer, field.position + 1)>> ELSE <<first>>

headerErrorCode ==
       49 :> "InvalidSenderCompId"   @@ 56 :> "InvalidTargetCompId"
    @@ 34 :> "InvalidSequenceNumber" @@ 52 :> "InvalidSendingTime"

TooLong(field) == field.limit > 0 /\ mFields[Index(field.tag)].length > field.limit

\* The failures of one field, of which the first is returned.
RequiredFailure(field) ==
    IF Index(field.tag) < 0
    THEN <<Verdict(IF field.tag \in DOMAIN headerErrorCode
                   THEN headerErrorCode[field.tag] ELSE "RequiredFieldMissing", field.tag)>>
    ELSE IF field.tag \notin DOMAIN headerErrorCode /\ TooLong(field)
    THEN <<Verdict("InvalidLength", field.tag)>> ELSE <<>>

OptionalFailure(field) ==
    IF Index(field.tag) >= 0 /\ TooLong(field)
    THEN <<Verdict("InvalidLength", field.tag)>> ELSE <<>>

\* The value is missing, empty or not the context's.
SessionFailure(tag, value, status) ==
    IF Indices(tag) = {} \/ Value(Least(Indices(tag))) = <<>>
       \/ Value(Least(Indices(tag))) # value
    THEN <<Verdict(status, tag)>> ELSE <<>>

validateSession ==
    SessionFailure(BeginStringTag, ProtocolCode, "InvalidBeginString")
    \o SessionFailure(49, SenderCompId, "InvalidSenderCompId")
    \o SessionFailure(56, TargetCompId, "InvalidTargetCompId")

Each(Failure(_), fields) == FlattenSeq([i \in DOMAIN fields |-> Failure(fields[i])])

validate(record) ==
    LET failures == Each(RequiredFailure, record.required)
                    \o Each(OptionalFailure, record.optional) \o validateSession
    IN  IF failures = <<>> THEN Verdict("Success", 0) ELSE Head(failures)

\* Mutant: the tag of an earlier failure is not cleared.
HandledKeepsTag ==
    IF result.status # "Success" THEN Verdict(result.status, lastFailedTag)
    ELSE IF messageId \in DOMAIN Records
    THEN LET verdict == validate(Records[messageId])
         IN  IF verdict.status = "Success" THEN Verdict("Success", lastFailedTag) ELSE verdict
    ELSE Verdict("InvalidMessageType", 0)

\* The status parse(buffer, handler) returns and the tag the handler then has.
Handled ==
    IF result.status # "Success" THEN Verdict(result.status, lastFailedTag)
    ELSE IF messageId \in DOMAIN Records THEN validate(Records[messageId])
    ELSE Verdict("InvalidMessageType", 0)

-----------------------------------------------------------------------------
(***************************************************************************)
(* The loop.                                                               *)
(***************************************************************************)

\* The socket has more bytes.
Deliver ==
    /\ loop = "waiting"
    /\ \E n \in arrived + 1 .. Len(Stream(sent)) :
         /\ deliveries + 1 = MaxDeliveries => n = Len(Stream(sent))
         /\ arrived' = n
    /\ deliveries' = deliveries + 1
    /\ loop' = "receiving"
    /\ UNCHANGED <<vars, sent, consumed, lastFailedTag>>

ParseInput ==
    /\ loop = "receiving"
    /\ Parse(input)
    /\ loop' = "parsing"
    /\ UNCHANGED <<sent, arrived, consumed, deliveries, lastFailedTag>>

Parsing ==
    /\ loop = "parsing"
    /\ Step
    /\ UNCHANGED loopVars

Returning == loop = "parsing" /\ pc = "idle"

\* "incomplete message: keep the bytes and read more"
KeepFragment ==
    /\ Returning
    /\ Handled.status = "MessageFragment"
    /\ loop' = "waiting"
    /\ UNCHANGED <<vars, sent, arrived, consumed, deliveries, lastFailedTag>>

\* "unrecoverable framing error: close the session"
Close ==
    /\ Returning
    /\ Handled.status # "MessageFragment" /\ result.processed = 0
    /\ loop' = "closed"
    /\ lastFailedTag' = Handled.tag
    /\ UNCHANGED <<vars, sent, arrived, consumed, deliveries>>

\* Mutant: the loop reads the socket again before it looks at the rest.
AfterOne == "waiting"

\* The loop ends with its input.
AfterMessage == IF consumed' < arrived THEN "receiving" ELSE "waiting"

Consume ==
    /\ Returning
    /\ Handled.status # "MessageFragment" /\ result.processed > 0
    /\ consumed' = consumed + result.processed
    /\ loop' = AfterMessage
    /\ lastFailedTag' = Handled.tag
    /\ UNCHANGED <<vars, sent, arrived, deliveries>>

ReceiveInit ==
    /\ Init
    /\ sent \in Streams
    /\ arrived = 0
    /\ consumed = 0
    /\ loop = "waiting"
    /\ deliveries = 0
    /\ lastFailedTag = 0

ReceiveNext == Deliver \/ ParseInput \/ Parsing \/ KeepFragment \/ Close \/ Consume

ReceiveSpec == ReceiveInit /\ [][ReceiveNext]_receiveVars

\* The loop runs, and what was sent arrives.
FairReceiveSpec == ReceiveSpec /\ WF_receiveVars(ReceiveNext)

-----------------------------------------------------------------------------
\* Where message k of the stream starts, and the messages that start the input.
Start(k) == Len(Stream(SubSeq(sent, 1, k - 1)))
AtInput  == {k \in DOMAIN sent : Start(k) = consumed}
\* Bytes of the input behind message k, of which a negative number is missing.
Behind(k) == arrived - (Start(k) + Len(sent[k].bytes))

\* A message that is wholly there when parse() is called is consumed to its end and
\* no further, whatever was parsed before it, and gets the verdict of its own
\* fields with the tag that failed, a BeginString that is refused aside.  Only with
\* less than a block of the next message behind it may it be answered without being
\* consumed (PayloadDecoder.hpp:123-137; FixGenerator.cpp:602-632, 1022-1084).
WholeHandled ==
    Returning => \A k \in AtInput :
        Behind(k) >= 0 =>
            \/ /\ result.processed = Len(sent[k].bytes)
               /\ Handled \in {sent[k].verdict, Verdict("InvalidBeginString", BeginStringTag)}
            \/ Behind(k) \in 1 .. BlockSize - 1 /\ result.processed = 0

\* The loop does not stop before the end of what was sent, but for a session that is
\* closed or an input that lost its place (see InSync).
Drained == <>(loop = "closed" \/ consumed = Len(Stream(sent)) \/ AtInput = {})

\* Bytes are handled only when they have arrived, a message cut in the characters of its
\* CheckSum included; and while parse() runs over the input, nothing that arrives or
\* was handled moves it (readme.md:150-168; PayloadDecoder.hpp:423-435).
HandledInArrived ==
    /\ consumed <= arrived /\ arrived <= Len(Stream(sent))
    /\ loop = "parsing" => buffer = input

\* A message is handled as accepted only when its bytes at the loop's own place in the
\* stream say so: their sum is the CheckSum and they are as long as BodyLength says,
\* if it is a number of up to eight digits, whatever an earlier message, fragment or refusal left in the decoder
\* (PayloadDecoder.hpp:423-470; readme.md:157-165).
OnlyVouchedHandled ==
    [][consumed' # consumed /\ result.status = "Success" =>
           VerdictSound(input, consumed' - consumed, mFields[last],
                        mFields[BodyLengthPosition], mFields[MessageTypePosition])]_receiveVars

-----------------------------------------------------------------------------
(***************************************************************************)
(* What the comments say and the code does not do.                         *)
(***************************************************************************)

\* "incomplete message: keep the bytes and read more" (readme.md:157): the handled
\* bytes end where a message does.
InSync == AtInput # {} \/ consumed = Len(Stream(sent))

\* "a failure status (e.g. Result::MessageFragment if buffer ends mid-message)"
\* (PayloadDecoder.hpp:152-153): an undamaged message cut by the socket does not
\* close the session.
NeverClosed == InSync => loop # "closed"
=============================================================================
