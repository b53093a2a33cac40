------------------------------ MODULE Encoder ------------------------------
(***************************************************************************)
(* An application packing messages into one buffer: PayloadEncoder writes  *)
(* the header and the trailer (encoder/PayloadEncoder.hpp), a generated     *)
(* message encoder the body through its FieldEncoder                       *)
(* (detail/encoder/FieldEncoder.hpp), with the group and data encoders that *)
(* share it (encoder/GroupEncoder.hpp, encoder/DataEncoder.hpp).            *)
(*                                                                         *)
(* The application wraps the encoder behind the messages already encoded,  *)
(* sets fields and calls encode(); it may give a message up half way by    *)
(* wrapping again, and starts at the front of the buffer again once it has *)
(* sent what is in it, with the old bytes still there.                     *)
(***************************************************************************)
EXTENDS Wire

CONSTANTS
    BeginString, Sender, Target,    \* constructor arguments
    Types,        \* MsgTypes of the message encoders, one byte each
    Headers,      \* [number, time] given to wrapHeader(), the time as its 21 bytes
    Texts,        \* [tag, value] given to string setters
    Numbers,      \* [tag, number] given to integer setters and group counts
    Payloads,     \* [lengthTag, tag, value] given to data setters
    Size,         \* bytes of the buffer
    LaneModulus,  \* 2^16 in the code: where a checksum lane wraps
    Room,         \* bytes the application leaves for a message
    MaxBody,      \* bound: setters are called while the body has fewer fields
    MaxWraps      \* bound: calls of wrap()

VARIABLES
    out,            \* the buffer
    mOffset,        \* PayloadEncoder::m_offset
    fieldOffset,    \* FieldEncoder::m_offset
    encodedLength,  \* FieldEncoder::m_encodedLength
    phase,          \* which call the application makes next
    type,           \* the message encoder's MsgType
    end,            \* bytes of complete messages in the buffer
    asked,          \* history: the fields set in the current message
    sent,           \* history: the complete messages in the buffer
    wraps           \* history: calls of wrap()

vars == <<out, mOffset, fieldOffset, encodedLength, phase, type, end, asked, sent, wraps>>

MaxPrefixLength  == 64
BodyLengthDigits == 4

F(tag, value) == [tag |-> tag, value |-> value]

\* "0": the codes written into the header before the message is known.
Unknown  == 63

\* The constructor: the header, in a 64-byte array that was zeroes.
BeginStringField == FieldBytes(F(BeginStringTag, BeginString))
Prefix ==
    BeginStringField
    \o FieldBytes(F(BodyLengthTag, Zeros(BodyLengthDigits)))
    \o FieldBytes(F(MessageTypeTag, <<Unknown>>))
    \o FieldBytes(F(49, Sender)) \o FieldBytes(F(56, Target))
headerLength      == Len(Prefix)
bodyLengthOffset  == Len(BeginString) + 5
messageTypeOffset == bodyLengthOffset + BodyLengthDigits + 4
headerBodyLength  == headerLength - (messageTypeOffset - 3)
messagePrefix     == Prefix \o [i \in 1 .. MaxPrefixLength - headerLength |-> 0]

ASSUME EncoderAssumption ==
    /\ {BeginString, Sender, Target} \subseteq Seq(Byte) /\ Types \subseteq Byte
    /\ headerLength <= MaxPrefixLength
    /\ \A h \in Headers : h.number \in Nat /\ h.time \in Seq(Byte)
    /\ \A t \in Texts : t.tag \in Nat /\ t.value \in Seq(Byte)
    /\ \A n \in Numbers : n.tag \in Nat /\ n.number \in Int
    /\ \A d \in Payloads : {d.lengthTag, d.tag} \subseteq Nat /\ d.value \in Seq(Byte)
    /\ Room \in Nat /\ Room >= MaxPrefixLength /\ Size \in Nat /\ Size >= Room
    /\ LaneModulus \in Nat \ {0} /\ LaneModulus % 256 = 0

int32ToAscii(n) == IF n < 0 THEN <<45>> \o Decimal(-n) ELSE Decimal(n)

\* The encoder does not look for the end of the buffer: the application leaves room
\* for whatever it sets.  With MaxBody + 1 fields in a body, each has this many bytes.
TrailerLength == 7
FieldRoom     == (Room - headerLength - TrailerLength) \div (MaxBody + 1)
Fits(f)       == Len(FieldBytes(f)) <= FieldRoom

ASSUME RoomAssumption ==
    /\ MaxBody \in Nat \ {0} /\ FieldRoom \in Nat
    /\ \A h \in Headers : Fits(F(34, Decimal(h.number))) /\ Fits(F(52, h.time))
    /\ \A t \in Texts : Fits(F(t.tag, t.value))
    /\ \A n \in Numbers : Fits(F(n.tag, int32ToAscii(n.number)))
    /\ \A d \in Payloads : Fits(F(d.lengthTag, Decimal(Len(d.value)))) /\ Fits(F(d.tag, d.value))

\* `bytes` written at zero-based position `at`.
Write(buffer, at, bytes) ==
    [i \in DOMAIN buffer |->
        IF i - 1 \in at .. at + Len(bytes) - 1 THEN bytes[i - at] ELSE buffer[i]]

-----------------------------------------------------------------------------
(***************************************************************************)
(* ChecksumAccumulator: eight lanes that add up pairs of bytes and wrap,   *)
(* read back as signed numbers; the bytes after the last block one by one. *)
(***************************************************************************)
BlockSize == 16
Blocks(bytes) == Len(bytes) \div BlockSize

LaneSum(bytes, k) ==
    SumOf([b \in 1 .. Blocks(bytes) |->
              bytes[BlockSize * (b - 1) + 2 * k + 1] + bytes[BlockSize * (b - 1) + 2 * k + 2]])
    % LaneModulus
LaneValue(n) == IF n < LaneModulus \div 2 THEN n ELSE n - LaneModulus

\* Mutant: the bytes after the last block are left out.
BlocksOnly(bytes) ==
    SumOf([k \in 1 .. 8 |-> LaneValue(LaneSum(bytes, k - 1))]) % 256

CheckSumOf(bytes) ==
    (SumOf([k \in 1 .. 8 |-> LaneValue(LaneSum(bytes, k - 1))])
     + SumOf(Slice(bytes, BlockSize * Blocks(bytes), Len(bytes)))) % 256

-----------------------------------------------------------------------------
(***************************************************************************)
(* PayloadEncoder::wrap() and wrapMessage() or wrapHeader().               *)
(***************************************************************************)
Wrap ==
    /\ phase \in {"idle", "body"}
    /\ wraps < MaxWraps
    /\ end + Room <= Size
    /\ mOffset' = end
    /\ out' = Write(out, end, messagePrefix)
    /\ phase' = "wrapped"
    /\ asked' = <<>>
    /\ wraps' = wraps + 1
    /\ UNCHANGED <<fieldOffset, encodedLength, type, end, sent>>

\* Mutant: counted from the front of the buffer.
OffsetInMessage == headerLength

\* offset(): where the body starts.
bodyOffset == mOffset + headerLength

\* Mutant: the length of an earlier body is kept.
FieldWrapKeepsLength == encodedLength' = encodedLength

\* FieldEncoder::wrap() at the body.
FieldWrap == encodedLength' = 0

WrapMessage ==
    /\ phase = "wrapped"
    /\ phase' = "body"
    /\ type' \in Types
    /\ fieldOffset' = bodyOffset
    /\ FieldWrap
    /\ UNCHANGED <<out, mOffset, end, asked, sent, wraps>>

\* wrapHeader() also stamps MsgSeqNum and SendingTime.
WrapHeader ==
    /\ phase = "wrapped"
    /\ phase' = "body"
    /\ type' \in Types
    /\ fieldOffset' = bodyOffset
    /\ \E header \in Headers :
         LET number == F(34, Decimal(header.number))
             time   == F(52, header.time)
             bytes  == FieldBytes(number) \o FieldBytes(time)
         IN  /\ asked' = <<number, time>>
             /\ out' = Write(out, fieldOffset', bytes)
             /\ encodedLength' = Len(bytes)
    /\ UNCHANGED <<mOffset, end, sent, wraps>>

-----------------------------------------------------------------------------
(***************************************************************************)
(* The setters: FieldEncoder appends "tag=value<SOH>" to the body.          *)
(***************************************************************************)
EncodeFields(fields, bytes) ==
    /\ phase = "body"
    /\ Len(asked) < MaxBody
    /\ asked' = asked \o fields
    /\ out' = Write(out, fieldOffset + encodedLength, bytes)
    /\ encodedLength' = encodedLength + Len(bytes)
    /\ UNCHANGED <<mOffset, fieldOffset, phase, type, end, sent, wraps>>

EncodeField(f) == EncodeFields(<<f>>, FieldBytes(f))

EncodeText   == \E t \in Texts : EncodeField(F(t.tag, t.value))
EncodeNumber == \E n \in Numbers : EncodeField(F(n.tag, int32ToAscii(n.number)))
EncodeData ==
    \E d \in Payloads :
        LET length == F(d.lengthTag, Decimal(Len(d.value)))
            data   == F(d.tag, d.value)
        IN  EncodeFields(<<length, data>>, FieldBytes(length) \o FieldBytes(data))

-----------------------------------------------------------------------------
(***************************************************************************)
(* PayloadEncoder::encode(): MsgType and BodyLength, then the CheckSum of  *)
(* what is in the buffer behind the body.                                  *)
(***************************************************************************)
Encode ==
    /\ phase = "body"
    /\ LET length == headerLength + encodedLength
           typed  == Write(out, mOffset + messageTypeOffset, <<type>>)
           headed == Write(typed, mOffset + bodyLengthOffset,
                           Padded(headerBodyLength + encodedLength, BodyLengthDigits))
           sum    == CheckSumOf(Slice(headed, mOffset, mOffset + length))
           trailer == FieldBytes(F(CheckSumTag, Padded(sum, 3)))
       IN  /\ out' = Write(headed, mOffset + length, trailer)
           /\ end' = mOffset + length + Len(trailer)
    /\ phase' = "idle"
    /\ sent' = Append(sent, [type |-> type, fields |-> asked])
    /\ asked' = <<>>
    /\ UNCHANGED <<mOffset, fieldOffset, encodedLength, type, wraps>>

\* The application sends the buffer's messages.
Flush ==
    /\ phase = "idle"
    /\ end > 0
    /\ end' = 0
    /\ sent' = <<>>
    /\ UNCHANGED <<out, mOffset, fieldOffset, encodedLength, phase, type, asked, wraps>>

Init ==
    /\ out = [i \in 1 .. Size |-> 0]
    /\ mOffset = 0
    /\ fieldOffset = 0
    /\ encodedLength = 0
    /\ phase = "idle"
    /\ type = Unknown
    /\ end = 0
    /\ asked = <<>>
    /\ sent = <<>>
    /\ wraps = 0

Next ==
    \/ Wrap \/ WrapMessage \/ WrapHeader
    \/ EncodeText \/ EncodeNumber \/ EncodeData
    \/ Encode \/ Flush

Spec == Init /\ [][Next]_vars

-----------------------------------------------------------------------------
\* Types; every write of a body stays in the buffer, behind its own header
\* (FieldEncoder.hpp:114-119).
TypeOK ==
    /\ out \in [1 .. Size -> Byte]
    /\ phase \in {"idle", "wrapped", "body"}
    /\ type \in Types \union {Unknown}
    /\ end \in 0 .. Size
    /\ phase = "body" => /\ fieldOffset = mOffset + headerLength
                         /\ fieldOffset + encodedLength <= Size

\* The fields a message with this type and these body fields has on the wire.
Reference(m) ==
    PaddedFields(BeginString,
        <<F(MessageTypeTag, <<m.type>>), F(49, Sender), F(56, Target)>> \o m.fields)

\* The buffer holds exactly the messages the application encoded, one behind the
\* other, each with the length and the checksum of its fields: while the next is
\* being encoded or is given up, whatever the buffer held before, and with
\* header copies longer than a whole header (PayloadEncoder.hpp:83-92, 145-176).
PackedExact ==
    SubSeq(out, 1, end) = FlattenSeq([i \in DOMAIN sent |-> FieldsBytes(Reference(sent[i]))])

\* A message that is complete stays as it is until it is sent: whatever is wrapped,
\* set, given up or encoded behind it, the header's copy of 64 bytes included
\* (PayloadEncoder.hpp:83-92, 145-176; FieldEncoder.hpp:103-214).
CompleteMessagesKept ==
    [][end' # 0 => /\ end <= end'
                   /\ \A i \in 1 .. Size : i <= end => out'[i] = out[i]]_vars
=============================================================================
