---------------------------- MODULE EncoderProofs ----------------------------
(***************************************************************************)
(* Complete messages are not touched, for every buffer and room, however    *)
(* long the header's identities are, whatever is set and however many       *)
(* messages are begun.  Nothing is asked of the room behind them: what is   *)
(* needed is that whatever is being written lies behind the last complete   *)
(* message.                                                                *)
(*                                                                         *)
(* What the complete messages are, byte by byte, needs the room: a field   *)
(* may only be set where there is place for it (RoomAssumption), since the *)
(* encoder does not look.  PackedInv says what stands in the buffer at     *)
(* every moment: the complete messages, behind them the header with its    *)
(* two blanks and the body's fields set so far.  The rest is sums of       *)
(* lengths and bytes over sequences of any length, by induction over the   *)
(* least length that would be wrong (LeastOfNat).                          *)
(***************************************************************************)
EXTENDS Encoder, WireProofs

EncoderInv ==
    /\ DOMAIN out = 1 .. Size
    /\ phase \in {"idle", "wrapped", "body"}
    /\ end \in Nat
    /\ phase \in {"wrapped", "body"} => mOffset = end
    /\ phase = "body" => fieldOffset = mOffset + headerLength /\ encodedLength \in Nat

Keeps ==
    end' # 0 => /\ end <= end'
                /\ \A i \in 1 .. Size : i <= end => out'[i] = out[i]

-----------------------------------------------------------------------------
LEMMA BytesAreSequence == ASSUME NEW s \in Seq(Byte) PROVE IsSequence(s)
  BY DEF IsSequence

\* Writing behind the complete messages keeps them.
LEMMA WriteBehind ==
    ASSUME NEW old, DOMAIN old = 1 .. Size, end \in Nat, Size \in Nat,
           NEW at \in Nat, at >= end, NEW bytes, IsSequence(bytes)
    PROVE  /\ DOMAIN Write(old, at, bytes) = 1 .. Size
           /\ \A i \in 1 .. Size : i <= end => Write(old, at, bytes)[i] = old[i]
<1>1. at + Len(bytes) - 1 \in Int
  BY LengthOfSequence
<1>2. DOMAIN Write(old, at, bytes) = 1 .. Size
  BY DEF Write
<1>3. ASSUME NEW i \in 1 .. Size, i <= end PROVE Write(old, at, bytes)[i] = old[i]
  <2>1. i \in DOMAIN old /\ i - 1 \in Int /\ i - 1 < at
    BY <1>3
  <2>2. i - 1 \notin at .. at + Len(bytes) - 1
    BY <1>1, <2>1
  <2> QED BY <2>1, <2>2 DEF Write
<1> QED BY <1>2, <1>3

\* The header is a sequence, and its parts stand behind each other.
LEMMA HeaderLayout ==
    /\ headerLength \in Nat /\ bodyLengthOffset \in Nat /\ messageTypeOffset \in Nat
    /\ IsSequence(messagePrefix)
<1>1. IsSequence(BeginString) /\ IsSequence(Sender) /\ IsSequence(Target)
  BY EncoderAssumption, BytesAreSequence
<1>2. IsSequence(Zeros(BodyLengthDigits)) /\ IsSequence(<<Unknown>>)
  <2>1. Zeros(BodyLengthDigits) \in Seq({Zero})
    BY DEF Zeros, BodyLengthDigits
  <2> QED BY <2>1, OneSequence DEF IsSequence
<1>3. /\ IsSequence(FieldBytes(F(8, BeginString))) /\ IsSequence(FieldBytes(F(49, Sender)))
      /\ IsSequence(FieldBytes(F(56, Target))) /\ IsSequence(FieldBytes(F(35, <<Unknown>>)))
      /\ IsSequence(FieldBytes(F(9, Zeros(BodyLengthDigits))))
  BY <1>1, <1>2, FieldSequence DEF F
<1>4. IsSequence(Prefix)
  <2> DEFINE a == FieldBytes(F(8, BeginString))
             b == FieldBytes(F(9, Zeros(BodyLengthDigits)))
             c == FieldBytes(F(35, <<Unknown>>))
             d == FieldBytes(F(49, Sender))
             e == FieldBytes(F(56, Target))
  <2>1. Prefix = a \o b \o c \o d \o e
    BY DEF Prefix, BeginStringField, BeginStringTag, BodyLengthTag, MessageTypeTag
  <2>2. IsSequence(a) /\ IsSequence(b) /\ IsSequence(c) /\ IsSequence(d) /\ IsSequence(e)
    BY <1>3
  <2> HIDE DEF a, b, c, d, e
  <2>3. IsSequence(a \o b)
    BY <2>2, JoinedSequences
  <2>4. IsSequence((a \o b) \o c)
    BY <2>2, <2>3, JoinedSequences
  <2>5. IsSequence(((a \o b) \o c) \o d)
    BY <2>2, <2>4, JoinedSequences
  <2> QED BY <2>1, <2>2, <2>5, JoinedSequences
<1>5. headerLength \in Nat
  BY <1>4, LengthOfSequence DEF headerLength
<1>6. Len(BeginString) \in Nat
  BY <1>1, LengthOfSequence
<1>7. IsSequence(messagePrefix)
  <2> DEFINE fill == [i \in 1 .. MaxPrefixLength - headerLength |-> 0]
  <2>1. fill \in Seq({0})
    BY <1>5, EncoderAssumption DEF MaxPrefixLength
  <2>2. IsSequence(fill)
    BY <2>1 DEF IsSequence
  <2> HIDE DEF fill
  <2>3. messagePrefix = Prefix \o fill
    BY DEF messagePrefix, fill
  <2> QED BY <1>4, <2>2, <2>3, JoinedSequences
<1> QED BY <1>5, <1>6, <1>7 DEF bodyLengthOffset, messageTypeOffset, BodyLengthDigits

LEMMA NumberSequence == ASSUME NEW n \in Int PROVE IsSequence(int32ToAscii(n))
<1>1. IsSequence(Decimal(n)) /\ IsSequence(Decimal(-n)) /\ IsSequence(<<45>>)
  BY DecimalSequence, OneSequence
<1>2. IsSequence(<<45>> \o Decimal(-n))
  BY <1>1, JoinedSequences
<1> QED BY <1>1, <1>2 DEF int32ToAscii

-----------------------------------------------------------------------------
LEMMA WrapStep == ASSUME EncoderInv, Wrap PROVE EncoderInv' /\ Keeps
<1>1. Size \in Nat
  BY EncoderAssumption
<1>2. /\ DOMAIN Write(out, end, messagePrefix) = 1 .. Size
      /\ \A i \in 1 .. Size : i <= end => Write(out, end, messagePrefix)[i] = out[i]
  BY <1>1, HeaderLayout, WriteBehind DEF EncoderInv
<1> QED BY <1>2 DEF Wrap, EncoderInv, Keeps

LEMMA WrapMessageStep == ASSUME EncoderInv, WrapMessage PROVE EncoderInv' /\ Keeps
<1>1. out' = out /\ end' = end /\ mOffset' = mOffset /\ mOffset = end /\ end \in Nat
  BY DEF WrapMessage, EncoderInv
<1> QED BY <1>1 DEF WrapMessage, EncoderInv, Keeps, FieldWrap, bodyOffset

LEMMA WrapHeaderStep == ASSUME EncoderInv, WrapHeader PROVE EncoderInv' /\ Keeps
<1>1. PICK header \in Headers :
          LET bytes == FieldBytes(F(34, Decimal(header.number))) \o FieldBytes(F(52, header.time))
          IN  out' = Write(out, fieldOffset', bytes) /\ encodedLength' = Len(bytes)
  BY DEF WrapHeader
<1> DEFINE bytes == FieldBytes(F(34, Decimal(header.number))) \o FieldBytes(F(52, header.time))
<1>2. IsSequence(bytes)
  <2>1. IsSequence(Decimal(header.number)) /\ IsSequence(header.time)
    BY EncoderAssumption, BytesAreSequence, DecimalSequence
  <2>2. IsSequence(FieldBytes(F(34, Decimal(header.number)))) /\ IsSequence(FieldBytes(F(52, header.time)))
    BY <2>1, FieldSequence DEF F
  <2> QED BY <2>2, JoinedSequences
<1>3. out' = Write(out, fieldOffset', bytes) /\ encodedLength' = Len(bytes)
  BY <1>1
<1> HIDE DEF bytes
<1>4. /\ end' = end /\ mOffset' = mOffset /\ phase' = "body" /\ fieldOffset' = mOffset + headerLength
      /\ mOffset = end /\ end \in Nat /\ DOMAIN out = 1 .. Size
  BY DEF WrapHeader, EncoderInv, bodyOffset
<1>5. fieldOffset' \in Nat /\ fieldOffset' >= end /\ Size \in Nat
  BY <1>4, HeaderLayout, EncoderAssumption
<1>6. DOMAIN out' = 1 .. Size /\ \A i \in 1 .. Size : i <= end => out'[i] = out[i]
  BY <1>2, <1>3, <1>4, <1>5, WriteBehind
<1>7. encodedLength' \in Nat
  BY <1>2, <1>3, LengthOfSequence
<1> QED BY <1>4, <1>6, <1>7 DEF EncoderInv, Keeps

LEMMA EncodeFieldsStep ==
    ASSUME EncoderInv, NEW fields, NEW bytes, IsSequence(bytes), EncodeFields(fields, bytes)
    PROVE  EncoderInv' /\ Keeps
<1>1. /\ end' = end /\ mOffset' = mOffset /\ fieldOffset' = fieldOffset /\ phase' = phase
      /\ phase = "body" /\ mOffset = end /\ end \in Nat /\ DOMAIN out = 1 .. Size
      /\ fieldOffset = mOffset + headerLength /\ encodedLength \in Nat
      /\ out' = Write(out, fieldOffset + encodedLength, bytes)
      /\ encodedLength' = encodedLength + Len(bytes)
  BY DEF EncodeFields, EncoderInv
<1>2. fieldOffset + encodedLength \in Nat /\ fieldOffset + encodedLength >= end /\ Size \in Nat
  BY <1>1, HeaderLayout, EncoderAssumption
<1>3. DOMAIN out' = 1 .. Size /\ \A i \in 1 .. Size : i <= end => out'[i] = out[i]
  BY <1>1, <1>2, WriteBehind
<1>4. encodedLength' \in Nat
  BY <1>1, LengthOfSequence
<1> QED BY <1>1, <1>3, <1>4 DEF EncoderInv, Keeps

LEMMA SetterStep ==
    ASSUME EncoderInv, EncodeText \/ EncodeNumber \/ EncodeData
    PROVE  EncoderInv' /\ Keeps
<1>1. CASE EncodeText
  <2>1. PICK t \in Texts : EncodeField(F(t.tag, t.value))
    BY <1>1 DEF EncodeText
  <2>2. IsSequence(FieldBytes(F(t.tag, t.value)))
    BY EncoderAssumption, BytesAreSequence, FieldSequence DEF F
  <2> QED BY <2>1, <2>2, EncodeFieldsStep DEF EncodeField
<1>2. CASE EncodeNumber
  <2>1. PICK n \in Numbers : EncodeField(F(n.tag, int32ToAscii(n.number)))
    BY <1>2 DEF EncodeNumber
  <2>2. IsSequence(FieldBytes(F(n.tag, int32ToAscii(n.number))))
    BY EncoderAssumption, NumberSequence, FieldSequence DEF F
  <2> QED BY <2>1, <2>2, EncodeFieldsStep DEF EncodeField
<1>3. CASE EncodeData
  <2>1. PICK d \in Payloads :
            EncodeFields(<<F(d.lengthTag, Decimal(Len(d.value))), F(d.tag, d.value)>>,
                         FieldBytes(F(d.lengthTag, Decimal(Len(d.value))))
                         \o FieldBytes(F(d.tag, d.value)))
    BY <1>3 DEF EncodeData
  <2>2. IsSequence(d.value) /\ d.lengthTag \in Nat /\ d.tag \in Nat
    BY EncoderAssumption, BytesAreSequence
  <2>3. IsSequence(Decimal(Len(d.value)))
    BY <2>2, LengthOfSequence, DecimalSequence, SMTT(20)
  <2>4. /\ IsSequence(FieldBytes(F(d.lengthTag, Decimal(Len(d.value)))))
        /\ IsSequence(FieldBytes(F(d.tag, d.value)))
    BY <2>2, <2>3, FieldSequence DEF F
  <2> QED BY <2>1, <2>4, JoinedSequences, EncodeFieldsStep
<1> QED BY <1>1, <1>2, <1>3

LEMMA EncodeStep == ASSUME EncoderInv, Encode PROVE EncoderInv' /\ Keeps
<1> DEFINE length == headerLength + encodedLength
           typed  == Write(out, mOffset + messageTypeOffset, <<type>>)
           digits == Padded(headerBodyLength + encodedLength, BodyLengthDigits)
           headed == Write(typed, mOffset + bodyLengthOffset, digits)
           sum    == CheckSumOf(Slice(headed, mOffset, mOffset + length))
           trailer == FieldBytes(F(CheckSumTag, Padded(sum, 3)))
<1>1. out' = Write(headed, mOffset + length, trailer) /\ end' = mOffset + length + Len(trailer)
  BY DEF Encode
<1>2. phase' = "idle" /\ mOffset = end /\ end \in Nat /\ encodedLength \in Nat /\ DOMAIN out = 1 .. Size
  BY DEF Encode, EncoderInv
<1>3. IsSequence(<<type>>) /\ IsSequence(digits) /\ IsSequence(trailer)
  <2>1. IsSequence(digits)
    BY PaddedSequence DEF BodyLengthDigits
  <2>2. IsSequence(Padded(sum, 3))
    <3> HIDE DEF sum
    <3> QED BY PaddedSequence
  <2>3. CheckSumTag \in Nat
    BY DEF CheckSumTag
  <2>4. IsSequence(trailer)
    <3> HIDE DEF sum
    <3> QED BY <2>2, <2>3, FieldSequence DEF F
  <2> QED BY <2>1, <2>4, OneSequence
<1>4. length \in Nat /\ Size \in Nat
  BY <1>2, HeaderLayout, EncoderAssumption
<1> HIDE DEF length, digits, trailer
<1>5. Len(trailer) \in Nat
  BY <1>3, LengthOfSequence
<1>6. /\ DOMAIN typed = 1 .. Size
      /\ \A i \in 1 .. Size : i <= end => typed[i] = out[i]
  <2>1. mOffset + messageTypeOffset \in Nat /\ mOffset + messageTypeOffset >= end
    BY <1>2, HeaderLayout
  <2> QED BY <1>2, <1>3, <1>4, <2>1, WriteBehind
<1> HIDE DEF typed
<1>7. /\ DOMAIN headed = 1 .. Size
      /\ \A i \in 1 .. Size : i <= end => headed[i] = typed[i]
  <2>1. mOffset + bodyLengthOffset \in Nat /\ mOffset + bodyLengthOffset >= end
    BY <1>2, HeaderLayout
  <2> QED BY <1>2, <1>3, <1>4, <1>6, <2>1, WriteBehind
<1> HIDE DEF headed
<1>8. /\ DOMAIN out' = 1 .. Size
      /\ \A i \in 1 .. Size : i <= end => out'[i] = headed[i]
  <2>1. mOffset + length \in Nat /\ mOffset + length >= end
    BY <1>2, <1>4
  <2> QED BY <1>1, <1>2, <1>3, <1>4, <1>7, <2>1, WriteBehind
<1>9. end' \in Nat /\ end <= end'
  BY <1>1, <1>2, <1>4, <1>5
<1> QED BY <1>2, <1>6, <1>7, <1>8, <1>9 DEF EncoderInv, Keeps

LEMMA FlushStep == ASSUME EncoderInv, Flush PROVE EncoderInv' /\ Keeps
  BY DEF Flush, EncoderInv, Keeps

LEMMA NextStep == ASSUME EncoderInv, [Next]_vars PROVE EncoderInv' /\ (Next => Keeps)
<1>1. CASE UNCHANGED vars
  BY <1>1 DEF vars, EncoderInv, Keeps
<1>2. CASE Next
  BY <1>2, WrapStep, WrapMessageStep, WrapHeaderStep, SetterStep, EncodeStep, FlushStep DEF Next
<1> QED BY <1>1, <1>2

\* The encoder never writes in front of the end of the complete messages: what is being
\* built is always behind them, and its parts behind each other.
THEOREM EncoderInvHolds == Spec => []EncoderInv
<1>1. Init => EncoderInv
  <2>1. Size \in Nat
    BY EncoderAssumption
  <2> QED BY <2>1 DEF Init, EncoderInv
<1>2. EncoderInv /\ [Next]_vars => EncoderInv'
  BY NextStep
<1> QED BY <1>1, <1>2, PTL DEF Spec

\* Whatever an application does with the encoder, every message that is complete stays
\* byte by byte what it is until it is sent (PayloadEncoder.hpp:83-92, 145-176).
THEOREM MessagesNeverTouched == Spec => CompleteMessagesKept
<1>1. EncoderInv /\ [Next]_vars => [Keeps]_vars
  BY NextStep
<1> QED BY <1>1, EncoderInvHolds, PTL DEF Spec, CompleteMessagesKept, Keeps

-----------------------------------------------------------------------------
(***************************************************************************)
(* The checksum of blocks in lanes, whatever their width, is the sum of    *)
(* the bytes modulo 256: a lane wraps at a multiple of 256, and so does    *)
(* reading it as a signed number.                                          *)
(***************************************************************************)
Pair(bytes, at) == bytes[at + 1] + bytes[at + 2]
Lane(bytes, k)  == [b \in 1 .. Blocks(bytes) |-> Pair(bytes, 16 * (b - 1) + 2 * k)]

LEMMA SumOfEight ==
    ASSUME NEW s \in Seq(Int)
    PROVE  Len(s) = 8 =>
             SumOf(s) = s[1] + s[2] + s[3] + s[4] + s[5] + s[6] + s[7] + s[8]
<1>1. /\ Len(s) \in Nat
      /\ PartialSums(s)[0] = 0
      /\ \A i \in 1 .. Len(s) : PartialSums(s)[i] = PartialSums(s)[i - 1] + s[i]
  BY PartialSumsAre
<1>2. \A i \in 1 .. Len(s) : s[i] \in Int
  OBVIOUS
<1> SUFFICES ASSUME Len(s) = 8
             PROVE  SumOf(s) = s[1] + s[2] + s[3] + s[4] + s[5] + s[6] + s[7] + s[8]
  OBVIOUS
<1> DEFINE p == PartialSums(s)
<1> HIDE DEF p
<1>3. /\ p[0] = 0
      /\ p[1] = p[0] + s[1] /\ p[2] = p[1] + s[2] /\ p[3] = p[2] + s[3] /\ p[4] = p[3] + s[4]
      /\ p[5] = p[4] + s[5] /\ p[6] = p[5] + s[6] /\ p[7] = p[6] + s[7] /\ p[8] = p[7] + s[8]
  BY <1>1 DEF p
<1>4. /\ s[1] \in Int /\ s[2] \in Int /\ s[3] \in Int /\ s[4] \in Int
      /\ s[5] \in Int /\ s[6] \in Int /\ s[7] \in Int /\ s[8] \in Int
  BY <1>2
<1>5. p[8] = s[1] + s[2] + s[3] + s[4] + s[5] + s[6] + s[7] + s[8]
  BY <1>3, <1>4
<1> QED BY <1>5 DEF SumOf, p

PlusBlock(n, bytes, at) ==
    n + Pair(bytes, at) + Pair(bytes, at + 2) + Pair(bytes, at + 4) + Pair(bytes, at + 6)
    + Pair(bytes, at + 8) + Pair(bytes, at + 10) + Pair(bytes, at + 12) + Pair(bytes, at + 14)

\* A block adds its sixteen bytes, in pairs.
LEMMA SumOfBlock ==
    ASSUME NEW s \in Seq(Int), NEW at \in Nat, at + 16 <= Len(s)
    PROVE  PartialSums(s)[at + 16] = PlusBlock(PartialSums(s)[at], s, at)
<1> DEFINE p == PartialSums(s)
<1>1. \A i \in 1 .. Len(s) : p[i] = p[i - 1] + s[i]
  BY PartialSumsAre
<1>2. /\ \A i \in 1 .. Len(s) : s[i] \in Int
      /\ \A i \in 0 .. Len(s) : p[i] \in Int
      /\ Len(s) \in Nat
  BY PartialSumsType
<1> HIDE DEF p
<1>3. ASSUME NEW j \in Nat, j + 2 <= Len(s)
      PROVE  /\ p[j + 2] = p[j] + Pair(s, j) /\ p[j] \in Int /\ Pair(s, j) \in Int
  <2>1. j + 1 \in 1 .. Len(s) /\ j + 2 \in 1 .. Len(s) /\ j \in 0 .. Len(s)
    BY <1>2, <1>3
  <2>2. p[j + 1] = p[j] + s[j + 1] /\ p[j + 2] = p[j + 1] + s[j + 2]
    <3>1. p[j + 1] = p[(j + 1) - 1] + s[j + 1] /\ p[j + 2] = p[(j + 2) - 1] + s[j + 2]
      BY <1>1, <2>1
    <3>2. (j + 1) - 1 = j /\ (j + 2) - 1 = j + 1
      OBVIOUS
    <3> QED BY <3>1, <3>2
  <2>3. p[j] \in Int /\ s[j + 1] \in Int /\ s[j + 2] \in Int
    BY <1>2, <2>1
  <2> QED BY <2>2, <2>3 DEF Pair
<1>4. /\ p[at + 2] = p[at] + Pair(s, at) /\ p[at] \in Int /\ Pair(s, at) \in Int
      /\ p[at + 4] = p[at + 2] + Pair(s, at + 2) /\ Pair(s, at + 2) \in Int
  <2>1. at + 2 <= Len(s) /\ at + 2 \in Nat /\ (at + 2) + 2 <= Len(s) /\ (at + 2) + 2 = at + 4
    BY <1>2
  <2> QED BY <1>3, <2>1
<1>5. /\ p[at + 6] = p[at + 4] + Pair(s, at + 4) /\ Pair(s, at + 4) \in Int
      /\ p[at + 8] = p[at + 6] + Pair(s, at + 6) /\ Pair(s, at + 6) \in Int
  <2>1. /\ at + 4 \in Nat /\ (at + 4) + 2 <= Len(s) /\ (at + 4) + 2 = at + 6
        /\ at + 6 \in Nat /\ (at + 6) + 2 <= Len(s) /\ (at + 6) + 2 = at + 8
    BY <1>2
  <2> QED BY <1>3, <2>1
<1>6. /\ p[at + 10] = p[at + 8] + Pair(s, at + 8) /\ Pair(s, at + 8) \in Int
      /\ p[at + 12] = p[at + 10] + Pair(s, at + 10) /\ Pair(s, at + 10) \in Int
  <2>1. /\ at + 8 \in Nat /\ (at + 8) + 2 <= Len(s) /\ (at + 8) + 2 = at + 10
        /\ at + 10 \in Nat /\ (at + 10) + 2 <= Len(s) /\ (at + 10) + 2 = at + 12
    BY <1>2
  <2> QED BY <1>3, <2>1
<1>7. /\ p[at + 14] = p[at + 12] + Pair(s, at + 12) /\ Pair(s, at + 12) \in Int
      /\ p[at + 16] = p[at + 14] + Pair(s, at + 14) /\ Pair(s, at + 14) \in Int
  <2>1. /\ at + 12 \in Nat /\ (at + 12) + 2 <= Len(s) /\ (at + 12) + 2 = at + 14
        /\ at + 14 \in Nat /\ (at + 14) + 2 <= Len(s) /\ (at + 14) + 2 = at + 16
    BY <1>2
  <2> QED BY <1>3, <2>1
<1> QED BY <1>4, <1>5, <1>6, <1>7 DEF p, PlusBlock

LEMMA BlocksInBytes ==
    ASSUME NEW bytes \in Seq(Int)
    PROVE  Blocks(bytes) \in Nat /\ 16 * Blocks(bytes) <= Len(bytes)
<1>1. Len(bytes) \in Nat
  OBVIOUS
<1> QED BY <1>1 DEF Blocks, BlockSize

LEMMA PairType ==
    ASSUME NEW s \in Seq(Int), NEW at \in Nat, at + 2 <= Len(s)
    PROVE  Pair(s, at) \in Int
<1>1. at + 1 \in 1 .. Len(s) /\ at + 2 \in 1 .. Len(s)
  OBVIOUS
<1>2. \A i \in 1 .. Len(s) : s[i] \in Int
  OBVIOUS
<1> QED BY <1>1, <1>2 DEF Pair

LEMMA LaneType ==
    ASSUME NEW bytes \in Seq(Int), NEW k \in 0 .. 7
    PROVE  Lane(bytes, k) \in Seq(Int) /\ Len(Lane(bytes, k)) = Blocks(bytes)
<1>1. Blocks(bytes) \in Nat /\ 16 * Blocks(bytes) <= Len(bytes) /\ Len(bytes) \in Nat
  BY BlocksInBytes
<1>2. ASSUME NEW b \in 1 .. Blocks(bytes) PROVE Pair(bytes, 16 * (b - 1) + 2 * k) \in Int
  <2>1. 16 * (b - 1) + 2 * k \in Nat /\ 16 * (b - 1) + 2 * k + 2 <= Len(bytes)
    BY <1>1
  <2> QED BY <2>1, PairType
<1>3. Lane(bytes, k) \in [1 .. Blocks(bytes) -> Int]
  BY <1>2 DEF Lane
<1> QED BY <1>1, <1>3

InLane(bytes, k, b) == PartialSums(Lane(bytes, k))[b]

InLanes(bytes, b) ==
    InLane(bytes, 0, b) + InLane(bytes, 1, b) + InLane(bytes, 2, b) + InLane(bytes, 3, b)
    + InLane(bytes, 4, b) + InLane(bytes, 5, b) + InLane(bytes, 6, b) + InLane(bytes, 7, b)

\* Sums added lane by lane are added in one.
LEMMA AddedTogether ==
    ASSUME NEW a \in [0 .. 7 -> Int], NEW c \in [0 .. 7 -> Int], NEW b,
           \A k \in 0 .. 7 : b[k] = a[k] + c[k]
    PROVE  b[0] + b[1] + b[2] + b[3] + b[4] + b[5] + b[6] + b[7]
               = (a[0] + a[1] + a[2] + a[3] + a[4] + a[5] + a[6] + a[7])
                 + c[0] + c[1] + c[2] + c[3] + c[4] + c[5] + c[6] + c[7]
OBVIOUS

LEMMA AddedBehind ==
    ASSUME NEW n \in Int, NEW c \in [0 .. 7 -> Int]
    PROVE  n + c[0] + c[1] + c[2] + c[3] + c[4] + c[5] + c[6] + c[7]
               = n + (c[0] + c[1] + c[2] + c[3] + c[4] + c[5] + c[6] + c[7])
<1>1. /\ c[0] \in Int /\ c[1] \in Int /\ c[2] \in Int /\ c[3] \in Int
      /\ c[4] \in Int /\ c[5] \in Int /\ c[6] \in Int /\ c[7] \in Int
  OBVIOUS
<1> QED BY <1>1

\* A block adds to the lanes what it adds to the sum.
LEMMA BlockInLanes ==
    ASSUME NEW bytes, NEW at \in Nat, NEW m \in Nat,
           \A k \in 0 .. 7 : InLane(bytes, k, m) = InLane(bytes, k, m - 1) + Pair(bytes, at + 2 * k),
           \A k \in 0 .. 7 : InLane(bytes, k, m - 1) \in Int,
           \A k \in 0 .. 7 : Pair(bytes, at + 2 * k) \in Int
    PROVE  InLanes(bytes, m) = PlusBlock(InLanes(bytes, m - 1), bytes, at)
<1> DEFINE a == [k \in 0 .. 7 |-> InLane(bytes, k, m - 1)]
           b == [k \in 0 .. 7 |-> InLane(bytes, k, m)]
           c == [k \in 0 .. 7 |-> Pair(bytes, at + 2 * k)]
<1>1. a \in [0 .. 7 -> Int] /\ c \in [0 .. 7 -> Int] /\ \A k \in 0 .. 7 : b[k] = a[k] + c[k]
  OBVIOUS
<1>2. InLanes(bytes, m - 1) = a[0] + a[1] + a[2] + a[3] + a[4] + a[5] + a[6] + a[7]
  BY DEF InLanes
<1>3. InLanes(bytes, m) = b[0] + b[1] + b[2] + b[3] + b[4] + b[5] + b[6] + b[7]
  BY DEF InLanes
<1>4. /\ c[0] = Pair(bytes, at) /\ c[1] = Pair(bytes, at + 2) /\ c[2] = Pair(bytes, at + 4)
      /\ c[3] = Pair(bytes, at + 6) /\ c[4] = Pair(bytes, at + 8) /\ c[5] = Pair(bytes, at + 10)
      /\ c[6] = Pair(bytes, at + 12) /\ c[7] = Pair(bytes, at + 14)
  OBVIOUS
<1> HIDE DEF a, b, c
<1>5. b[0] + b[1] + b[2] + b[3] + b[4] + b[5] + b[6] + b[7]
          = (a[0] + a[1] + a[2] + a[3] + a[4] + a[5] + a[6] + a[7])
            + c[0] + c[1] + c[2] + c[3] + c[4] + c[5] + c[6] + c[7]
  BY <1>1, AddedTogether
<1> QED BY <1>2, <1>3, <1>4, <1>5 DEF PlusBlock

\* The lanes add up to the bytes of the blocks they have been given.
LEMMA LanesAddUp ==
    ASSUME NEW bytes \in Seq(Int)
    PROVE  SumOf(Lane(bytes, 0)) + SumOf(Lane(bytes, 1)) + SumOf(Lane(bytes, 2))
           + SumOf(Lane(bytes, 3)) + SumOf(Lane(bytes, 4)) + SumOf(Lane(bytes, 5))
           + SumOf(Lane(bytes, 6)) + SumOf(Lane(bytes, 7)) = PartialSums(bytes)[16 * Blocks(bytes)]
<1> DEFINE n == Blocks(bytes)
           Bad == {b \in 0 .. n : InLanes(bytes, b) # PartialSums(bytes)[16 * b]}
<1>1. n \in Nat /\ 16 * n <= Len(bytes) /\ Len(bytes) \in Nat
  BY BlocksInBytes
<1>2. ASSUME NEW k \in 0 .. 7
      PROVE  /\ SumOf(Lane(bytes, k)) = InLane(bytes, k, n)
             /\ InLane(bytes, k, 0) = 0
             /\ \A b \in 1 .. n : InLane(bytes, k, b) = InLane(bytes, k, b - 1) + Pair(bytes, 16 * (b - 1) + 2 * k)
             /\ \A b \in 0 .. n : InLane(bytes, k, b) \in Int
  <2> DEFINE lane == Lane(bytes, k)
  <2>1. lane \in Seq(Int) /\ Len(lane) = n
    BY LaneType
  <2>2. \A b \in 1 .. n : lane[b] = Pair(bytes, 16 * (b - 1) + 2 * k)
    BY DEF Lane
  <2> HIDE DEF lane
  <2>3. /\ PartialSums(lane)[0] = 0
        /\ \A b \in 1 .. n : PartialSums(lane)[b] = PartialSums(lane)[b - 1] + lane[b]
        /\ \A b \in 0 .. n : PartialSums(lane)[b] \in Int
    BY <1>1, <2>1, PartialSumsAre, PartialSumsType
  <2> QED BY <2>1, <2>2, <2>3 DEF lane, SumOf, InLane
<1> HIDE DEF n
<1>3. SUFFICES ASSUME Bad # {} PROVE FALSE
  <2>1. n \in 0 .. n
    BY <1>1
  <2>2. InLanes(bytes, n) = PartialSums(bytes)[16 * n]
    BY <1>3, <2>1
  <2> QED BY <1>2, <2>2 DEF n, InLanes
<1>4. PICK m \in Bad : \A b \in Bad : m <= b
  <2>1. Bad \in SUBSET Nat
    OBVIOUS
  <2> HIDE DEF Bad
  <2> QED BY <1>3, <2>1, LeastOfNat
<1>5. CASE m = 0
  <2>1. InLanes(bytes, 0) = 0
    BY <1>2 DEF InLanes
  <2>2. PartialSums(bytes)[16 * 0] = 0
    BY PartialSumsAre
  <2> QED BY <1>4, <1>5, <2>1, <2>2
<1>6. CASE m # 0
  <2>1. m \in 1 .. n /\ m - 1 \in 0 .. n /\ m - 1 \notin Bad
    BY <1>1, <1>4, <1>6
  <2> DEFINE at == 16 * (m - 1)
  <2>2. at \in Nat /\ at + 16 = 16 * m /\ at + 16 <= Len(bytes)
    BY <1>1, <2>1
  <2>3. PartialSums(bytes)[at] = InLanes(bytes, m - 1)
    BY <2>1
  <2>4. \A k \in 0 .. 7 : InLane(bytes, k, m) = InLane(bytes, k, m - 1) + Pair(bytes, at + 2 * k)
    BY <1>2, <2>1
  <2>5. \A k \in 0 .. 7 : InLane(bytes, k, m - 1) \in Int /\ InLane(bytes, k, m) \in Int
    BY <1>2, <2>1
  <2> HIDE DEF at
  <2>6. PartialSums(bytes)[at + 16] = PlusBlock(PartialSums(bytes)[at], bytes, at)
    BY <2>2, SumOfBlock
  <2>7. ASSUME NEW k \in 0 .. 7 PROVE Pair(bytes, at + 2 * k) \in Int
    <3>1. k \in Nat /\ k <= 7
      OBVIOUS
    <3>2. at + 2 * k \in Nat /\ at + 2 * k + 2 <= Len(bytes)
      BY <1>1, <2>2, <3>1
    <3> QED BY <3>2, PairType
  <2>8. InLanes(bytes, m) = PlusBlock(InLanes(bytes, m - 1), bytes, at)
    <3>1. m \in Nat
      BY <1>4
    <3> HIDE DEF Bad
    <3> QED BY <2>2, <2>4, <2>5, <2>7, <3>1, BlockInLanes
  <2> QED BY <1>4, <2>2, <2>3, <2>6, <2>8
<1> QED BY <1>5, <1>6

\* Division in Euclid's sense, and a sum of multiples of 256.
LEMMA DivisionIs ==
    ASSUME NEW n \in Int, NEW d \in Nat \ {0}
    PROVE  n \div d \in Int /\ n % d \in Int /\ n = d * (n \div d) + (n % d)
<1>1. n = d * (n \div d) + (n % d)
  OBVIOUS
<1>2. n \div d \in Int
  OBVIOUS
<1>3. n % d \in 0 .. d - 1
  OBVIOUS
<1> QED BY <1>1, <1>2, <1>3

LEMMA DivisorOf256 ==
    ASSUME NEW n \in Nat, n % 256 = 0
    PROVE  n \div 256 \in Int /\ n = 256 * (n \div 256)
OBVIOUS

LEMMA RemainderLess ==
    ASSUME NEW n \in Int, NEW d \in Nat \ {0}
    PROVE  \E q \in Int : n % d = n - d * q
<1> DEFINE q == n \div d
<1>1. q \in Int /\ n % d \in Int /\ n = d * q + (n % d)
  BY DivisionIs
<1>2. PICK r \in Int : r = n % d
  BY <1>1
<1> HIDE DEF q
<1>3. PICK p \in Int : p = d * q
  BY <1>1
<1>4. n = p + r
  BY <1>1, <1>2, <1>3
<1>5. r = n - p
  BY <1>2, <1>3, <1>4
<1> QED BY <1>1, <1>2, <1>3, <1>5

\* A lane is its sum, but for a multiple of 256.
LEMMA LaneValueIs ==
    ASSUME NEW n \in Int
    PROVE  \E q \in Int : LaneValue(n % LaneModulus) = n + 256 * q
<1>1. LaneModulus \in Nat \ {0}
  BY EncoderAssumption
<1>2. PICK c \in Int : LaneModulus = 256 * c
  <2>1. LaneModulus % 256 = 0
    BY EncoderAssumption
  <2>2. LaneModulus = 256 * (LaneModulus \div 256) /\ LaneModulus \div 256 \in Int
    BY <1>1, <2>1, DivisorOf256
  <2> QED BY <2>2
<1>3. PICK d \in Int : n % LaneModulus = n - LaneModulus * d
  BY <1>1, RemainderLess
<1>4. PICK e \in Int : e = c * d
  BY <1>2, <1>3
<1>5. LaneModulus * d = 256 * e
  BY <1>2, <1>3, <1>4
<1>6. CASE n % LaneModulus < LaneModulus \div 2
  <2>1. LaneValue(n % LaneModulus) = n + 256 * (0 - e)
    BY <1>1, <1>3, <1>4, <1>5, <1>6 DEF LaneValue
  <2>2. 0 - e \in Int
    BY <1>4
  <2> QED BY <2>1, <2>2
<1>7. CASE ~ (n % LaneModulus < LaneModulus \div 2)
  <2>1. LaneValue(n % LaneModulus) = n + 256 * ((0 - e) - c)
    BY <1>1, <1>2, <1>3, <1>4, <1>5, <1>7 DEF LaneValue
  <2>2. (0 - e) - c \in Int
    BY <1>2, <1>4
  <2> QED BY <2>1, <2>2
<1> QED BY <1>6, <1>7

LEMMA AddedMultiple ==
    ASSUME NEW n \in Int, NEW q \in Int
    PROVE  (n + 256 * q) % 256 = n % 256
OBVIOUS

LEMMA EightMultiples ==
    ASSUME NEW c, NEW q, \A k \in 0 .. 7 : c[k] = 256 * q[k] /\ q[k] \in Int
    PROVE  \E m \in Int : c[0] + c[1] + c[2] + c[3] + c[4] + c[5] + c[6] + c[7] = 256 * m
<1>1. /\ q[0] \in Int /\ q[1] \in Int /\ q[2] \in Int /\ q[3] \in Int
      /\ q[4] \in Int /\ q[5] \in Int /\ q[6] \in Int /\ q[7] \in Int
  OBVIOUS
<1>2. c[0] + c[1] + c[2] + c[3] = 256 * (q[0] + q[1] + q[2] + q[3])
  BY <1>1
<1>3. c[0] + c[1] + c[2] + c[3] + c[4] + c[5] + c[6] + c[7]
          = 256 * (q[0] + q[1] + q[2] + q[3] + q[4] + q[5] + q[6] + q[7])
  <2>1. PICK x \in Int : x = q[0] + q[1] + q[2] + q[3]
    BY <1>1
  <2>2. c[0] + c[1] + c[2] + c[3] = 256 * x
    BY <1>2, <2>1
  <2>3. /\ c[4] = 256 * q[4] /\ c[5] = 256 * q[5] /\ c[6] = 256 * q[6] /\ c[7] = 256 * q[7]
    OBVIOUS
  <2>4. 256 * x + c[4] + c[5] + c[6] + c[7] = 256 * (x + q[4] + q[5] + q[6] + q[7])
    BY <1>1, <2>1, <2>3
  <2> QED BY <2>1, <2>2, <2>4
<1>4. q[0] + q[1] + q[2] + q[3] + q[4] + q[5] + q[6] + q[7] \in Int
  BY <1>1
<1> QED BY <1>3, <1>4

\* The encoder's checksum, added up in eight lanes that wrap and are read as signed
\* numbers, is the sum of the bytes modulo 256, whatever their number.
LEMMA CheckSumIsSum ==
    ASSUME NEW bytes \in Seq(Int)
    PROVE  CheckSumOf(bytes) = SumOf(bytes) % 256
<1> DEFINE v(k) == LaneValue(LaneSum(bytes, k))
           lanes == [k \in 1 .. 8 |-> v(k - 1)]
           a == [k \in 0 .. 7 |-> SumOf(Lane(bytes, k))]
           q == [k \in 0 .. 7 |-> CHOOSE q \in Int : v(k) = SumOf(Lane(bytes, k)) + 256 * q]
           c == [k \in 0 .. 7 |-> 256 * q[k]]
           b == [k \in 0 .. 7 |-> v(k)]
           n == 16 * Blocks(bytes)
<1>1. /\ n \in 0 .. Len(bytes) /\ n \in Nat /\ Len(bytes) \in Nat
      /\ PartialSums(bytes)[n] \in Int /\ SumOf(bytes) \in Int
  BY BlocksInBytes, PartialSumsType, SumOfType
<1>2. ASSUME NEW k \in 0 .. 7
      PROVE  /\ SumOf(Lane(bytes, k)) \in Int /\ q[k] \in Int
             /\ v(k) = SumOf(Lane(bytes, k)) + 256 * q[k]
  <2>1. SumOf(Lane(bytes, k)) \in Int
    BY LaneType, SumOfType
  <2>2. LaneSum(bytes, k) = SumOf(Lane(bytes, k)) % LaneModulus
    BY DEF LaneSum, Lane, Pair, BlockSize
  <2>3. \E m \in Int : v(k) = SumOf(Lane(bytes, k)) + 256 * m
    BY <2>1, <2>2, LaneValueIs
  <2> HIDE DEF v
  <2>4. q[k] \in Int /\ v(k) = SumOf(Lane(bytes, k)) + 256 * q[k]
    BY <2>3
  <2> QED BY <2>1, <2>4
<1> HIDE DEF q, v
<1>3. /\ a \in [0 .. 7 -> Int] /\ c \in [0 .. 7 -> Int] /\ b \in [0 .. 7 -> Int]
      /\ \A k \in 0 .. 7 : b[k] = a[k] + c[k]
  <2>1. a \in [0 .. 7 -> Int]
    BY <1>2
  <2>2. ASSUME NEW k \in 0 .. 7
        PROVE  256 * q[k] \in Int /\ v(k) = a[k] + 256 * q[k] /\ v(k) \in Int
    <3>1. a[k] \in Int /\ q[k] \in Int /\ v(k) = a[k] + 256 * q[k]
      BY <1>2
    <3> HIDE DEF a
    <3> QED BY <3>1
  <2>3. c \in [0 .. 7 -> Int] /\ b \in [0 .. 7 -> Int]
    BY <2>2
  <2> QED BY <2>1, <2>2, <2>3
<1>4. lanes \in Seq(Int) /\ Len(lanes) = 8
  <2>1. \A i \in 1 .. 8 : i - 1 \in 0 .. 7 /\ lanes[i] = b[i - 1]
    OBVIOUS
  <2>2. \A i \in 1 .. 8 : lanes[i] \in Int
    BY <1>3, <2>1
  <2>3. lanes \in [1 .. 8 -> Int]
    BY <2>2
  <2> QED BY <2>3
<1>5. /\ lanes[1] = b[0] /\ lanes[2] = b[1] /\ lanes[3] = b[2] /\ lanes[4] = b[3]
      /\ lanes[5] = b[4] /\ lanes[6] = b[5] /\ lanes[7] = b[6] /\ lanes[8] = b[7]
  OBVIOUS
<1>6. a[0] + a[1] + a[2] + a[3] + a[4] + a[5] + a[6] + a[7] = PartialSums(bytes)[n]
  BY LanesAddUp
<1>7. \A k \in 0 .. 7 : c[k] = 256 * q[k] /\ q[k] \in Int
  BY <1>2
<1>8. CheckSumOf(bytes) = (SumOf(lanes) + SumOf(Slice(bytes, n, Len(bytes)))) % 256
  BY DEF CheckSumOf, BlockSize, v
<1>9. SumOf(Slice(bytes, n, Len(bytes))) = SumOf(bytes) - PartialSums(bytes)[n]
  BY <1>1, SumOfSlice DEF SumOf
<1> HIDE DEF a, b, c, lanes, n
<1>10. SumOf(lanes) = b[0] + b[1] + b[2] + b[3] + b[4] + b[5] + b[6] + b[7]
  BY <1>4, <1>5, SumOfEight
<1>11. b[0] + b[1] + b[2] + b[3] + b[4] + b[5] + b[6] + b[7]
           = (a[0] + a[1] + a[2] + a[3] + a[4] + a[5] + a[6] + a[7])
             + c[0] + c[1] + c[2] + c[3] + c[4] + c[5] + c[6] + c[7]
  BY <1>3, AddedTogether, ZenonT(40)
<1>12. PICK m \in Int : c[0] + c[1] + c[2] + c[3] + c[4] + c[5] + c[6] + c[7] = 256 * m
  BY <1>7, EightMultiples
<1>13. SumOf(lanes) = PartialSums(bytes)[n] + 256 * m
  <2>1. SumOf(lanes) = PartialSums(bytes)[n] + c[0] + c[1] + c[2] + c[3] + c[4] + c[5] + c[6] + c[7]
    BY <1>6, <1>10, <1>11
  <2>2. PICK x \in Int : x = PartialSums(bytes)[n]
    BY <1>1
  <2>3. c \in [0 .. 7 -> Int]
    BY <1>3
  <2>4. x + c[0] + c[1] + c[2] + c[3] + c[4] + c[5] + c[6] + c[7]
            = x + (c[0] + c[1] + c[2] + c[3] + c[4] + c[5] + c[6] + c[7])
    BY <2>2, <2>3, AddedBehind
  <2> QED BY <1>12, <2>1, <2>2, <2>4
<1>14. SumOf(lanes) + SumOf(Slice(bytes, n, Len(bytes))) = SumOf(bytes) + 256 * m
  BY <1>1, <1>9, <1>12, <1>13
<1> QED BY <1>1, <1>8, <1>12, <1>14, AddedMultiple

-----------------------------------------------------------------------------
(***************************************************************************)
(* What a buffer holds at a position.                                      *)
(***************************************************************************)
Holds(buffer, at, bytes) == \A i \in 1 .. Len(bytes) : buffer[at + i] = bytes[i]

Buffer == [1 .. Size -> Byte]

LEMMA BytesJoined ==
    ASSUME NEW s \in Seq(Byte), NEW t \in Seq(Byte)
    PROVE  s \o t \in Seq(Byte) /\ Len(s \o t) = Len(s) + Len(t) /\ Len(s) \in Nat /\ Len(t) \in Nat
BY ConcatProperties

LEMMA HoldsJoined ==
    ASSUME NEW buffer, NEW at \in Nat, NEW s \in Seq(Byte), NEW t \in Seq(Byte)
    PROVE  Holds(buffer, at, s \o t) <=> Holds(buffer, at, s) /\ Holds(buffer, at + Len(s), t)
<1>1. /\ Len(s) \in Nat /\ Len(t) \in Nat /\ Len(s \o t) = Len(s) + Len(t)
      /\ \A i \in 1 .. Len(s) + Len(t) : (s \o t)[i] = IF i <= Len(s) THEN s[i] ELSE t[i - Len(s)]
  BY ConcatProperties
<1> DEFINE st == s \o t
<1> HIDE DEF st
<1>2. ASSUME Holds(buffer, at, st) PROVE Holds(buffer, at, s) /\ Holds(buffer, at + Len(s), t)
  <2>1. ASSUME NEW i \in 1 .. Len(s) PROVE buffer[at + i] = s[i]
    BY <1>1, <1>2 DEF Holds, st
  <2>2. ASSUME NEW i \in 1 .. Len(t) PROVE buffer[at + Len(s) + i] = t[i]
    <3>1. Len(s) + i \in 1 .. Len(s) + Len(t) /\ ~ (Len(s) + i <= Len(s)) /\ Len(s) + i - Len(s) = i
      BY <1>1
    <3>2. st[Len(s) + i] = t[i]
      BY <1>1, <3>1 DEF st
    <3>3. buffer[at + (Len(s) + i)] = st[Len(s) + i]
      BY <1>1, <1>2, <3>1 DEF Holds, st
    <3> QED BY <1>1, <3>2, <3>3
  <2> QED BY <2>1, <2>2 DEF Holds
<1>3. ASSUME Holds(buffer, at, s), Holds(buffer, at + Len(s), t),
             NEW i \in 1 .. Len(s) + Len(t)
      PROVE  buffer[at + i] = st[i]
  <2>1. CASE i <= Len(s)
    BY <1>1, <1>3, <2>1 DEF Holds, st
  <2>2. CASE ~ (i <= Len(s))
    <3>1. i - Len(s) \in 1 .. Len(t) /\ at + Len(s) + (i - Len(s)) = at + i
      BY <1>1, <2>2
    <3>2. buffer[at + Len(s) + (i - Len(s))] = t[i - Len(s)]
      BY <1>3, <3>1 DEF Holds
    <3> QED BY <1>1, <2>2, <3>1, <3>2 DEF st
  <2> QED BY <2>1, <2>2
<1> QED BY <1>1, <1>2, <1>3 DEF Holds, st

LEMMA WriteHolds ==
    ASSUME NEW buffer \in Buffer, NEW at \in Nat, NEW bytes \in Seq(Byte),
           at + Len(bytes) <= Size
    PROVE  /\ Write(buffer, at, bytes) \in Buffer
           /\ Holds(Write(buffer, at, bytes), at, bytes)
<1>1. Size \in Nat /\ Len(bytes) \in Nat /\ \A i \in 1 .. Len(bytes) : bytes[i] \in Byte
  BY EncoderAssumption, ElementOfSeq
<1>2. DOMAIN buffer = 1 .. Size
  BY DEF Buffer
<1>3. ASSUME NEW i \in 1 .. Size
      PROVE  (IF i - 1 \in at .. at + Len(bytes) - 1 THEN bytes[i - at] ELSE buffer[i]) \in Byte
  <2>1. CASE i - 1 \in at .. at + Len(bytes) - 1
    <3>1. i - at \in 1 .. Len(bytes)
      BY <1>1, <2>1
    <3> QED BY <1>1, <2>1, <3>1
  <2>2. CASE i - 1 \notin at .. at + Len(bytes) - 1
    BY <2>2 DEF Buffer
  <2> QED BY <2>1, <2>2
<1>4. ASSUME NEW i \in 1 .. Len(bytes) PROVE Write(buffer, at, bytes)[at + i] = bytes[i]
  <2>1. at + i \in 1 .. Size /\ at + i - 1 \in at .. at + Len(bytes) - 1 /\ at + i - at = i
    BY <1>1
  <2> QED BY <1>2, <2>1 DEF Write
<1> QED BY <1>2, <1>3, <1>4 DEF Write, Buffer, Holds

\* What lies in front of the bytes written, or behind them, stays.
LEMMA WriteKeeps ==
    ASSUME NEW buffer \in Buffer, NEW at \in Nat, NEW bytes \in Seq(Byte),
           NEW p \in Nat, NEW s \in Seq(Byte), Holds(buffer, p, s), p + Len(s) <= Size,
           at >= p + Len(s) \/ at + Len(bytes) <= p
    PROVE  Holds(Write(buffer, at, bytes), p, s)
<1>1. Size \in Nat /\ Len(bytes) \in Nat /\ Len(s) \in Nat
  BY EncoderAssumption
<1>2. DOMAIN buffer = 1 .. Size
  BY DEF Buffer
<1>3. ASSUME NEW i \in 1 .. Len(s) PROVE Write(buffer, at, bytes)[p + i] = s[i]
  <2>1. p + i \in 1 .. Size /\ p + i - 1 \notin at .. at + Len(bytes) - 1
    BY <1>1
  <2>2. Write(buffer, at, bytes)[p + i] = buffer[p + i]
    BY <1>2, <2>1 DEF Write
  <2> QED BY <2>2 DEF Holds
<1> QED BY <1>3 DEF Holds

\* A part of the buffer that holds bytes is them.
LEMMA HeldPart ==
    ASSUME NEW buffer \in Buffer, NEW at \in Nat, NEW s \in Seq(Byte), at + Len(s) <= Size
    PROVE  Holds(buffer, at, s) <=> SubSeq(buffer, at + 1, at + Len(s)) = s
<1>1. Size \in Nat /\ Len(s) \in Nat
  BY EncoderAssumption
<1>2. buffer \in Seq(Byte) /\ Len(buffer) = Size
  BY <1>1 DEF Buffer
<1> DEFINE part == SubSeq(buffer, at + 1, at + Len(s))
<1>3. part \in Seq(Byte) /\ Len(part) = Len(s) /\ \A i \in 1 .. Len(s) : part[i] = buffer[at + i]
  <2>1. at + 1 \in 1 .. Size + 1 /\ at + Len(s) \in at .. Size
    BY <1>1
  <2>2. part \in Seq(Byte)
    BY <1>1, <1>2
  <2>3. /\ Len(part) = IF at + 1 <= at + Len(s) THEN at + Len(s) - (at + 1) + 1 ELSE 0
        /\ \A i \in 1 .. (at + Len(s)) - (at + 1) + 1 : part[i] = buffer[at + 1 + i - 1]
    BY <1>1, <1>2, SubSeqProperties
  <2>4. \A i \in 1 .. Len(s) : at + 1 + i - 1 = at + i /\ i \in 1 .. (at + Len(s)) - (at + 1) + 1
    BY <1>1
  <2> QED BY <1>1, <2>2, <2>3, <2>4
<1> HIDE DEF part
<1>4. Holds(buffer, at, s) => part = s
  <2> SUFFICES ASSUME Holds(buffer, at, s) PROVE part = s
    OBVIOUS
  <2>1. \A i \in 1 .. Len(s) : part[i] = s[i]
    BY <1>3 DEF Holds
  <2> QED BY <1>3, <2>1, SeqEqual
<1>5. part = s => Holds(buffer, at, s)
  BY <1>3 DEF Holds
<1> QED BY <1>4, <1>5 DEF part

-----------------------------------------------------------------------------
(***************************************************************************)
(* The header in the buffer, and the codes written into it.                *)
(***************************************************************************)
LEMMA FieldHeld ==
    ASSUME NEW f \in WireField, NEW buffer, NEW at \in Nat
    PROVE  LET name == Decimal(f.tag) \o <<TagEnd>>
               from == at + Len(Decimal(f.tag)) + 1
           IN  /\ Len(Decimal(f.tag)) \in Nat /\ Len(f.value) \in Nat /\ name \in Seq(Byte)
               /\ Len(name) = Len(Decimal(f.tag)) + 1
               /\ Len(FieldBytes(f)) = Len(Decimal(f.tag)) + Len(f.value) + 2
               /\ Holds(buffer, at, FieldBytes(f)) <=>
                      /\ Holds(buffer, at, name)
                      /\ Holds(buffer, from, f.value)
                      /\ Holds(buffer, from + Len(f.value), <<FieldEnd>>)
<1> DEFINE d == Decimal(f.tag)
           name == d \o <<TagEnd>>
           from == at + Len(d) + 1
<1>1. d \in Seq(Byte) /\ f.value \in Seq(Byte)
  BY DecimalBytes DEF WireField
<1>2. <<TagEnd>> \in Seq(Byte) /\ <<FieldEnd>> \in Seq(Byte) /\ Len(<<TagEnd>>) = 1 /\ Len(<<FieldEnd>>) = 1
  BY DEF Byte, TagEnd, FieldEnd
<1> DEFINE value == f.value
           se == <<FieldEnd>>
           te == <<TagEnd>>
<1>3. FieldBytes(f) = (name \o value) \o se
  <2>1. FieldBytes(f) = ((d \o <<TagEnd>>) \o f.value) \o <<FieldEnd>>
    BY DEF FieldBytes
  <2> QED BY <2>1
<1>4. name = d \o te /\ value \in Seq(Byte) /\ se \in Seq(Byte) /\ te \in Seq(Byte) /\ d \in Seq(Byte)
      /\ Len(te) = 1 /\ Len(se) = 1 /\ from = at + Len(d) + 1
  BY <1>1, <1>2
<1> HIDE DEF d, name, value, se, te, from
<1>5. Len(d) \in Nat /\ Len(value) \in Nat
  BY <1>4
<1>6. name \in Seq(Byte) /\ Len(name) = Len(d) + 1
  BY <1>4, BytesJoined
<1>7. name \o value \in Seq(Byte) /\ Len(name \o value) = Len(d) + 1 + Len(value)
  BY <1>4, <1>6, BytesJoined
<1>8. Len((name \o value) \o se) = Len(d) + 1 + Len(value) + 1
  BY <1>4, <1>7, BytesJoined, ZenonT(40)
<1>9. Holds(buffer, at, (name \o value) \o se)
          <=> Holds(buffer, at, name \o value) /\ Holds(buffer, at + Len(name \o value), se)
  BY <1>4, <1>7, HoldsJoined
<1>10. Holds(buffer, at, name \o value) <=> Holds(buffer, at, name) /\ Holds(buffer, at + Len(name), value)
  BY <1>4, <1>6, HoldsJoined
<1>11. at + Len(name) = from /\ at + Len(name \o value) = from + Len(value)
  BY <1>4, <1>5, <1>6, <1>7
<1>12. Holds(buffer, at, FieldBytes(f)) <=>
          Holds(buffer, at, name) /\ Holds(buffer, from, value) /\ Holds(buffer, from + Len(value), se)
  BY <1>3, <1>9, <1>10, <1>11
<1>13. Len(FieldBytes(f)) = Len(d) + Len(value) + 2
  BY <1>3, <1>5, <1>8
<1> QED BY <1>5, <1>6, <1>12, <1>13 DEF d, name, value, se, from

\* A code of the same width written over the value of a field.
LEMMA ReplaceValue ==
    ASSUME NEW buffer \in Buffer, NEW at \in Nat, NEW tag \in Nat,
           NEW v \in Seq(Byte), NEW w \in Seq(Byte), Len(v) = Len(w),
           at + Len(FieldBytes(F(tag, v))) <= Size,
           Holds(buffer, at, FieldBytes(F(tag, v)))
    PROVE  /\ Write(buffer, at + Len(Decimal(tag)) + 1, w) \in Buffer
           /\ Holds(Write(buffer, at + Len(Decimal(tag)) + 1, w), at, FieldBytes(F(tag, w)))
<1> DEFINE d == Len(Decimal(tag))
           name == Decimal(tag) \o <<TagEnd>>
           from == at + d + 1
           b == Write(buffer, from, w)
<1>1. /\ F(tag, v) \in WireField /\ F(tag, v).tag = tag /\ F(tag, v).value = v
      /\ F(tag, w) \in WireField /\ F(tag, w).tag = tag /\ F(tag, w).value = w
  BY DEF F, WireField
<1>2. /\ d \in Nat /\ name \in Seq(Byte) /\ Len(name) = d + 1
      /\ Len(FieldBytes(F(tag, v))) = d + Len(v) + 2
      /\ Holds(buffer, at, name) /\ Holds(buffer, from + Len(v), <<FieldEnd>>)
  BY <1>1, FieldHeld
<1>3. Holds(b, at, FieldBytes(F(tag, w))) <=>
          Holds(b, at, name) /\ Holds(b, from, w) /\ Holds(b, from + Len(w), <<FieldEnd>>)
  BY <1>1, FieldHeld
<1>4. <<FieldEnd>> \in Seq(Byte) /\ Len(<<FieldEnd>>) = 1 /\ Len(v) \in Nat /\ Size \in Nat
  BY EncoderAssumption DEF Byte, FieldEnd
<1> DEFINE se == <<FieldEnd>>
<1>5. se \in Seq(Byte) /\ Len(se) = 1 /\ Holds(buffer, from + Len(v), se)
  BY <1>2, <1>4
<1>6. from = at + d + 1 /\ from \in Nat
  BY <1>2
<1> HIDE DEF d, name, se
<1>7. b \in Buffer /\ Holds(b, from, w)
  <2>1. from + Len(w) <= Size
    BY <1>2, <1>4, <1>6
  <2> HIDE DEF from
  <2> QED BY <1>6, <2>1, WriteHolds
<1>8. Holds(b, at, name)
  <2>1. at + Len(name) <= Size /\ from >= at + Len(name)
    BY <1>2, <1>4, <1>6
  <2> HIDE DEF from
  <2> QED BY <1>2, <1>6, <2>1, WriteKeeps
<1>9. Holds(b, from + Len(w), se)
  <2>1. from + Len(v) \in Nat /\ from + Len(v) + Len(se) <= Size /\ from + Len(w) <= from + Len(v)
    BY <1>2, <1>4, <1>5, <1>6
  <2> HIDE DEF from
  <2>2. Holds(b, from + Len(v), se)
    BY <1>5, <1>6, <2>1, WriteKeeps
  <2> QED BY <2>2
<1> QED BY <1>3, <1>7, <1>8, <1>9 DEF d, se

LEMMA TagWidths ==
    /\ Len(Decimal(8)) = 1 /\ Len(Decimal(9)) = 1
    /\ Len(Decimal(10)) = 2 /\ Len(Decimal(35)) = 2
<1>1. /\ Weight[1] = 1 /\ Weight[2] = 10 /\ Weight[3] = 100 /\ Weight[4] = 1000 /\ Weight[5] = 10000
      /\ Weight[6] = 100000 /\ Weight[7] = 1000000 /\ Weight[8] = 10000000
  BY DEF Weight
<1>2. ASSUME NEW n \in 0 .. 9 PROVE Len(Decimal(n)) = 1
  <2>1. PICK w \in 1 .. 8 : /\ Decimal(n) = Padded(n, w)
                            /\ w = 1 \/ n >= Weight[w]
    BY DecimalWidth DEF MaxNumberLength
  <2>2. w = 1
    BY <1>1, <2>1
  <2>3. Decimal(n) = Padded(n, 1)
    BY <2>1, <2>2
  <2> QED BY <2>3, PaddedSequence
<1>3. ASSUME NEW n \in 10 .. 99 PROVE Len(Decimal(n)) = 2
  <2>1. PICK w \in 1 .. 8 : /\ Decimal(n) = Padded(n, w)
                            /\ w = 8 \/ n < 10 * Weight[w]
                            /\ w = 1 \/ n >= Weight[w]
    BY DecimalWidth DEF MaxNumberLength
  <2>2. w = 2
    BY <1>1, <2>1
  <2>3. Decimal(n) = Padded(n, 2)
    BY <2>1, <2>2
  <2> QED BY <2>3, PaddedSequence
<1> QED BY <1>2, <1>3

\* The header with these codes for BodyLength and MsgType.
HeaderOf(digits, code) ==
    FieldBytes(F(8, BeginString)) \o FieldBytes(F(9, digits)) \o FieldBytes(F(35, code))
    \o FieldBytes(F(49, Sender)) \o FieldBytes(F(56, Target))

LEMMA FieldLength ==
    ASSUME NEW tag \in Nat, NEW value \in Seq(Byte)
    PROVE  /\ F(tag, value) \in WireField
           /\ F(tag, value).tag = tag /\ F(tag, value).value = value
           /\ FieldBytes(F(tag, value)) \in Seq(Byte)
           /\ Len(FieldBytes(F(tag, value))) = Len(Decimal(tag)) + Len(value) + 2
           /\ Len(Decimal(tag)) \in Nat /\ Len(value) \in Nat
<1>1. F(tag, value) \in WireField /\ F(tag, value).tag = tag /\ F(tag, value).value = value
  BY DEF F, WireField
<1> QED BY <1>1, FieldHeld, FieldBytesType

\* Where the fields of the header lie.
LEMMA HeaderHeld ==
    ASSUME NEW digits \in Seq(Byte), NEW code \in Seq(Byte), NEW buffer, NEW at \in Nat
    PROVE  LET n == Len(BeginString)
               x == Len(digits)
               y == Len(code)
               p == at + n + x + y + 10
               q == Len(FieldBytes(F(49, Sender)))
           IN  /\ n \in Nat /\ q \in Nat /\ Len(FieldBytes(F(56, Target))) \in Nat
               /\ HeaderOf(digits, code) \in Seq(Byte)
               /\ Len(HeaderOf(digits, code)) = n + x + y + 10 + q + Len(FieldBytes(F(56, Target)))
               /\ Holds(buffer, at, HeaderOf(digits, code)) <=>
                      /\ Holds(buffer, at, FieldBytes(F(8, BeginString)))
                      /\ Holds(buffer, at + n + 3, FieldBytes(F(9, digits)))
                      /\ Holds(buffer, at + n + x + 6, FieldBytes(F(35, code)))
                      /\ Holds(buffer, p, FieldBytes(F(49, Sender)))
                      /\ Holds(buffer, p + q, FieldBytes(F(56, Target)))
<1> DEFINE n == Len(BeginString)
           x == Len(digits)
           y == Len(code)
           p == at + n + x + y + 10
           a == FieldBytes(F(8, BeginString))
           b == FieldBytes(F(9, digits))
           c == FieldBytes(F(35, code))
           d == FieldBytes(F(49, Sender))
           e == FieldBytes(F(56, Target))
<1>1. BeginString \in Seq(Byte) /\ Sender \in Seq(Byte) /\ Target \in Seq(Byte)
  BY EncoderAssumption
<1>2. a \in Seq(Byte) /\ b \in Seq(Byte) /\ c \in Seq(Byte) /\ d \in Seq(Byte) /\ e \in Seq(Byte)
  <2>1. a \in Seq(Byte) /\ b \in Seq(Byte) /\ c \in Seq(Byte)
    BY <1>1, FieldLength, ZenonT(40)
  <2>2. d \in Seq(Byte) /\ e \in Seq(Byte)
    BY <1>1, FieldLength, ZenonT(40)
  <2> QED BY <2>1, <2>2
<1>3. /\ Len(a) = n + 3 /\ Len(b) = x + 3 /\ Len(c) = y + 4
      /\ n \in Nat /\ x \in Nat /\ y \in Nat /\ Len(d) \in Nat /\ Len(e) \in Nat
  <2> DEFINE k == Len(Decimal(8))
             l == Len(Decimal(9))
             m == Len(Decimal(35))
  <2>1. n \in Nat /\ Len(a) = k + n + 2
    BY <1>1, FieldLength
  <2>2. x \in Nat /\ Len(b) = l + x + 2
    BY FieldLength, ZenonT(40)
  <2>3. y \in Nat /\ Len(c) = m + y + 2
    BY FieldLength, ZenonT(40)
  <2>4. Len(d) \in Nat /\ Len(e) \in Nat
    BY <1>2
  <2>5. k = 1 /\ l = 1 /\ m = 2
    BY TagWidths
  <2> HIDE DEF a, b, c, d, e, n, x, y, k, l, m
  <2> QED BY <2>1, <2>2, <2>3, <2>4, <2>5
<1>4. HeaderOf(digits, code) = (((a \o b) \o c) \o d) \o e
  BY DEF HeaderOf
<1> HIDE DEF a, b, c, d, e, n, x, y
<1>5. a \o b \in Seq(Byte) /\ Len(a \o b) = n + x + 6
  <2>1. a \o b \in Seq(Byte) /\ Len(a \o b) = Len(a) + Len(b)
    BY <1>2, BytesJoined
  <2> QED BY <1>3, <2>1
<1>6. (a \o b) \o c \in Seq(Byte) /\ Len((a \o b) \o c) = n + x + y + 10
  <2>1. (a \o b) \o c \in Seq(Byte) /\ Len((a \o b) \o c) = Len(a \o b) + Len(c)
    BY <1>2, <1>5, BytesJoined
  <2> QED BY <1>3, <1>5, <2>1
<1>7. ((a \o b) \o c) \o d \in Seq(Byte) /\ Len(((a \o b) \o c) \o d) = n + x + y + 10 + Len(d)
  <2>1. ((a \o b) \o c) \o d \in Seq(Byte) /\ Len(((a \o b) \o c) \o d) = Len((a \o b) \o c) + Len(d)
    BY <1>2, <1>6, BytesJoined
  <2> QED BY <1>3, <1>6, <2>1
<1>8. /\ (((a \o b) \o c) \o d) \o e \in Seq(Byte)
      /\ Len((((a \o b) \o c) \o d) \o e) = n + x + y + 10 + Len(d) + Len(e)
  <2>1. /\ (((a \o b) \o c) \o d) \o e \in Seq(Byte)
        /\ Len((((a \o b) \o c) \o d) \o e) = Len(((a \o b) \o c) \o d) + Len(e)
    BY <1>2, <1>7, BytesJoined
  <2> QED BY <1>3, <1>7, <2>1
<1>9. Holds(buffer, at, a \o b) <=> Holds(buffer, at, a) /\ Holds(buffer, at + n + 3, b)
  <2>1. at + Len(a) = at + n + 3
    BY <1>3
  <2> QED BY <1>2, <2>1, HoldsJoined
<1>10. Holds(buffer, at, (a \o b) \o c) <=> Holds(buffer, at, a \o b) /\ Holds(buffer, at + n + x + 6, c)
  <2>1. at + Len(a \o b) = at + n + x + 6
    BY <1>3, <1>5
  <2> QED BY <1>2, <1>5, <2>1, HoldsJoined
<1>11. Holds(buffer, at, ((a \o b) \o c) \o d) <=> Holds(buffer, at, (a \o b) \o c) /\ Holds(buffer, p, d)
  <2>1. at + Len((a \o b) \o c) = p
    BY <1>3, <1>6
  <2> QED BY <1>2, <1>6, <2>1, HoldsJoined
<1>12. Holds(buffer, at, (((a \o b) \o c) \o d) \o e)
          <=> Holds(buffer, at, ((a \o b) \o c) \o d) /\ Holds(buffer, p + Len(d), e)
  <2>1. at + Len(((a \o b) \o c) \o d) = p + Len(d)
    BY <1>3, <1>7
  <2> DEFINE abcd == ((a \o b) \o c) \o d
  <2>2. abcd \in Seq(Byte) /\ at + Len(abcd) = p + Len(d)
    BY <1>7, <2>1
  <2> HIDE DEF abcd, p
  <2>3. Holds(buffer, at, abcd \o e) <=> Holds(buffer, at, abcd) /\ Holds(buffer, at + Len(abcd), e)
    BY <1>2, <2>2, HoldsJoined
  <2> QED BY <2>2, <2>3 DEF abcd
<1>13. /\ n \in Nat /\ x \in Nat /\ y \in Nat /\ Len(d) \in Nat /\ Len(e) \in Nat
       /\ HeaderOf(digits, code) \in Seq(Byte)
       /\ Len(HeaderOf(digits, code)) = n + x + y + 10 + Len(d) + Len(e)
  BY <1>3, <1>4, <1>8
<1>14. Holds(buffer, at, HeaderOf(digits, code)) <=>
           /\ Holds(buffer, at, a) /\ Holds(buffer, at + n + 3, b) /\ Holds(buffer, at + n + x + 6, c)
           /\ Holds(buffer, p, d) /\ Holds(buffer, p + Len(d), e)
  BY <1>4, <1>9, <1>10, <1>11, <1>12
<1> QED BY <1>13, <1>14 DEF a, b, c, d, e, n, x, y

\* The constructor's header, and where its codes lie.
LEMMA HeaderSizes ==
    /\ Prefix = HeaderOf(Zeros(4), <<Unknown>>)
    /\ Zeros(4) \in Seq(Byte) /\ Len(Zeros(4)) = 4 /\ <<Unknown>> \in Seq(Byte) /\ Len(<<Unknown>>) = 1
    /\ Len(BeginString) \in Nat
    /\ headerLength = Len(BeginString) + 15 + Len(FieldBytes(F(49, Sender))) + Len(FieldBytes(F(56, Target)))
    /\ bodyLengthOffset = Len(BeginString) + 5
    /\ messageTypeOffset = Len(BeginString) + 13
    /\ headerBodyLength = 5 + Len(FieldBytes(F(49, Sender))) + Len(FieldBytes(F(56, Target)))
<1>1. Prefix = HeaderOf(Zeros(4), <<Unknown>>)
  BY DEF Prefix, BeginStringField, BeginStringTag, BodyLengthTag, MessageTypeTag, BodyLengthDigits, HeaderOf
<1>2. Zeros(4) \in Seq(Byte) /\ Len(Zeros(4)) = 4 /\ <<Unknown>> \in Seq(Byte) /\ Len(<<Unknown>>) = 1
  <2>1. Zeros(4) \in [1 .. 4 -> Byte]
    BY DEF Zeros, Zero, Byte
  <2> QED BY <2>1 DEF Zeros, Unknown, Byte
<1>3. /\ Len(BeginString) \in Nat /\ Len(FieldBytes(F(49, Sender))) \in Nat /\ Len(FieldBytes(F(56, Target))) \in Nat
      /\ Len(HeaderOf(Zeros(4), <<Unknown>>))
            = Len(BeginString) + 15 + Len(FieldBytes(F(49, Sender))) + Len(FieldBytes(F(56, Target)))
  <2> DEFINE z == Zeros(4)
             u == <<Unknown>>
             k == Len(z)
             l == Len(u)
  <2>1. z \in Seq(Byte) /\ u \in Seq(Byte) /\ k = 4 /\ l = 1
    BY <1>2
  <2> HIDE DEF z, u
  <2>2. /\ Len(BeginString) \in Nat /\ Len(FieldBytes(F(49, Sender))) \in Nat /\ Len(FieldBytes(F(56, Target))) \in Nat
        /\ Len(HeaderOf(z, u))
              = Len(BeginString) + k + l + 10 + Len(FieldBytes(F(49, Sender))) + Len(FieldBytes(F(56, Target)))
    BY <2>1, HeaderHeld, ZenonT(40)
  <2> HIDE DEF k, l
  <2> QED BY <2>1, <2>2 DEF z, u
<1> DEFINE n == Len(BeginString)
           d == Len(FieldBytes(F(49, Sender)))
           e == Len(FieldBytes(F(56, Target)))
<1>4. headerLength = n + 15 + d + e
  BY <1>1, <1>3 DEF headerLength
<1>5. bodyLengthOffset = n + 5 /\ messageTypeOffset = (n + 5) + 4 + 4
  BY DEF bodyLengthOffset, messageTypeOffset, BodyLengthDigits
<1>6. headerBodyLength = headerLength - (messageTypeOffset - 3)
  BY DEF headerBodyLength
<1>7. n \in Nat /\ d \in Nat /\ e \in Nat
  BY <1>3
<1> HIDE DEF n, d, e
<1>8. messageTypeOffset = n + 13 /\ headerBodyLength = 5 + d + e
  BY <1>4, <1>5, <1>6, <1>7
<1> QED BY <1>1, <1>2, <1>4, <1>5, <1>7, <1>8 DEF n, d, e

\* Writing MsgType and BodyLength leaves a header with them, and the rest as it was.
LEMMA CodesWritten ==
    ASSUME NEW buffer \in Buffer, NEW at \in Nat, at + headerLength <= Size,
           Holds(buffer, at, Prefix), NEW t \in Byte,
           NEW digits \in Seq(Byte), Len(digits) = Len(Zeros(4))
    PROVE  LET typed  == Write(buffer, at + messageTypeOffset, <<t>>)
               headed == Write(typed, at + bodyLengthOffset, digits)
           IN  /\ headed \in Buffer
               /\ Holds(headed, at, HeaderOf(digits, <<t>>))
               /\ \A p \in Nat, s \in Seq(Byte) :
                      /\ Holds(buffer, p, s) /\ p + Len(s) <= Size
                      /\ p >= at + headerLength \/ p + Len(s) <= at
                      => Holds(headed, p, s)
<1> DEFINE n == Len(BeginString)
           z == Zeros(4)
           u == <<Unknown>>
           c == <<t>>
           q == Len(FieldBytes(F(49, Sender)))
           r == Len(FieldBytes(F(56, Target)))
           x == Len(digits)
           typed  == Write(buffer, at + messageTypeOffset, c)
           headed == Write(typed, at + bodyLengthOffset, digits)
<1>1. /\ z \in Seq(Byte) /\ u \in Seq(Byte) /\ c \in Seq(Byte)
      /\ x = 4 /\ Len(z) = x /\ Len(u) = 1 /\ Len(c) = 1 /\ Len(digits) = x
      /\ n \in Nat /\ q \in Nat /\ r \in Nat /\ Size \in Nat
      /\ headerLength = n + 15 + q + r
      /\ at + bodyLengthOffset = (at + n + 3) + 2
      /\ at + messageTypeOffset = (at + n + 10) + 3
  <2>1. z \in Seq(Byte) /\ u \in Seq(Byte) /\ c \in Seq(Byte) /\ Len(z) = 4 /\ Len(u) = 1 /\ Len(c) = 1
    BY HeaderSizes
  <2>2. x = 4 /\ Len(z) = x /\ Len(digits) = x
    BY <2>1
  <2>3. /\ n \in Nat /\ headerLength = n + 15 + q + r
        /\ bodyLengthOffset = n + 5 /\ messageTypeOffset = n + 13
    BY HeaderSizes
  <2>4. q \in Nat /\ r \in Nat
    BY <2>1, HeaderHeld
  <2>5. Size \in Nat
    BY EncoderAssumption
  <2> HIDE DEF n, z, u, c, q, r, x
  <2>6. /\ at + bodyLengthOffset = (at + n + 3) + 2
        /\ at + messageTypeOffset = (at + n + 10) + 3
    BY <2>3
  <2> QED BY <2>1, <2>2, <2>3, <2>4, <2>5, <2>6
<1>2. /\ BeginString \in Seq(Byte) /\ Sender \in Seq(Byte) /\ Target \in Seq(Byte)
  BY EncoderAssumption
<1> DEFINE fa == FieldBytes(F(8, BeginString))
           fb(v) == FieldBytes(F(9, v))
           fc(v) == FieldBytes(F(35, v))
           fd == FieldBytes(F(49, Sender))
           fe == FieldBytes(F(56, Target))
<1>3. /\ fa \in Seq(Byte) /\ fd \in Seq(Byte) /\ fe \in Seq(Byte)
      /\ Len(fa) = n + 3 /\ Len(fd) = q /\ Len(fe) = r
  <2> DEFINE k == Len(Decimal(8))
  <2>1. fa \in Seq(Byte) /\ Len(fa) = k + n + 2
    BY <1>2, FieldLength
  <2>2. fd \in Seq(Byte) /\ fe \in Seq(Byte)
    BY <1>2, FieldLength, ZenonT(40)
  <2>3. k = 1
    BY TagWidths
  <2> HIDE DEF k, n, fa
  <2>4. Len(fa) = n + 3
    BY <1>1, <2>1, <2>3
  <2> QED BY <2>1, <2>2, <2>4
<1>4. ASSUME NEW v \in Seq(Byte)
      PROVE  /\ fb(v) \in Seq(Byte) /\ fc(v) \in Seq(Byte)
             /\ Len(fb(v)) = Len(v) + 3 /\ Len(fc(v)) = Len(v) + 4
  <2> DEFINE k == Len(Decimal(9))
             l == Len(Decimal(35))
             y == Len(v)
  <2>1. fb(v) \in Seq(Byte) /\ Len(fb(v)) = k + y + 2 /\ y \in Nat
    BY FieldLength
  <2>2. fc(v) \in Seq(Byte) /\ Len(fc(v)) = l + y + 2
    BY FieldLength
  <2>3. k = 1 /\ l = 2
    BY TagWidths
  <2> HIDE DEF k, l, y, fb, fc
  <2>4. Len(fb(v)) = y + 3 /\ Len(fc(v)) = y + 4
    BY <2>1, <2>2, <2>3
  <2> QED BY <2>1, <2>2, <2>4 DEF y
<1>5. ASSUME NEW b, NEW v \in Seq(Byte), NEW w \in Seq(Byte), Len(v) = x, Len(w) = Len(u)
      PROVE  Holds(b, at, HeaderOf(v, w)) <=>
                 /\ Holds(b, at, fa) /\ Holds(b, at + n + 3, fb(v)) /\ Holds(b, at + n + 10, fc(w))
                 /\ Holds(b, at + n + 15, fd) /\ Holds(b, at + n + 15 + q, fe)
  <2> DEFINE i == Len(v)
             j == Len(w)
  <2>1. i = 4 /\ j = 1
    BY <1>1, <1>5
  <2>2. Holds(b, at, HeaderOf(v, w)) <=>
            /\ Holds(b, at, fa) /\ Holds(b, at + n + 3, fb(v)) /\ Holds(b, at + n + i + 6, fc(w))
            /\ Holds(b, at + n + i + j + 10, fd) /\ Holds(b, at + n + i + j + 10 + q, fe)
    BY HeaderHeld
  <2>3. at + n + i + 6 = at + n + 10 /\ at + n + i + j + 10 = at + n + 15
    <3> HIDE DEF i, j, n
    <3> QED BY <1>1, <2>1
  <2> HIDE DEF i, j, n, fa, fb, fc, fd, fe
  <2> QED BY <2>2, <2>3
<1>6. /\ Holds(buffer, at, fa) /\ Holds(buffer, at + n + 3, fb(z)) /\ Holds(buffer, at + n + 10, fc(u))
      /\ Holds(buffer, at + n + 15, fd) /\ Holds(buffer, at + n + 15 + q, fe)
  <2>1. Prefix = HeaderOf(z, u)
    BY HeaderSizes
  <2> HIDE DEF z, u, fa, fb, fc, fd, fe, n, q
  <2> QED BY <1>1, <1>5, <2>1
<1>7. typed \in Buffer /\ Holds(typed, at + n + 10, fc(c))
  <2> DEFINE l == Len(Decimal(35))
  <2>1. l = 2
    BY TagWidths
  <2>2. at + n + 10 \in Nat /\ at + n + 10 + Len(fc(u)) <= Size
    <3>1. Len(fc(u)) = Len(u) + 4
      BY <1>1, <1>4
    <3> HIDE DEF n, fc, u, q, r
    <3> QED BY <1>1, <3>1
  <2>3. at + messageTypeOffset = (at + n + 10) + l + 1
    <3> HIDE DEF n, l
    <3> QED BY <1>1, <2>1
  <2> DEFINE g == at + n + 10
             b == Write(buffer, g + Len(Decimal(35)) + 1, c)
  <2>4. b \in Buffer /\ Holds(b, g, FieldBytes(F(35, c)))
    <3>1. g \in Nat /\ Len(u) = Len(c) /\ g + Len(FieldBytes(F(35, u))) <= Size
          /\ Holds(buffer, g, FieldBytes(F(35, u)))
      BY <1>1, <1>6, <2>2
    <3> HIDE DEF g, u, c
    <3> QED BY <1>1, <3>1, ReplaceValue
  <2> QED BY <2>3, <2>4
<1>8. ASSUME NEW p \in Nat, NEW s \in Seq(Byte), Holds(buffer, p, s), p + Len(s) <= Size,
             p + Len(s) <= at + n + 13 \/ at + n + 14 <= p
      PROVE  Holds(typed, p, s)
  <2> DEFINE g == at + messageTypeOffset
             m == Len(s)
  <2>1. g >= p + Len(s) \/ g + Len(c) <= p
    <3>1. m \in Nat /\ (p + m <= at + n + 13 \/ at + n + 14 <= p)
      BY <1>8
    <3> HIDE DEF n, m, c
    <3>2. g >= p + m \/ g + Len(c) <= p
      BY <1>1, <3>1
    <3> QED BY <3>2 DEF m
  <2>2. g \in Nat
    <3> HIDE DEF n
    <3> QED BY <1>1
  <2> HIDE DEF g, c
  <2> QED BY <1>1, <1>8, <2>1, <2>2, WriteKeeps DEF g
<1> HIDE DEF typed
<1>9. headed \in Buffer /\ Holds(headed, at + n + 3, fb(digits))
  <2> DEFINE l == Len(Decimal(9))
             g == at + n + 3
  <2>1. l = 1
    BY TagWidths
  <2>2. g \in Nat /\ g + Len(fb(z)) <= Size /\ g + Len(fb(z)) = at + n + 10
    <3>1. Len(fb(z)) = Len(z) + 3
      BY <1>1, <1>4
    <3> HIDE DEF n, fb, z, q, r, x
    <3> QED BY <1>1, <3>1
  <2>3. at + bodyLengthOffset = g + l + 1
    <3> HIDE DEF n, l
    <3> QED BY <1>1, <2>1
  <2>4. Holds(typed, g, fb(z))
    <3>1. fb(z) \in Seq(Byte)
      BY <1>1, <1>4
    <3>2. g + Len(fb(z)) <= at + n + 13
      <4> HIDE DEF n, g, fb, z
      <4> QED BY <1>1, <2>2
    <3> HIDE DEF g, fb, z, n
    <3> QED BY <1>6, <1>8, <2>2, <3>1, <3>2 DEF g
  <2> DEFINE b == Write(typed, g + Len(Decimal(9)) + 1, digits)
  <2>5. b \in Buffer /\ Holds(b, g, FieldBytes(F(9, digits)))
    <3>1. g \in Nat /\ Len(z) = Len(digits) /\ g + Len(FieldBytes(F(9, z))) <= Size
          /\ Holds(typed, g, FieldBytes(F(9, z)))
      BY <1>1, <2>2, <2>4
    <3> HIDE DEF g, z
    <3> QED BY <1>1, <1>7, <3>1, ReplaceValue
  <2> QED BY <2>3, <2>5
<1>10. ASSUME NEW p \in Nat, NEW s \in Seq(Byte), Holds(typed, p, s), p + Len(s) <= Size,
              p + Len(s) <= at + n + 5 \/ at + n + 9 <= p
       PROVE  Holds(headed, p, s)
  <2> DEFINE g == at + bodyLengthOffset
             m == Len(s)
  <2>1. g \in Nat /\ (g >= p + Len(s) \/ g + Len(digits) <= p)
    <3>1. m \in Nat /\ (p + m <= at + n + 5 \/ at + n + 9 <= p)
      BY <1>10
    <3> HIDE DEF n, m, x
    <3>2. g >= p + m \/ g + x <= p
      BY <1>1, <3>1
    <3>3. g \in Nat
      BY <1>1
    <3> QED BY <1>1, <3>2, <3>3 DEF m
  <2> HIDE DEF g
  <2> QED BY <1>7, <1>10, <2>1, WriteKeeps DEF g
<1> HIDE DEF headed
<1>11. ASSUME NEW p \in Nat, NEW s \in Seq(Byte), Holds(buffer, p, s), p + Len(s) <= Size,
              p + Len(s) <= at + n + 5 \/ at + n + 14 <= p
       PROVE  Holds(headed, p, s)
  <2> DEFINE m == Len(s)
  <2>1. /\ p + Len(s) <= at + n + 13 \/ at + n + 14 <= p
        /\ p + Len(s) <= at + n + 5 \/ at + n + 9 <= p
    <3>1. m \in Nat /\ (p + m <= at + n + 5 \/ at + n + 14 <= p)
      BY <1>11
    <3> HIDE DEF n, m
    <3>2. /\ p + m <= at + n + 13 \/ at + n + 14 <= p
          /\ p + m <= at + n + 5 \/ at + n + 9 <= p
      BY <1>1, <3>1
    <3> QED BY <3>2 DEF m
  <2>2. Holds(typed, p, s)
    BY <1>8, <1>11, <2>1
  <2> QED BY <1>10, <1>11, <2>1, <2>2
<1>12. Holds(headed, at, fa)
  <2>1. at + Len(fa) <= at + n + 5 /\ at + Len(fa) <= Size
    <3> HIDE DEF n, fa, q, r
    <3> QED BY <1>1, <1>3
  <2> HIDE DEF n, fa
  <2> QED BY <1>3, <1>6, <1>11, <2>1
<1>13. Holds(headed, at + n + 15, fd) /\ Holds(headed, at + n + 15 + q, fe)
  <2> DEFINE g == at + n + 15
             h == at + n + 15 + q
  <2>1. /\ g \in Nat /\ h \in Nat /\ g + Len(fd) <= Size /\ h + Len(fe) <= Size
        /\ at + n + 14 <= g /\ at + n + 14 <= h
    <3> HIDE DEF n, fd, fe, q, r
    <3> QED BY <1>1, <1>3
  <2>2. Holds(buffer, g, fd) /\ Holds(buffer, h, fe)
    BY <1>6
  <2> HIDE DEF n, g, h, fd, fe
  <2>3. Holds(headed, g, fd)
    BY <1>3, <1>11, <2>1, <2>2
  <2>4. Holds(headed, h, fe)
    BY <1>3, <1>11, <2>1, <2>2
  <2> QED BY <2>3, <2>4 DEF g, h
<1>14. Holds(headed, at + n + 10, fc(c))
  <2> DEFINE g == at + n + 10
  <2>1. g \in Nat /\ g + Len(fc(c)) <= Size /\ at + n + 9 <= g /\ fc(c) \in Seq(Byte)
    <3>1. Len(fc(c)) = Len(c) + 4 /\ fc(c) \in Seq(Byte)
      BY <1>1, <1>4
    <3> HIDE DEF n, fc, c, q, r
    <3> QED BY <1>1, <3>1
  <2>2. Holds(typed, g, fc(c))
    BY <1>7
  <2> HIDE DEF n, g, fc, c
  <2>3. Holds(headed, g, fc(c))
    BY <1>10, <2>1, <2>2
  <2> QED BY <2>3 DEF g
<1>15. Holds(headed, at, HeaderOf(digits, c))
  <2>1. Len(digits) = x /\ Len(c) = Len(u)
    BY <1>1
  <2> HIDE DEF n, fa, fb, fc, fd, fe, c, u, x, q
  <2> QED BY <1>1, <1>5, <1>9, <1>12, <1>13, <1>14, <2>1
<1>16. ASSUME NEW p \in Nat, NEW s \in Seq(Byte), Holds(buffer, p, s), p + Len(s) <= Size,
              p >= at + headerLength \/ p + Len(s) <= at
       PROVE  Holds(headed, p, s)
  <2> DEFINE m == Len(s)
  <2>1. p + Len(s) <= at + n + 5 \/ at + n + 14 <= p
    <3>1. m \in Nat /\ (p >= at + headerLength \/ p + m <= at)
      BY <1>16
    <3> HIDE DEF n, m, q, r
    <3>2. p + m <= at + n + 5 \/ at + n + 14 <= p
      BY <1>1, <3>1
    <3> QED BY <3>2 DEF m
  <2> QED BY <1>11, <1>16, <2>1
<1> QED BY <1>9, <1>15, <1>16 DEF typed, headed

-----------------------------------------------------------------------------
(***************************************************************************)
(* The bytes of a message with given fields.                               *)
(***************************************************************************)
\* What tuples are put together.
LEMMA AppendMakes ==
    ASSUME NEW S, NEW s \in Seq(S), NEW e \in S, NEW t \in Seq(S),
           Len(t) = Len(s) + 1, t[Len(s) + 1] = e, \A i \in 1 .. Len(s) : t[i] = s[i]
    PROVE  Append(s, e) = t
<1>1. /\ Append(s, e) \in Seq(S)
      /\ Len(Append(s, e)) = Len(s) + 1
      /\ \A i \in 1 .. Len(s) : Append(s, e)[i] = s[i]
      /\ Append(s, e)[Len(s) + 1] = e
  BY AppendProperties
<1>2. \A i \in 1 .. Len(s) + 1 : Append(s, e)[i] = t[i]
  <2>1. \A i \in 1 .. Len(s) + 1 : i \in 1 .. Len(s) \/ i = Len(s) + 1
    OBVIOUS
  <2> QED BY <1>1, <2>1
<1> QED BY <1>1, <1>2, SeqEqual

LEMMA TwoAppended ==
    ASSUME NEW S, NEW f \in S, NEW g \in S
    PROVE  Append(<<f>>, g) = <<f, g>>
<1> DEFINE s == <<f>>
           t == <<f, g>>
<1>1. /\ s \in Seq(S) /\ t \in Seq(S) /\ Len(t) = Len(s) + 1 /\ t[Len(s) + 1] = g
      /\ \A k \in 1 .. Len(s) : t[k] = s[k]
  OBVIOUS
<1> HIDE DEF s, t
<1>2. Append(s, g) = t
  BY <1>1, AppendMakes
<1> QED BY <1>2 DEF s, t

LEMMA ThreeAppended ==
    ASSUME NEW S, NEW f \in S, NEW g \in S, NEW h \in S
    PROVE  Append(<<f, g>>, h) = <<f, g, h>>
<1> DEFINE s == <<f, g>>
           t == <<f, g, h>>
<1>1. /\ s \in Seq(S) /\ t \in Seq(S) /\ Len(t) = Len(s) + 1 /\ t[Len(s) + 1] = h
      /\ \A k \in 1 .. Len(s) : t[k] = s[k]
  OBVIOUS
<1> HIDE DEF s, t
<1>2. Append(s, h) = t
  BY <1>1, AppendMakes
<1> QED BY <1>2 DEF s, t

LEMMA FourAppended ==
    ASSUME NEW S, NEW e \in S, NEW f \in S, NEW g \in S, NEW h \in S
    PROVE  Append(<<e, f, g>>, h) = <<e, f, g, h>>
<1> DEFINE s == <<e, f, g>>
           t == <<e, f, g, h>>
<1>1. /\ s \in Seq(S) /\ t \in Seq(S) /\ Len(t) = Len(s) + 1 /\ t[Len(s) + 1] = h
      /\ \A k \in 1 .. Len(s) : t[k] = s[k]
  OBVIOUS
<1> HIDE DEF s, t
<1>2. Append(s, h) = t
  BY <1>1, AppendMakes
<1> QED BY <1>2 DEF s, t

LEMMA FiveAppended ==
    ASSUME NEW S, NEW e \in S, NEW f \in S, NEW g \in S, NEW h \in S, NEW i \in S
    PROVE  Append(<<e, f, g, h>>, i) = <<e, f, g, h, i>>
<1> DEFINE s == <<e, f, g, h>>
           t == <<e, f, g, h, i>>
<1>1. /\ s \in Seq(S) /\ t \in Seq(S) /\ Len(t) = Len(s) + 1 /\ t[Len(s) + 1] = i
      /\ \A k \in 1 .. Len(s) : t[k] = s[k]
  OBVIOUS
<1> HIDE DEF s, t
<1>2. Append(s, i) = t
  BY <1>1, AppendMakes
<1> QED BY <1>2 DEF s, t

LEMMA TwoAndThree ==
    ASSUME NEW S, NEW e \in S, NEW f \in S, NEW g \in S, NEW h \in S, NEW i \in S
    PROVE  <<e, f>> \o <<g, h, i>> = <<e, f, g, h, i>>
<1> DEFINE s == <<e, f>>
           t == <<g, h, i>>
           u == <<e, f, g, h, i>>
<1>1. s \in Seq(S) /\ t \in Seq(S) /\ u \in Seq(S) /\ Len(u) = Len(s) + Len(t)
  OBVIOUS
<1>2. \A k \in 1 .. Len(u) : u[k] = IF k <= Len(s) THEN s[k] ELSE t[k - Len(s)]
  <2>1. Len(u) = 5 /\ Len(s) = 2
    OBVIOUS
  <2>2. \A k \in 1 .. 5 : k = 1 \/ k = 2 \/ k = 3 \/ k = 4 \/ k = 5
    OBVIOUS
  <2>3. u[1] = s[1] /\ u[2] = s[2] /\ u[3] = t[1] /\ u[4] = t[2] /\ u[5] = t[3]
    OBVIOUS
  <2> HIDE DEF s, t, u
  <2> QED BY <2>1, <2>2, <2>3
<1> HIDE DEF s, t, u
<1>3. /\ s \o t \in Seq(S) /\ Len(s \o t) = Len(s) + Len(t)
      /\ \A k \in 1 .. Len(s) + Len(t) : (s \o t)[k] = IF k <= Len(s) THEN s[k] ELSE t[k - Len(s)]
  BY <1>1, ConcatProperties
<1>4. s \o t = u
  <2>1. \A k \in 1 .. Len(s) + Len(t) : (s \o t)[k] = u[k]
    BY <1>1, <1>2, <1>3
  <2> QED BY <1>1, <1>3, <2>1, SeqEqual
<1> QED BY <1>4 DEF s, t, u

LEMMA BytesAreIntegers == ASSUME NEW s \in Seq(Byte) PROVE s \in Seq(Int)
<1>1. \A i \in 1 .. Len(s) : s[i] \in Byte
  BY ElementOfSeq
<1>2. \A b \in Byte : b \in Int
  BY DEF Byte
<1>3. \A i \in 1 .. Len(s) : s[i] \in Int
  BY <1>1, <1>2
<1> QED BY <1>3

LEMMA FieldsBytesLast ==
    ASSUME NEW fs \in Seq(WireField), NEW f \in WireField
    PROVE  /\ FieldsBytes(Append(fs, f)) = FieldsBytes(fs) \o FieldBytes(f)
           /\ Append(fs, f) \in Seq(WireField)
<1>1. <<f>> \in Seq(WireField) /\ Append(fs, f) = fs \o <<f>> /\ Append(fs, f) \in Seq(WireField)
  BY AppendIsConcat, AppendProperties
<1>2. FieldsBytes(fs \o <<f>>) = FieldsBytes(fs) \o FieldsBytes(<<f>>)
  BY <1>1, FieldsBytesJoin
<1> QED BY <1>1, <1>2, FieldsBytesOne

LEMMA FieldsBytesTwo ==
    ASSUME NEW f \in WireField, NEW g \in WireField
    PROVE  /\ FieldsBytes(<<f, g>>) = FieldBytes(f) \o FieldBytes(g)
           /\ <<f, g>> \in Seq(WireField)
<1>1. <<f>> \in Seq(WireField) /\ Append(<<f>>, g) = <<f, g>>
  BY TwoAppended
<1>2. /\ FieldsBytes(Append(<<f>>, g)) = FieldsBytes(<<f>>) \o FieldBytes(g)
      /\ Append(<<f>>, g) \in Seq(WireField)
  BY <1>1, FieldsBytesLast
<1> QED BY <1>1, <1>2, FieldsBytesOne

LEMMA FieldsBytesThree ==
    ASSUME NEW f \in WireField, NEW g \in WireField, NEW h \in WireField
    PROVE  /\ FieldsBytes(<<f, g, h>>) = (FieldBytes(f) \o FieldBytes(g)) \o FieldBytes(h)
           /\ <<f, g, h>> \in Seq(WireField)
<1>1. <<f, g>> \in Seq(WireField) /\ FieldsBytes(<<f, g>>) = FieldBytes(f) \o FieldBytes(g)
  BY FieldsBytesTwo
<1>2. Append(<<f, g>>, h) = <<f, g, h>>
  BY ThreeAppended
<1>3. /\ FieldsBytes(Append(<<f, g>>, h)) = FieldsBytes(<<f, g>>) \o FieldBytes(h)
      /\ Append(<<f, g>>, h) \in Seq(WireField)
  BY <1>1, FieldsBytesLast
<1> QED BY <1>1, <1>2, <1>3

LEMMA FieldsBytesFive ==
    ASSUME NEW e \in WireField, NEW f \in WireField, NEW g \in WireField,
           NEW h \in WireField, NEW i \in WireField
    PROVE  /\ FieldsBytes(<<e, f, g, h, i>>)
                = FieldBytes(e) \o FieldBytes(f) \o FieldBytes(g) \o FieldBytes(h) \o FieldBytes(i)
           /\ <<e, f, g, h, i>> \in Seq(WireField)
<1>1. /\ <<e, f, g>> \in Seq(WireField)
      /\ FieldsBytes(<<e, f, g>>) = (FieldBytes(e) \o FieldBytes(f)) \o FieldBytes(g)
  BY FieldsBytesThree
<1>2. /\ <<e, f, g, h>> \in Seq(WireField)
      /\ FieldsBytes(<<e, f, g, h>>) = FieldsBytes(<<e, f, g>>) \o FieldBytes(h)
  <2>1. Append(<<e, f, g>>, h) = <<e, f, g, h>>
    BY FourAppended
  <2> DEFINE x == <<e, f, g>>
  <2>2. x \in Seq(WireField)
    BY <1>1
  <2> HIDE DEF x
  <2>3. /\ FieldsBytes(Append(x, h)) = FieldsBytes(x) \o FieldBytes(h)
        /\ Append(x, h) \in Seq(WireField)
    BY <2>2, FieldsBytesLast
  <2> QED BY <2>1, <2>3 DEF x
<1>3. /\ <<e, f, g, h, i>> \in Seq(WireField)
      /\ FieldsBytes(<<e, f, g, h, i>>) = FieldsBytes(<<e, f, g, h>>) \o FieldBytes(i)
  <2>1. Append(<<e, f, g, h>>, i) = <<e, f, g, h, i>>
    BY FiveAppended
  <2> DEFINE x == <<e, f, g, h>>
  <2>2. x \in Seq(WireField)
    BY <1>2
  <2> HIDE DEF x
  <2>3. /\ FieldsBytes(Append(x, i)) = FieldsBytes(x) \o FieldBytes(i)
        /\ Append(x, i) \in Seq(WireField)
    BY <2>2, FieldsBytesLast
  <2> QED BY <2>1, <2>3 DEF x
<1>4. FieldsBytes(<<e, f, g, h, i>>)
          = (((FieldBytes(e) \o FieldBytes(f)) \o FieldBytes(g)) \o FieldBytes(h)) \o FieldBytes(i)
  BY <1>1, <1>2, <1>3
<1> QED BY <1>3, <1>4

\* The digits that encode() writes for BodyLength.
Digits(length) == Padded(headerBodyLength + length, 4)

\* A message as its receiver expects it: the header with its codes, the body, and the
\* checksum of both.
LEMMA ReferenceBytes ==
    ASSUME NEW t \in Byte, NEW fs \in Seq(WireField)
    PROVE  LET x     == FieldsBytes(fs)
               whole == HeaderOf(Digits(Len(x)), <<t>>) \o x
           IN  /\ Digits(Len(x)) \in Seq(Byte) /\ Len(Digits(Len(x))) = Len(Zeros(4))
               /\ x \in Seq(Byte) /\ whole \in Seq(Byte) /\ Len(whole) = headerLength + Len(x)
               /\ FieldsBytes(Reference([type |-> t, fields |-> fs]))
                    = whole \o FieldBytes(F(10, Padded(SumOf(whole) % 256, 3)))
<1> DEFINE x      == FieldsBytes(fs)
           k      == Len(x)
           digits == Digits(k)
           head   == HeaderOf(digits, <<t>>)
           whole  == head \o x
           fa == F(8, BeginString)
           fb == F(9, digits)
           fc == F(35, <<t>>)
           fd == F(49, Sender)
           fe == F(56, Target)
           body == <<fc, fd, fe>> \o fs
           hs   == <<fa, fb>> \o body
           last == F(10, Padded(SumOf(FieldsBytes(hs)) % 256, 3))
<1>1. BeginString \in Seq(Byte) /\ Sender \in Seq(Byte) /\ Target \in Seq(Byte) /\ <<t>> \in Seq(Byte)
  BY EncoderAssumption
<1>2. x \in Seq(Byte) /\ k \in Nat
  BY FieldsBytesJoin
<1>3. headerBodyLength \in Nat
  <2>1. /\ Len(FieldBytes(F(49, Sender))) \in Nat /\ Len(FieldBytes(F(56, Target))) \in Nat
    <3>1. FieldBytes(F(49, Sender)) \in Seq(Byte)
      BY <1>1, FieldLength
    <3>2. FieldBytes(F(56, Target)) \in Seq(Byte)
      BY <1>1, FieldLength
    <3> QED BY <3>1, <3>2
  <2> QED BY <2>1, HeaderSizes
<1>4. digits \in Seq(Byte) /\ Len(digits) = 4
  <2>1. 4 \in 0 .. MaxNumberLength /\ 4 \in Nat /\ headerBodyLength + k \in Int
    BY <1>2, <1>3 DEF MaxNumberLength
  <2> HIDE DEF k
  <2> QED BY <2>1, PaddedBytes, PaddedSequence DEF Digits
<1> HIDE DEF k, digits
<1>5. /\ fa \in WireField /\ fb \in WireField /\ fc \in WireField /\ fd \in WireField /\ fe \in WireField
  <2>1. fa \in WireField /\ fb \in WireField /\ fc \in WireField
    BY <1>1, <1>4 DEF F, WireField
  <2>2. fd \in WireField /\ fe \in WireField
    BY <1>1 DEF F, WireField
  <2> QED BY <2>1, <2>2
<1>6. Digits(Len(x)) = digits
  BY DEF k, digits
<1>7. BodySize(body) = headerBodyLength + k
  <2> DEFINE bc == FieldBytes(fc)
             bd == FieldBytes(fd)
             be == FieldBytes(fe)
  <2>1. /\ FieldsBytes(<<fc, fd, fe>>) = (bc \o bd) \o be
        /\ <<fc, fd, fe>> \in Seq(WireField)
    <3> HIDE DEF fc, fd, fe
    <3> QED BY <1>5, FieldsBytesThree
  <2>2. FieldsBytes(body) = FieldsBytes(<<fc, fd, fe>>) \o x
    <3> DEFINE p == <<fc, fd, fe>>
    <3>1. p \in Seq(WireField)
      BY <2>1
    <3> HIDE DEF p
    <3>2. FieldsBytes(p \o fs) = FieldsBytes(p) \o FieldsBytes(fs)
      BY <3>1, FieldsBytesJoin
    <3> QED BY <3>2 DEF p
  <2>3. bc \in Seq(Byte) /\ bd \in Seq(Byte) /\ be \in Seq(Byte)
    <3> HIDE DEF fc, fd, fe
    <3> QED BY <1>5, FieldBytesType
  <2>4. Len(bc) = 5
    <3> DEFINE l == Len(Decimal(35))
               c == <<t>>
               y == Len(c)
    <3>1. Len(FieldBytes(F(35, c))) = l + y + 2
      <4>1. c \in Seq(Byte)
        BY <1>1
      <4> HIDE DEF c
      <4> QED BY <4>1, FieldLength
    <3>2. l = 2 /\ y = 1
      BY TagWidths
    <3>3. bc = FieldBytes(F(35, c))
      OBVIOUS
    <3> HIDE DEF l, c, y, bc
    <3> QED BY <3>1, <3>2, <3>3
  <2>5. headerBodyLength = 5 + Len(bd) + Len(be)
    BY HeaderSizes
  <2> HIDE DEF bc, bd, be, x, body
  <2>6. Len(bc \o bd) = Len(bc) + Len(bd) /\ bc \o bd \in Seq(Byte)
    BY <2>3, BytesJoined
  <2>7. Len((bc \o bd) \o be) = Len(bc \o bd) + Len(be) /\ (bc \o bd) \o be \in Seq(Byte)
    BY <2>3, <2>6, BytesJoined
  <2>8. Len(((bc \o bd) \o be) \o x) = Len((bc \o bd) \o be) + k
    BY <1>2, <2>7, BytesJoined DEF k
  <2>9. Len(bd) \in Nat /\ Len(be) \in Nat
    BY <2>3
  <2>10. BodySize(body) = Len(((bc \o bd) \o be) \o x)
    BY <2>1, <2>2 DEF BodySize
  <2> QED BY <1>2, <2>4, <2>5, <2>6, <2>7, <2>8, <2>9, <2>10
<1>8. Padded(BodySize(body), 4) = digits
  BY <1>7 DEF Digits, digits
<1>9. Reference([type |-> t, fields |-> fs]) = Append(hs, last)
  <2>1. /\ fa = [tag |-> BeginStringTag, value |-> BeginString]
        /\ fb = [tag |-> BodyLengthTag, value |-> Padded(BodySize(body), 4)]
    BY <1>8 DEF F, BeginStringTag, BodyLengthTag
  <2>2. Reference([type |-> t, fields |-> fs]) = PaddedFields(BeginString, body)
    BY DEF Reference, MessageTypeTag
  <2> HIDE DEF fa, fb, body
  <2>3. PaddedFields(BeginString, body) = FieldsWithLength(BeginString, Padded(BodySize(body), 4), body)
    BY DEF PaddedFields
  <2>4. FieldsWithLength(BeginString, Padded(BodySize(body), 4), body)
            = Append(<<fa, fb>> \o body,
                     [tag |-> 10, value |-> Padded(SumOf(FieldsBytes(<<fa, fb>> \o body)) % 256, 3)])
    BY <2>1 DEF FieldsWithLength, CheckSumTag
  <2> QED BY <2>2, <2>3, <2>4 DEF F
<1>10. FieldsBytes(hs) = whole /\ hs \in Seq(WireField)
  <2> DEFINE five == <<fa, fb, fc, fd, fe>>
  <2>1. five \in Seq(WireField) /\ FieldsBytes(five) = head
    <3>1. FieldsBytes(five) = FieldBytes(fa) \o FieldBytes(fb) \o FieldBytes(fc) \o FieldBytes(fd) \o FieldBytes(fe)
          /\ five \in Seq(WireField)
      <4> HIDE DEF fa, fb, fc, fd, fe
      <4> QED BY <1>5, FieldsBytesFive
    <3> QED BY <3>1 DEF HeaderOf
  <2>2. hs = five \o fs
    <3> DEFINE p == <<fa, fb>>
               q == <<fc, fd, fe>>
    <3>1. p \in Seq(WireField) /\ q \in Seq(WireField)
      <4> HIDE DEF fa, fb, fc, fd, fe
      <4> QED BY <1>5
    <3>2. p \o q = five
      <4> HIDE DEF fa, fb, fc, fd, fe
      <4> QED BY <1>5, TwoAndThree
    <3> HIDE DEF p, q
    <3>3. (p \o q) \o fs = p \o (q \o fs)
      BY <3>1, Associative
    <3>4. hs = p \o (q \o fs)
      BY DEF p, q
    <3> QED BY <3>2, <3>3, <3>4
  <2> HIDE DEF five, hs, head
  <2>3. FieldsBytes(five \o fs) = FieldsBytes(five) \o FieldsBytes(fs)
    BY <2>1, FieldsBytesJoin
  <2>4. five \o fs \in Seq(WireField)
    BY <2>1
  <2> QED BY <2>1, <2>2, <2>3, <2>4
<1>11. last \in WireField
  <2>1. whole \in Seq(Byte) /\ head \in Seq(Byte)
    <3>1. head \in Seq(Byte)
      BY <1>1, <1>4, HeaderHeld
    <3> HIDE DEF head
    <3> QED BY <1>2, <3>1, BytesJoined
  <2>2. SumOf(whole) \in Int
    <3> HIDE DEF whole
    <3>1. whole \in Seq(Int)
      BY <2>1, BytesAreIntegers
    <3> QED BY <3>1, SumOfType
  <2> HIDE DEF whole
  <2>3. Padded(SumOf(whole) % 256, 3) \in Seq(Byte)
    <3>1. SumOf(whole) % 256 \in Int /\ 3 \in 0 .. MaxNumberLength
      BY <2>2 DEF MaxNumberLength
    <3> QED BY <3>1, PaddedBytes
  <2> QED BY <1>10, <2>3 DEF F, WireField
<1>12. FieldsBytes(Append(hs, last)) = FieldsBytes(hs) \o FieldBytes(last)
  <2> HIDE DEF hs, last
  <2> QED BY <1>10, <1>11, FieldsBytesLast
<1>13. head \in Seq(Byte) /\ Len(head) = headerLength
  <2> DEFINE c == <<t>>
             n == Len(BeginString)
             i == Len(digits)
             j == Len(c)
             q == Len(FieldBytes(F(49, Sender)))
             r == Len(FieldBytes(F(56, Target)))
  <2>1. c \in Seq(Byte) /\ j = 1 /\ i = 4
    BY <1>1, <1>4
  <2> HIDE DEF c
  <2>2. HeaderOf(digits, c) \in Seq(Byte) /\ Len(HeaderOf(digits, c)) = n + i + j + 10 + q + r
        /\ n \in Nat /\ q \in Nat /\ r \in Nat
    BY <1>4, <2>1, HeaderHeld, ZenonT(40)
  <2>3. headerLength = n + 15 + q + r
    BY HeaderSizes
  <2> HIDE DEF n, i, j, q, r
  <2>4. Len(HeaderOf(digits, c)) = headerLength
    BY <2>1, <2>2, <2>3
  <2> QED BY <2>2, <2>4 DEF c
<1>14. whole \in Seq(Byte) /\ Len(whole) = headerLength + k
  <2> HIDE DEF head, x
  <2>1. whole \in Seq(Byte) /\ Len(whole) = Len(head) + Len(x)
    BY <1>2, <1>13, BytesJoined
  <2> QED BY <1>13, <2>1 DEF k
<1>15. Len(digits) = Len(Zeros(4))
  BY <1>4, HeaderSizes
<1>16. FieldsBytes(Reference([type |-> t, fields |-> fs]))
           = whole \o FieldBytes(F(10, Padded(SumOf(whole) % 256, 3)))
  <2> HIDE DEF whole, hs
  <2> QED BY <1>9, <1>10, <1>12
<1>17. Len(whole) = headerLength + Len(x)
  BY <1>14 DEF k
<1> QED BY <1>2, <1>4, <1>6, <1>14, <1>15, <1>16, <1>17

-----------------------------------------------------------------------------
(***************************************************************************)
(* The buffer is packed: complete messages from its front on, then what is *)
(* being built, the header and the fields set so far.                      *)
(***************************************************************************)
Message      == [type : Types, fields : Seq(WireField)]
Packed(msgs) == FlattenSeq([i \in DOMAIN msgs |-> FieldsBytes(Reference(msgs[i]))])

\* Whatever is set next still leaves room for the trailer.
RoomLeft(length, count) ==
    /\ length \in Nat /\ count \in 0 .. MaxBody + 1
    /\ length <= count * FieldRoom

PackedInv ==
    /\ out \in Buffer
    /\ phase \in {"idle", "wrapped", "body"}
    /\ type \in Types \union {Unknown}
    /\ sent \in Seq(Message)
    /\ end \in 0 .. Size
    /\ Len(Packed(sent)) = end
    /\ Holds(out, 0, Packed(sent))
    /\ phase \in {"wrapped", "body"} =>
           /\ end + Room <= Size
           /\ Holds(out, end, Prefix)
    /\ phase = "wrapped" => asked = <<>>
    /\ phase = "body" =>
           /\ type \in Types
           /\ asked \in Seq(WireField)
           /\ encodedLength = Len(FieldsBytes(asked))
           /\ Holds(out, end + headerLength, FieldsBytes(asked))
           /\ RoomLeft(encodedLength, Len(asked))
           /\ fieldOffset = mOffset + headerLength
    /\ phase \in {"wrapped", "body"} => mOffset = end

\* The whole body has room behind the header.
LEMMA RoomForBody ==
    ASSUME NEW length, NEW count, RoomLeft(length, count)
    PROVE  length \in Nat /\ headerLength + length + 7 <= Room
<1> DEFINE d == MaxBody + 1
           m == Room - headerLength - 7
           q == FieldRoom
<1>1. MaxBody \in Nat /\ FieldRoom \in Nat /\ Room \in Nat /\ headerLength \in Nat
  BY EncoderAssumption, RoomAssumption, HeaderLayout
<1>2. d \in Nat \ {0} /\ m \in Int /\ q \in Nat
  BY <1>1
<1>3. q = m \div d
  BY DEF FieldRoom, TrailerLength
<1>4. length \in Nat /\ count \in Nat /\ count <= d /\ length <= count * q
  BY <1>1 DEF RoomLeft
<1> HIDE DEF d, q, m
<1>5. d * q <= m
  <2>1. m = d * (m \div d) + (m % d) /\ m % d \in 0 .. d - 1
    <3>1. m % d \in 0 .. d - 1
      BY <1>2
    <3> QED BY <1>2, <3>1, DivisionIs
  <2>2. PICK p \in Int : p = d * q
    BY <1>2
  <2>3. PICK r \in Int : r = m % d /\ r >= 0
    BY <1>2, <2>1
  <2>4. m = p + r
    BY <1>3, <2>1, <2>2, <2>3
  <2> QED BY <1>2, <2>2, <2>3, <2>4
<1>6. count * q <= d * q
  BY <1>2, <1>4
<1>7. length <= m
  <2>1. PICK p \in Int : p = count * q
    BY <1>2, <1>4
  <2>2. PICK r \in Int : r = d * q
    BY <1>2
  <2> QED BY <1>2, <1>4, <1>5, <1>6, <2>1, <2>2
<1> QED BY <1>1, <1>4, <1>7 DEF m

LEMMA RoomForFields ==
    ASSUME NEW length, NEW count, RoomLeft(length, count), count < MaxBody,
           NEW more \in 1 .. 2, NEW bytes \in Nat, bytes <= more * FieldRoom
    PROVE  RoomLeft(length + bytes, count + more)
<1>1. MaxBody \in Nat /\ FieldRoom \in Nat
  BY RoomAssumption
<1>2. length \in Nat /\ count \in Nat /\ length <= count * FieldRoom
  BY <1>1 DEF RoomLeft
<1>3. (count + more) * FieldRoom = count * FieldRoom + more * FieldRoom
  BY <1>1, <1>2
<1>4. PICK p \in Int, q \in Int : p = count * FieldRoom /\ q = more * FieldRoom
  BY <1>1, <1>2
<1>5. length + bytes <= (count + more) * FieldRoom
  BY <1>2, <1>3, <1>4
<1> QED BY <1>1, <1>2, <1>5 DEF RoomLeft

\* Messages join as their bytes do.
LEMMA PackedNone == Packed(<<>>) = <<>>
<1>1. [i \in DOMAIN <<>> |-> FieldsBytes(Reference(<<>>[i]))] = <<>>
  OBVIOUS
<1> QED BY <1>1, FlattenNone DEF Packed

TrailerOf(bytes) == FieldBytes(F(10, Padded(SumOf(bytes) % 256, 3)))
WholeOf(t, fs)   == HeaderOf(Digits(Len(FieldsBytes(fs))), <<t>>) \o FieldsBytes(fs)

LEMMA ReferenceJoined ==
    ASSUME NEW t \in Byte, NEW fs \in Seq(WireField)
    PROVE  /\ WholeOf(t, fs) \in Seq(Byte)
           /\ FieldsBytes(Reference([type |-> t, fields |-> fs]))
                  = WholeOf(t, fs) \o TrailerOf(WholeOf(t, fs))
BY ReferenceBytes, ZenonT(60) DEF WholeOf, TrailerOf

LEMMA EncodedBytes ==
    ASSUME NEW t \in Byte, NEW fs \in Seq(WireField),
           NEW n, n = Len(FieldsBytes(fs)), NEW m, m = [type |-> t, fields |-> fs]
    PROVE  LET whole == HeaderOf(Digits(n), <<t>>) \o FieldsBytes(fs)
           IN  /\ Digits(n) \in Seq(Byte) /\ Len(Digits(n)) = Len(Zeros(4))
               /\ FieldsBytes(fs) \in Seq(Byte) /\ whole \in Seq(Byte) /\ Len(whole) = headerLength + n
               /\ FieldsBytes(Reference(m)) = whole \o TrailerOf(whole)
<1>1. WholeOf(t, fs) = HeaderOf(Digits(n), <<t>>) \o FieldsBytes(fs)
  BY Zenon DEF WholeOf
<1>2. FieldsBytes(Reference(m)) = WholeOf(t, fs) \o TrailerOf(WholeOf(t, fs))
  BY ReferenceJoined, Zenon
<1>3. /\ Digits(n) \in Seq(Byte) /\ Len(Digits(n)) = Len(Zeros(4)) /\ FieldsBytes(fs) \in Seq(Byte)
      /\ WholeOf(t, fs) \in Seq(Byte) /\ Len(WholeOf(t, fs)) = headerLength + n
  BY ReferenceBytes, ZenonT(60) DEF WholeOf
<1> QED BY <1>1, <1>2, <1>3, Zenon

LEMMA WholeBytes ==
    ASSUME NEW t \in Byte, NEW fs \in Seq(WireField)
    PROVE  FieldsBytes(Reference([type |-> t, fields |-> fs])) \in Seq(Byte)
<1>1. PICK whole \in Seq(Byte) :
          FieldsBytes(Reference([type |-> t, fields |-> fs])) = whole \o TrailerOf(whole)
  BY ReferenceJoined, Zenon
<1>2. TrailerOf(whole) \in Seq(Byte)
  <2>1. SumOf(whole) \in Int
    BY <1>1, BytesAreIntegers, SumOfType
  <2>2. Padded(SumOf(whole) % 256, 3) \in Seq(Byte)
    <3>1. SumOf(whole) % 256 \in Int /\ 3 \in 0 .. MaxNumberLength
      BY <2>1 DEF MaxNumberLength
    <3> QED BY <3>1, PaddedBytes
  <2> QED BY <2>2, FieldLength DEF TrailerOf
<1>3. whole \o TrailerOf(whole) \in Seq(Byte)
  BY <1>1, <1>2, BytesJoined
<1> QED BY <1>1, <1>3, Zenon

LEMMA ReferenceType == ASSUME NEW m \in Message PROVE FieldsBytes(Reference(m)) \in Seq(Byte)
<1>1. m.type \in Byte /\ m.fields \in Seq(WireField) /\ m = [type |-> m.type, fields |-> m.fields]
  BY EncoderAssumption DEF Message
<1>2. FieldsBytes(Reference([type |-> m.type, fields |-> m.fields])) \in Seq(Byte)
  BY <1>1, WholeBytes
<1> QED BY <1>1, <1>2

LEMMA PackedParts ==
    ASSUME NEW ms \in Seq(Message)
    PROVE  LET b == [i \in DOMAIN ms |-> FieldsBytes(Reference(ms[i]))]
           IN  /\ b \in Seq(Seq(Byte)) /\ Len(b) = Len(ms)
               /\ \A i \in 1 .. Len(ms) : b[i] = FieldsBytes(Reference(ms[i]))
<1> DEFINE b == [i \in DOMAIN ms |-> FieldsBytes(Reference(ms[i]))]
<1>1. Len(ms) \in Nat /\ DOMAIN ms = 1 .. Len(ms) /\ \A i \in 1 .. Len(ms) : ms[i] \in Message
  BY ElementOfSeq
<1>2. \A i \in 1 .. Len(ms) : FieldsBytes(Reference(ms[i])) \in Seq(Byte)
  BY <1>1, ReferenceType
<1>3. b \in [1 .. Len(ms) -> Seq(Byte)]
  BY <1>1, <1>2
<1> QED BY <1>1, <1>3

LEMMA PackedBytes == ASSUME NEW msgs \in Seq(Message) PROVE Packed(msgs) \in Seq(Byte)
<1> DEFINE b == [i \in DOMAIN msgs |-> FieldsBytes(Reference(msgs[i]))]
           x == <<>>
<1>1. b \in Seq(Seq(Byte)) /\ x \in Seq(Byte)
  BY PackedParts
<1> HIDE DEF b, x
<1>2. FlattenSeq(b) \in Seq(Byte)
  BY <1>1, FlattenAppend
<1> QED BY <1>2 DEF Packed, b

LEMMA PackedAppend ==
    ASSUME NEW msgs \in Seq(Message), NEW m \in Message
    PROVE  Packed(Append(msgs, m)) = Packed(msgs) \o FieldsBytes(Reference(m))
<1> DEFINE b(ms) == [i \in DOMAIN ms |-> FieldsBytes(Reference(ms[i]))]
           more  == Append(msgs, m)
           x     == FieldsBytes(Reference(m))
<1>1. ASSUME NEW ms \in Seq(Message)
      PROVE  /\ b(ms) \in Seq(Seq(Byte)) /\ Len(b(ms)) = Len(ms)
             /\ \A i \in 1 .. Len(ms) : b(ms)[i] = FieldsBytes(Reference(ms[i]))
  BY PackedParts
<1>2. /\ more \in Seq(Message) /\ Len(more) = Len(msgs) + 1
      /\ \A i \in 1 .. Len(msgs) : more[i] = msgs[i]
      /\ more[Len(msgs) + 1] = m
  BY AppendProperties
<1>3. x \in Seq(Byte)
  BY ReferenceType
<1>4. b(more) = Append(b(msgs), x)
  <2> DEFINE s == b(msgs)
             t == b(more)
  <2>1. /\ s \in Seq(Seq(Byte)) /\ Len(s) = Len(msgs)
        /\ \A i \in 1 .. Len(msgs) : s[i] = FieldsBytes(Reference(msgs[i]))
    BY <1>1
  <2>2. /\ t \in Seq(Seq(Byte)) /\ Len(t) = Len(more)
        /\ \A i \in 1 .. Len(more) : t[i] = FieldsBytes(Reference(more[i]))
    BY <1>1, <1>2
  <2>3. Len(msgs) \in Nat
    OBVIOUS
  <2> HIDE DEF b, s, t, more
  <2>4. Len(t) = Len(s) + 1 /\ t[Len(s) + 1] = x
    <3>1. Len(msgs) + 1 \in 1 .. Len(more)
      BY <1>2, <2>3
    <3> QED BY <1>2, <2>1, <2>2, <3>1
  <2>5. \A i \in 1 .. Len(s) : t[i] = s[i]
    <3>1. \A i \in 1 .. Len(msgs) : i \in 1 .. Len(more)
      BY <1>2, <2>3
    <3> QED BY <1>2, <2>1, <2>2, <3>1
  <2> HIDE DEF x
  <2>6. Append(s, x) = t
    BY <1>3, <2>1, <2>2, <2>4, <2>5, AppendMakes
  <2> QED BY <2>6 DEF s, t
<1>5. b(msgs) \in Seq(Seq(Byte))
  BY <1>1
<1> HIDE DEF b, x, more
<1>6. FlattenSeq(Append(b(msgs), x)) = FlattenSeq(b(msgs)) \o x
  BY <1>3, <1>5, FlattenAppend
<1> QED BY <1>4, <1>6 DEF Packed, b, x, more

LEMMA InitPacked == Init => PackedInv
<1> SUFFICES ASSUME Init PROVE PackedInv
  OBVIOUS
<1>1. Size \in Nat
  BY EncoderAssumption
<1>2. out \in Buffer
  BY <1>1 DEF Init, Buffer, Byte
<1>3. phase = "idle" /\ type = Unknown /\ sent = <<>> /\ end = 0
  BY DEF Init
<1>4. Packed(sent) = <<>>
  BY <1>3, PackedNone
<1>5. Len(Packed(sent)) = 0 /\ Holds(out, 0, Packed(sent))
  BY <1>4 DEF Holds
<1>6. sent \in Seq(Message)
  BY <1>3
<1> QED BY <1>1, <1>2, <1>3, <1>5, <1>6 DEF PackedInv

LEMMA PrefixBytes ==
    /\ Prefix \in Seq(Byte) /\ Len(Prefix) = headerLength
    /\ messagePrefix \in Seq(Byte) /\ Len(messagePrefix) = 64
<1>1. Prefix \in Seq(Byte)
  <2> DEFINE z == Zeros(4)
             u == <<Unknown>>
  <2>1. z \in Seq(Byte) /\ u \in Seq(Byte) /\ Prefix = HeaderOf(z, u)
    BY HeaderSizes
  <2> HIDE DEF z, u
  <2>2. HeaderOf(z, u) \in Seq(Byte)
    BY <2>1, HeaderHeld
  <2> QED BY <2>1, <2>2
<1>2. headerLength \in Nat /\ headerLength <= 64
  BY HeaderLayout, EncoderAssumption DEF MaxPrefixLength
<1> DEFINE n    == 64 - headerLength
           fill == [i \in 1 .. n |-> 0]
<1>3. n \in Nat
  BY <1>2
<1>4. fill \in Seq(Byte) /\ Len(fill) = n
  <2>1. 0 \in Byte
    BY DEF Byte
  <2> HIDE DEF n
  <2>2. fill \in [1 .. n -> Byte]
    BY <2>1
  <2> QED BY <1>3, <2>2
<1>5. messagePrefix = Prefix \o fill
  BY DEF messagePrefix, MaxPrefixLength
<1> HIDE DEF fill
<1>6. Prefix \o fill \in Seq(Byte) /\ Len(Prefix \o fill) = Len(Prefix) + Len(fill)
  BY <1>1, <1>4, BytesJoined
<1>7. Len(Prefix) = headerLength
  BY DEF headerLength
<1> QED BY <1>1, <1>2, <1>4, <1>5, <1>6, <1>7

LEMMA PackedType ==
    ASSUME PackedInv
    PROVE  /\ Packed(sent) \in Seq(Byte) /\ out \in Buffer /\ end \in Nat /\ Size \in Nat
           /\ 0 + Len(Packed(sent)) = end /\ end <= Size /\ Room \in Nat /\ Room >= 64
           /\ headerLength \in Nat
<1>1. Packed(sent) \in Seq(Byte)
  BY PackedBytes DEF PackedInv
<1> QED BY <1>1, HeaderLayout, EncoderAssumption DEF PackedInv, MaxPrefixLength

\* Bytes written behind the complete messages leave them in the buffer.
LEMMA WritePacked ==
    ASSUME PackedInv, NEW at \in Nat, end <= at, NEW bytes \in Seq(Byte), at + Len(bytes) <= Size
    PROVE  /\ Write(out, at, bytes) \in Buffer
           /\ Holds(Write(out, at, bytes), at, bytes)
           /\ Holds(Write(out, at, bytes), 0, Packed(sent))
           /\ \A p \in Nat, s \in Seq(Byte) :
                  Holds(out, p, s) /\ p + Len(s) <= at => Holds(Write(out, at, bytes), p, s)
<1>1. /\ Packed(sent) \in Seq(Byte) /\ out \in Buffer /\ Size \in Nat
      /\ 0 + Len(Packed(sent)) = end /\ Holds(out, 0, Packed(sent))
  BY PackedType DEF PackedInv
<1>2. Write(out, at, bytes) \in Buffer /\ Holds(Write(out, at, bytes), at, bytes)
  BY <1>1, WriteHolds
<1>3. ASSUME NEW p \in Nat, NEW s \in Seq(Byte), Holds(out, p, s), p + Len(s) <= at
      PROVE  Holds(Write(out, at, bytes), p, s)
  <2>1. p + Len(s) <= Size /\ at >= p + Len(s)
    <3>1. Len(s) \in Nat /\ Len(bytes) \in Nat
      OBVIOUS
    <3> QED BY <1>1, <1>3, <3>1
  <2> QED BY <1>1, <1>3, <2>1, WriteKeeps
<1>4. Holds(Write(out, at, bytes), 0, Packed(sent))
  <2> DEFINE s == Packed(sent)
  <2>1. s \in Seq(Byte) /\ Holds(out, 0, s) /\ 0 + Len(s) <= at
    BY <1>1
  <2> HIDE DEF s
  <2> QED BY <1>3, <2>1 DEF s
<1> QED BY <1>2, <1>3, <1>4

LEMMA WrapPacked == ASSUME PackedInv, Wrap PROVE PackedInv'
<1>1. /\ phase \in {"idle", "body"} /\ end + Room <= Size /\ mOffset' = end /\ phase' = "wrapped"
      /\ out' = Write(out, end, messagePrefix) /\ asked' = <<>>
      /\ type' = type /\ end' = end /\ sent' = sent
  BY DEF Wrap
<1>2. /\ end \in Nat /\ Room >= 64 /\ Size \in Nat /\ Room \in Nat
  BY PackedType
<1> DEFINE bytes == messagePrefix
<1>3. bytes \in Seq(Byte) /\ end + Len(bytes) <= Size
  BY <1>1, <1>2, PrefixBytes
<1>4. /\ out' \in Buffer /\ Holds(out', end, bytes) /\ Holds(out', 0, Packed(sent))
  <2> HIDE DEF bytes
  <2> QED BY <1>1, <1>2, <1>3, WritePacked DEF bytes
<1>5. Holds(out', end, Prefix)
  <2> DEFINE n    == MaxPrefixLength - headerLength
             fill == [i \in 1 .. n |-> 0]
  <2>1. bytes = Prefix \o fill
    BY DEF messagePrefix
  <2>2. Prefix \in Seq(Byte) /\ fill \in Seq(Byte)
    <3>1. 0 \in Byte
      BY DEF Byte
    <3>2. n \in Nat
      BY HeaderLayout, EncoderAssumption DEF MaxPrefixLength
    <3> HIDE DEF n
    <3>3. fill \in [1 .. n -> Byte]
      BY <3>1
    <3> QED BY <3>2, <3>3, PrefixBytes
  <2> HIDE DEF bytes, fill
  <2>3. Holds(out', end, Prefix \o fill)
    BY <1>4, <2>1
  <2> QED BY <1>2, <2>2, <2>3, HoldsJoined
<1> QED BY <1>1, <1>4, <1>5 DEF PackedInv

LEMMA WrapMessagePacked == ASSUME PackedInv, WrapMessage PROVE PackedInv'
<1>1. /\ phase = "wrapped" /\ phase' = "body" /\ type' \in Types /\ fieldOffset' = mOffset + headerLength
      /\ encodedLength' = 0
      /\ out' = out /\ mOffset' = mOffset /\ end' = end /\ asked' = asked /\ sent' = sent
  BY DEF WrapMessage, FieldWrap, bodyOffset
<1>2. asked = <<>> /\ end + Room <= Size /\ Holds(out, end, Prefix) /\ mOffset = end
  BY <1>1 DEF PackedInv
<1>3. FieldsBytes(asked') = <<>>
  BY <1>1, <1>2, FieldsBytesNone
<1>4. /\ asked' \in Seq(WireField) /\ encodedLength' = Len(FieldsBytes(asked'))
      /\ Holds(out', end + headerLength, FieldsBytes(asked'))
  BY <1>1, <1>2, <1>3 DEF Holds
<1>5. RoomLeft(encodedLength', Len(asked'))
  <2>1. Len(asked') = 0 /\ encodedLength' = 0
    BY <1>1, <1>2
  <2>2. RoomLeft(0, 0)
    BY RoomAssumption DEF RoomLeft
  <2> QED BY <2>1, <2>2
<1> QED BY <1>1, <1>2, <1>4, <1>5 DEF PackedInv

\* The bytes of the fields set, written behind the body.
LEMMA FieldsPacked ==
    ASSUME PackedInv, NEW old \in Seq(WireField), NEW fields \in Seq(WireField),
           mOffset = end, end + Room <= Size, Holds(out, end, Prefix),
           NEW length, RoomLeft(length, Len(old)), length = Len(FieldsBytes(old)),
           Holds(out, end + headerLength, FieldsBytes(old)),
           RoomLeft(length + Len(FieldsBytes(fields)), Len(old) + Len(fields)),
           out' = Write(out, end + headerLength + length, FieldsBytes(fields))
    PROVE  /\ out' \in Buffer /\ Holds(out', 0, Packed(sent)) /\ Holds(out', end, Prefix)
           /\ old \o fields \in Seq(WireField)
           /\ Holds(out', end + headerLength, FieldsBytes(old \o fields))
           /\ Len(FieldsBytes(old \o fields)) = length + Len(FieldsBytes(fields))
           /\ RoomLeft(length + Len(FieldsBytes(fields)), Len(old \o fields))
<1> DEFINE x  == FieldsBytes(old)
           y  == FieldsBytes(fields)
           h  == end + headerLength
           at == h + length
<1>1. x \in Seq(Byte) /\ y \in Seq(Byte) /\ FieldsBytes(old \o fields) = x \o y /\ old \o fields \in Seq(WireField)
  BY FieldsBytesJoin
<1>2. Len(y) \in Nat /\ length \in Nat /\ headerLength + (length + Len(y)) + 7 <= Room
  <2>1. length \in Nat /\ headerLength + (length + Len(y)) + 7 <= Room
    BY RoomForBody
  <2> QED BY <1>1, <2>1
<1>3. end \in Nat /\ headerLength \in Nat /\ Size \in Nat /\ Room \in Nat
  BY PackedType
<1>4. h \in Nat /\ at \in Nat /\ end <= at /\ at + Len(y) <= Size
      /\ Prefix \in Seq(Byte) /\ end + Len(Prefix) <= at /\ h + Len(x) <= at
  <2>1. Prefix \in Seq(Byte) /\ Len(Prefix) = headerLength
    BY PrefixBytes
  <2>2. Len(x) = length
    OBVIOUS
  <2> HIDE DEF x, y
  <2> QED BY <1>2, <1>3, <2>1, <2>2
<1>5. out' = Write(out, at, y) /\ Holds(out, h, x)
  OBVIOUS
<1> HIDE DEF x, y, h, at
<1>6. /\ out' \in Buffer /\ Holds(out', at, y) /\ Holds(out', 0, Packed(sent))
      /\ Holds(out', end, Prefix) /\ Holds(out', h, x)
  <2>1. /\ Write(out, at, y) \in Buffer
        /\ Holds(Write(out, at, y), at, y)
        /\ Holds(Write(out, at, y), 0, Packed(sent))
        /\ \A p \in Nat, s \in Seq(Byte) :
               Holds(out, p, s) /\ p + Len(s) <= at => Holds(Write(out, at, y), p, s)
    BY <1>1, <1>4, WritePacked
  <2>2. Holds(Write(out, at, y), end, Prefix)
    BY <1>3, <1>4, <2>1
  <2>3. Holds(Write(out, at, y), h, x)
    BY <1>1, <1>4, <1>5, <2>1
  <2> QED BY <1>5, <2>1, <2>2, <2>3
<1>7. Holds(out', h, x \o y)
  <2>1. h + Len(x) = at
    BY DEF at, x
  <2> QED BY <1>1, <1>4, <1>6, <2>1, HoldsJoined
<1>8. Len(x \o y) = length + Len(y)
  <2>1. Len(x \o y) = Len(x) + Len(y)
    BY <1>1, BytesJoined
  <2> QED BY <2>1 DEF x
<1>9. Len(old \o fields) = Len(old) + Len(fields)
  BY ConcatProperties
<1>10. RoomLeft(length + Len(y), Len(old \o fields))
  BY <1>9 DEF y
<1> QED BY <1>1, <1>6, <1>7, <1>8, <1>10 DEF h, y

LEMMA WrapHeaderPacked == ASSUME PackedInv, WrapHeader PROVE PackedInv'
<1>1. PICK header \in Headers :
          LET number == F(34, Decimal(header.number))
              time   == F(52, header.time)
              bytes  == FieldBytes(number) \o FieldBytes(time)
          IN  /\ asked' = <<number, time>>
              /\ out' = Write(out, fieldOffset', bytes)
              /\ encodedLength' = Len(bytes)
  BY DEF WrapHeader
<1> DEFINE number == F(34, Decimal(header.number))
           time   == F(52, header.time)
           fields == <<number, time>>
           y      == FieldBytes(number) \o FieldBytes(time)
<1>2. /\ phase = "wrapped" /\ phase' = "body" /\ type' \in Types /\ fieldOffset' = mOffset + headerLength
      /\ mOffset' = mOffset /\ end' = end /\ sent' = sent
  BY DEF WrapHeader, bodyOffset
<1>3. end + Room <= Size /\ Holds(out, end, Prefix) /\ mOffset = end
  BY <1>2 DEF PackedInv
<1>4. number \in WireField /\ time \in WireField /\ Fits(number) /\ Fits(time)
  <2>1. header.number \in Nat /\ header.time \in Seq(Byte)
    BY EncoderAssumption
  <2>2. Decimal(header.number) \in Seq(Byte)
    BY <2>1, DecimalBytes
  <2> QED BY <2>1, <2>2, RoomAssumption DEF F, WireField
<1> HIDE DEF number, time
<1>5. fields \in Seq(WireField) /\ FieldsBytes(fields) = y
  BY <1>4, FieldsBytesTwo
<1>6. Len(fields) = 2
  OBVIOUS
<1>7. /\ Len(y) \in Nat /\ Len(y) <= 2 * FieldRoom
  <2>1. FieldBytes(number) \in Seq(Byte) /\ FieldBytes(time) \in Seq(Byte)
    BY <1>4, FieldBytesType
  <2>2. Len(y) = Len(FieldBytes(number)) + Len(FieldBytes(time))
        /\ Len(FieldBytes(number)) \in Nat /\ Len(FieldBytes(time)) \in Nat
    BY <2>1, BytesJoined
  <2>3. FieldRoom \in Nat
    BY RoomAssumption
  <2> HIDE DEF y
  <2> QED BY <1>4, <2>2, <2>3 DEF Fits
<1>8. asked' = fields /\ out' = Write(out, fieldOffset', y) /\ encodedLength' = Len(y)
  BY <1>1 DEF number, time
<1> HIDE DEF fields, y
<1> DEFINE none == <<>>
<1>9. /\ none \in Seq(WireField) /\ FieldsBytes(none) = <<>> /\ Len(none) = 0
      /\ none \o fields = fields
  BY <1>5, FieldsBytesNone, ConcatEmptySeq
<1>10. 0 = Len(FieldsBytes(none)) /\ Holds(out, end + headerLength, FieldsBytes(none))
  BY <1>9 DEF Holds
<1>11. RoomLeft(0, Len(none)) /\ RoomLeft(0 + Len(FieldsBytes(fields)), Len(none) + Len(fields))
  <2>1. RoomLeft(0, 0)
    BY RoomAssumption DEF RoomLeft
  <2>2. RoomLeft(Len(y), 2)
    BY <1>7, RoomAssumption DEF RoomLeft
  <2>3. 0 + Len(y) = Len(y)
    BY <1>7
  <2>4. Len(none) + Len(fields) = 2
    BY <1>6, <1>9
  <2> QED BY <1>5, <1>9, <2>1, <2>2, <2>3, <2>4
<1>12. out' = Write(out, end + headerLength + 0, FieldsBytes(fields))
  <2>1. end \in Nat /\ headerLength \in Nat
    BY PackedType
  <2>2. fieldOffset' = end + headerLength + 0
    BY <1>2, <1>3, <2>1
  <2> QED BY <1>5, <1>8, <2>2
<1> HIDE DEF none
<1>13. /\ out' \in Buffer /\ Holds(out', 0, Packed(sent)) /\ Holds(out', end, Prefix)
       /\ Holds(out', end + headerLength, FieldsBytes(none \o fields))
       /\ Len(FieldsBytes(none \o fields)) = 0 + Len(FieldsBytes(fields))
       /\ RoomLeft(0 + Len(FieldsBytes(fields)), Len(none \o fields))
  BY <1>3, <1>5, <1>9, <1>10, <1>11, <1>12, FieldsPacked
<1>14. 0 + Len(FieldsBytes(fields)) = Len(y)
  BY <1>5, <1>7
<1>15. /\ asked' \in Seq(WireField) /\ encodedLength' = Len(FieldsBytes(asked'))
       /\ Holds(out', end + headerLength, FieldsBytes(asked'))
       /\ RoomLeft(encodedLength', Len(asked'))
  BY <1>5, <1>8, <1>9, <1>13, <1>14
<1> QED BY <1>2, <1>3, <1>13, <1>15 DEF PackedInv

LEMMA EncodeFieldsPacked ==
    ASSUME PackedInv, NEW fields \in Seq(WireField), Len(fields) \in 1 .. 2,
           Len(FieldsBytes(fields)) <= Len(fields) * FieldRoom,
           EncodeFields(fields, FieldsBytes(fields))
    PROVE  PackedInv'
<1> DEFINE y == FieldsBytes(fields)
<1>1. /\ phase = "body" /\ Len(asked) < MaxBody /\ asked' = asked \o fields
      /\ out' = Write(out, fieldOffset + encodedLength, y)
      /\ encodedLength' = encodedLength + Len(y)
      /\ phase' = phase /\ fieldOffset' = fieldOffset /\ mOffset' = mOffset /\ type' = type
      /\ end' = end /\ sent' = sent
  BY DEF EncodeFields
<1>2. /\ end + Room <= Size /\ Holds(out, end, Prefix) /\ mOffset = end
      /\ type \in Types /\ asked \in Seq(WireField) /\ encodedLength = Len(FieldsBytes(asked))
      /\ Holds(out, end + headerLength, FieldsBytes(asked))
      /\ RoomLeft(encodedLength, Len(asked)) /\ fieldOffset = mOffset + headerLength
  BY <1>1 DEF PackedInv
<1>3. y \in Seq(Byte) /\ Len(y) \in Nat
  BY FieldsBytesJoin
<1>4. RoomLeft(encodedLength + Len(y), Len(asked) + Len(fields))
  <2> HIDE DEF y
  <2> QED BY <1>1, <1>2, <1>3, RoomForFields DEF y
<1>5. out' = Write(out, end + headerLength + encodedLength, y)
  BY <1>1, <1>2
<1> HIDE DEF y
<1>6. /\ out' \in Buffer /\ Holds(out', 0, Packed(sent)) /\ Holds(out', end, Prefix)
      /\ asked \o fields \in Seq(WireField)
      /\ Holds(out', end + headerLength, FieldsBytes(asked \o fields))
      /\ Len(FieldsBytes(asked \o fields)) = encodedLength + Len(y)
      /\ RoomLeft(encodedLength + Len(y), Len(asked \o fields))
  BY <1>2, <1>4, <1>5, FieldsPacked DEF y
<1> QED BY <1>1, <1>2, <1>6 DEF PackedInv

LEMMA SetterPacked ==
    ASSUME PackedInv, EncodeText \/ EncodeNumber \/ EncodeData
    PROVE  PackedInv'
<1>1. FieldRoom \in Nat
  BY RoomAssumption
<1>2. ASSUME NEW f \in WireField, Fits(f), EncodeField(f) PROVE PackedInv'
  <2> DEFINE fields == <<f>>
  <2>1. fields \in Seq(WireField) /\ FieldsBytes(fields) = FieldBytes(f) /\ Len(fields) = 1
    BY FieldsBytesOne
  <2>2. EncodeFields(fields, FieldsBytes(fields))
    BY <1>2, <2>1 DEF EncodeField
  <2>3. Len(FieldsBytes(fields)) <= Len(fields) * FieldRoom
    <3>1. Len(FieldBytes(f)) <= FieldRoom /\ 1 * FieldRoom = FieldRoom
      BY <1>1, <1>2 DEF Fits
    <3> QED BY <2>1, <3>1
  <2> HIDE DEF fields
  <2>4. Len(fields) \in 1 .. 2
    BY <2>1
  <2> QED BY <2>1, <2>2, <2>3, <2>4, EncodeFieldsPacked
<1>3. CASE EncodeText
  <2>1. PICK t \in Texts : EncodeField(F(t.tag, t.value))
    BY <1>3 DEF EncodeText
  <2>2. F(t.tag, t.value) \in WireField /\ Fits(F(t.tag, t.value))
    BY EncoderAssumption, RoomAssumption DEF F, WireField
  <2> QED BY <1>2, <2>1, <2>2
<1>4. CASE EncodeNumber
  <2>1. PICK n \in Numbers : EncodeField(F(n.tag, int32ToAscii(n.number)))
    BY <1>4 DEF EncodeNumber
  <2>2. n.tag \in Nat /\ n.number \in Int
    BY EncoderAssumption
  <2>3. int32ToAscii(n.number) \in Seq(Byte)
    <3>1. /\ Decimal(n.number) \in Seq(Byte) /\ Decimal(-n.number) \in Seq(Byte)
      BY <2>2, DecimalBytes
    <3>2. <<45>> \in Seq(Byte)
      BY DEF Byte
    <3>3. <<45>> \o Decimal(-n.number) \in Seq(Byte)
      BY <3>1, <3>2, BytesJoined
    <3> QED BY <3>1, <3>3 DEF int32ToAscii
  <2>4. F(n.tag, int32ToAscii(n.number)) \in WireField
    BY <2>2, <2>3 DEF F, WireField
  <2> QED BY <1>2, <2>1, <2>4, RoomAssumption
<1>5. CASE EncodeData
  <2>1. PICK d \in Payloads :
            EncodeFields(<<F(d.lengthTag, Decimal(Len(d.value))), F(d.tag, d.value)>>,
                         FieldBytes(F(d.lengthTag, Decimal(Len(d.value))))
                         \o FieldBytes(F(d.tag, d.value)))
    BY <1>5 DEF EncodeData
  <2> DEFINE f == F(d.lengthTag, Decimal(Len(d.value)))
             g == F(d.tag, d.value)
             fields == <<f, g>>
  <2>2. f \in WireField /\ g \in WireField /\ Fits(f) /\ Fits(g)
    <3>1. d.lengthTag \in Nat /\ d.tag \in Nat /\ d.value \in Seq(Byte)
      BY EncoderAssumption
    <3>2. Len(d.value) \in Int
      BY <3>1
    <3>3. Decimal(Len(d.value)) \in Seq(Byte)
      BY <3>2, DecimalBytes
    <3> QED BY <3>1, <3>3, RoomAssumption DEF F, WireField
  <2>3. EncodeFields(fields, FieldBytes(f) \o FieldBytes(g))
    BY <2>1
  <2> HIDE DEF f, g
  <2>4. fields \in Seq(WireField) /\ FieldsBytes(fields) = FieldBytes(f) \o FieldBytes(g)
    BY <2>2, FieldsBytesTwo
  <2>5. Len(fields) = 2
    OBVIOUS
  <2>6. Len(FieldsBytes(fields)) <= Len(fields) * FieldRoom
    <3>1. FieldBytes(f) \in Seq(Byte) /\ FieldBytes(g) \in Seq(Byte)
      BY <2>2, FieldBytesType
    <3>2. Len(FieldBytes(f) \o FieldBytes(g)) = Len(FieldBytes(f)) + Len(FieldBytes(g))
          /\ Len(FieldBytes(f)) \in Nat /\ Len(FieldBytes(g)) \in Nat
      BY <3>1, BytesJoined
    <3>3. Len(FieldBytes(f)) <= FieldRoom /\ Len(FieldBytes(g)) <= FieldRoom
      BY <2>2 DEF Fits
    <3>4. Len(FieldBytes(f)) + Len(FieldBytes(g)) <= 2 * FieldRoom
      BY <1>1, <3>2, <3>3
    <3> HIDE DEF fields
    <3> QED BY <2>4, <2>5, <3>2, <3>4
  <2> HIDE DEF fields
  <2>7. Len(fields) \in 1 .. 2
    BY <2>5
  <2>8. EncodeFields(fields, FieldsBytes(fields))
    BY <2>3, <2>4
  <2> QED BY <2>4, <2>6, <2>7, <2>8, EncodeFieldsPacked
<1> QED BY <1>3, <1>4, <1>5

\* encode() completes the message: its codes, and the checksum of what is then there.
LEMMA EncodePacked == ASSUME PackedInv, Encode PROVE PackedInv'
<1> DEFINE x      == FieldsBytes(asked)
           length == headerLength + encodedLength
           typed  == Write(out, mOffset + messageTypeOffset, <<type>>)
           headed == Write(typed, mOffset + bodyLengthOffset,
                           Padded(headerBodyLength + encodedLength, BodyLengthDigits))
           sum    == CheckSumOf(Slice(headed, mOffset, mOffset + length))
           trailer == FieldBytes(F(CheckSumTag, Padded(sum, 3)))
           digits == Digits(encodedLength)
           head   == HeaderOf(digits, <<type>>)
           whole  == head \o x
           m      == [type |-> type, fields |-> asked]
<1>1. /\ phase = "body" /\ phase' = "idle"
      /\ out' = Write(headed, mOffset + length, trailer)
      /\ end' = mOffset + length + Len(trailer)
      /\ sent' = Append(sent, m) /\ type' = type
  BY DEF Encode
<1>2. /\ end + Room <= Size /\ Holds(out, end, Prefix) /\ mOffset = end
      /\ type \in Types /\ asked \in Seq(WireField) /\ encodedLength = Len(x)
      /\ Holds(out, end + headerLength, x)
      /\ RoomLeft(encodedLength, Len(asked)) /\ sent \in Seq(Message) /\ Holds(out, 0, Packed(sent))
  BY <1>1 DEF PackedInv
<1>3. /\ Packed(sent) \in Seq(Byte) /\ out \in Buffer /\ end \in Nat /\ Size \in Nat
      /\ 0 + Len(Packed(sent)) = end /\ end <= Size /\ Room \in Nat /\ headerLength \in Nat
  BY PackedType
<1>4. encodedLength \in Nat /\ headerLength + encodedLength + 7 <= Room
  BY <1>2, RoomForBody
<1>5. type \in Byte /\ m \in Message
  BY <1>2, EncoderAssumption DEF Message
<1>6. /\ digits \in Seq(Byte) /\ Len(digits) = Len(Zeros(4))
      /\ x \in Seq(Byte) /\ whole \in Seq(Byte) /\ Len(whole) = length
      /\ FieldsBytes(Reference(m)) = whole \o TrailerOf(whole)
  BY <1>2, <1>5, EncodedBytes
<1>7. headed = Write(Write(out, end + messageTypeOffset, <<type>>), end + bodyLengthOffset, digits)
  BY <1>2 DEF Digits, BodyLengthDigits
<1> HIDE DEF typed, headed, digits
<1>8. /\ headed \in Buffer /\ Holds(headed, end, head)
      /\ \A p \in Nat, s \in Seq(Byte) :
             /\ Holds(out, p, s) /\ p + Len(s) <= Size
             /\ p >= end + headerLength \/ p + Len(s) <= end
             => Holds(headed, p, s)
  <2>1. end + headerLength <= Size
    BY <1>2, <1>3, <1>4
  <2> QED BY <1>2, <1>3, <1>5, <1>6, <1>7, <2>1, CodesWritten
<1>9. Holds(headed, end + headerLength, x)
  <2> DEFINE h == end + headerLength
  <2>1. h \in Nat /\ h + Len(x) <= Size /\ h >= end + headerLength
    <3>1. h + encodedLength <= Size
      BY <1>2, <1>3, <1>4
    <3> HIDE DEF x
    <3> QED BY <1>2, <1>3, <3>1
  <2>2. x \in Seq(Byte) /\ Holds(out, h, x)
    BY <1>2, <1>6
  <2> HIDE DEF h, x
  <2> QED BY <1>8, <2>1, <2>2 DEF h
<1>10. Holds(headed, 0, Packed(sent))
  <2> DEFINE s == Packed(sent)
  <2>1. s \in Seq(Byte) /\ 0 + Len(s) <= Size /\ 0 + Len(s) <= end /\ Holds(out, 0, s)
    BY <1>2, <1>3
  <2> HIDE DEF s
  <2> QED BY <1>8, <2>1 DEF s
<1>11. head \in Seq(Byte) /\ Len(head) = headerLength
  <2> DEFINE c == <<type>>
             n == Len(BeginString)
             i == Len(digits)
             j == Len(c)
             q == Len(FieldBytes(F(49, Sender)))
             r == Len(FieldBytes(F(56, Target)))
  <2>1. c \in Seq(Byte) /\ j = 1
    BY <1>5
  <2>2. i = 4
    BY <1>6, HeaderSizes
  <2>3. head = HeaderOf(digits, c)
    OBVIOUS
  <2> HIDE DEF c, head
  <2>4. HeaderOf(digits, c) \in Seq(Byte) /\ Len(HeaderOf(digits, c)) = n + i + j + 10 + q + r
        /\ n \in Nat /\ q \in Nat /\ r \in Nat
    BY <1>6, <2>1, HeaderHeld, ZenonT(40)
  <2>5. headerLength = n + 15 + q + r
    BY HeaderSizes
  <2> HIDE DEF n, i, j, q, r
  <2>6. Len(HeaderOf(digits, c)) = headerLength
    BY <2>1, <2>2, <2>4, <2>5
  <2> QED BY <2>3, <2>4, <2>6
<1>12. Holds(headed, end, whole)
  <2>1. end + Len(head) = end + headerLength
    BY <1>11
  <2> HIDE DEF head, x
  <2> QED BY <1>3, <1>6, <1>8, <1>9, <1>11, <2>1, HoldsJoined
<1> HIDE DEF head, whole, x, length
<1>13. length \in Nat /\ end + length + 7 <= Size
  BY <1>2, <1>3, <1>4 DEF length
<1>14. sum = SumOf(whole) % 256
  <2>1. end + Len(whole) <= Size
    BY <1>3, <1>6, <1>13
  <2>2. SubSeq(headed, end + 1, end + Len(whole)) = whole
    BY <1>3, <1>6, <1>8, <1>12, <2>1, HeldPart
  <2>3. Slice(headed, mOffset, mOffset + length) = whole
    BY <1>2, <1>6, <2>2 DEF Slice
  <2>4. whole \in Seq(Int)
    BY <1>6, BytesAreIntegers
  <2> QED BY <2>3, <2>4, CheckSumIsSum
<1> HIDE DEF sum
<1>15. /\ trailer = TrailerOf(whole)
       /\ trailer \in Seq(Byte) /\ Len(trailer) = 7
  <2>1. SumOf(whole) \in Int
    BY <1>6, BytesAreIntegers, SumOfType
  <2> DEFINE v == Padded(sum, 3)
             k == Len(Decimal(10))
             y == Len(v)
  <2>2. v \in Seq(Byte) /\ y = 3
    <3>1. sum \in Int /\ 3 \in 0 .. MaxNumberLength /\ 3 \in Nat
      BY <1>14, <2>1 DEF MaxNumberLength
    <3> QED BY <3>1, PaddedBytes, PaddedSequence
  <2>3. trailer = FieldBytes(F(10, v))
    BY DEF CheckSumTag
  <2> HIDE DEF v
  <2>4. FieldBytes(F(10, v)) \in Seq(Byte) /\ Len(FieldBytes(F(10, v))) = k + y + 2
    BY <2>2, FieldLength
  <2>5. k = 2
    BY TagWidths
  <2> HIDE DEF k, y, trailer
  <2>6. Len(FieldBytes(F(10, v))) = 7
    BY <2>2, <2>4, <2>5
  <2> QED BY <1>14, <2>3, <2>4, <2>6 DEF v, TrailerOf
<1> DEFINE bytes == FieldsBytes(Reference(m))
           at == end + length
<1> HIDE DEF trailer
<1>16. bytes = whole \o trailer /\ bytes \in Seq(Byte) /\ Len(bytes) = length + 7
  <2>1. bytes = whole \o trailer
    BY <1>6, <1>15
  <2>2. whole \o trailer \in Seq(Byte) /\ Len(whole \o trailer) = Len(whole) + Len(trailer)
    <3>1. whole \in Seq(Byte) /\ trailer \in Seq(Byte)
      BY <1>6, <1>15
    <3> QED BY <3>1, BytesJoined
  <2> HIDE DEF bytes
  <2> QED BY <1>6, <1>15, <2>1, <2>2
<1> HIDE DEF bytes, m
<1>17. at \in Nat /\ at + Len(trailer) <= Size /\ out' = Write(headed, at, trailer) /\ end' = at + 7
  <2>1. at \in Nat
    BY <1>3, <1>13
  <2>2. mOffset + length = at
    BY <1>2
  <2> HIDE DEF at
  <2>3. out' = Write(headed, at, trailer) /\ end' = at + 7
    BY <1>1, <1>15, <2>2
  <2>4. at + 7 <= Size
    BY <1>13 DEF at
  <2> QED BY <1>15, <2>1, <2>3, <2>4
<1>18. out' \in Buffer /\ Holds(out', at, trailer)
  <2> HIDE DEF at
  <2> QED BY <1>8, <1>15, <1>17, WriteHolds
<1>19. Holds(out', end, whole)
  <2>1. end + Len(whole) <= Size /\ at >= end + Len(whole)
    BY <1>3, <1>6, <1>13
  <2> HIDE DEF at
  <2> QED BY <1>3, <1>6, <1>8, <1>12, <1>15, <1>17, <2>1, WriteKeeps
<1>20. Holds(out', 0, Packed(sent))
  <2> DEFINE s == Packed(sent)
  <2>1. s \in Seq(Byte) /\ 0 + Len(s) <= Size /\ at >= 0 + Len(s) /\ Holds(headed, 0, s)
    BY <1>3, <1>10, <1>13
  <2> HIDE DEF s, at
  <2> QED BY <1>8, <1>15, <1>17, <2>1, WriteKeeps DEF s
<1>21. Holds(out', end, bytes)
  <2>1. end + Len(whole) = at
    BY <1>6
  <2> HIDE DEF at
  <2> QED BY <1>3, <1>6, <1>15, <1>16, <1>18, <1>19, <2>1, HoldsJoined
<1>22. Holds(out', 0, Packed(sent) \o bytes)
  <2> DEFINE s == Packed(sent)
  <2>1. s \in Seq(Byte) /\ 0 + Len(s) = end /\ Holds(out', 0, s)
    BY <1>3, <1>20
  <2> HIDE DEF s
  <2> QED BY <1>16, <1>21, <2>1, HoldsJoined DEF s
<1>23. Packed(sent') = Packed(sent) \o bytes /\ sent' \in Seq(Message)
  BY <1>1, <1>2, <1>5, PackedAppend, AppendProperties DEF bytes
<1>24. Len(Packed(sent')) = end'
  <2>1. Len(Packed(sent) \o bytes) = Len(Packed(sent)) + Len(bytes) /\ Len(Packed(sent)) \in Nat
    BY <1>3, <1>16, BytesJoined
  <2>2. Len(Packed(sent)) = end
    BY <1>3, <2>1
  <2> QED BY <1>3, <1>13, <1>16, <1>17, <1>23, <2>1, <2>2
<1>25. end' \in 0 .. Size
  BY <1>3, <1>13, <1>17
<1> QED BY <1>1, <1>2, <1>18, <1>22, <1>23, <1>24, <1>25 DEF PackedInv

LEMMA FlushPacked == ASSUME PackedInv, Flush PROVE PackedInv'
<1>1. phase' = "idle" /\ end' = 0 /\ sent' = <<>> /\ out' = out /\ type' = type
  BY DEF Flush
<1>2. Packed(sent') = <<>>
  BY <1>1, PackedNone
<1>3. Len(Packed(sent')) = 0 /\ Holds(out', 0, Packed(sent'))
  BY <1>2 DEF Holds
<1>4. sent' \in Seq(Message) /\ Size \in Nat
  BY <1>1, EncoderAssumption
<1> QED BY <1>1, <1>3, <1>4 DEF PackedInv

\* At every moment the buffer holds the complete messages from its front on and, behind
\* them, what has been built of the next (PayloadEncoder.hpp:83-92, 145-176).
THEOREM PackedInvHolds == Spec => []PackedInv
<1>1. PackedInv /\ [Next]_vars => PackedInv'
  <2> SUFFICES ASSUME PackedInv, [Next]_vars PROVE PackedInv'
    OBVIOUS
  <2>1. CASE UNCHANGED vars
    BY <2>1 DEF vars, PackedInv
  <2>2. CASE Next
    BY <2>2, WrapPacked, WrapMessagePacked, WrapHeaderPacked, SetterPacked, EncodePacked, FlushPacked DEF Next
  <2> QED BY <2>1, <2>2
<1> QED BY <1>1, InitPacked, PTL DEF Spec

\* The messages in the buffer are those the application encoded, each with the length
\* and the checksum of its fields, whatever is wrapped, set or given up behind them and
\* whatever the buffer held before (PayloadEncoder.hpp:83-92, 145-176).
THEOREM AlwaysPacked == Spec => []PackedExact
<1>1. PackedInv => PackedExact
  <2> SUFFICES ASSUME PackedInv PROVE PackedExact
    OBVIOUS
  <2> DEFINE s == Packed(sent)
  <2>1. /\ s \in Seq(Byte) /\ out \in Buffer /\ 0 + Len(s) = end /\ end <= Size /\ Holds(out, 0, s)
        /\ end \in Nat
    BY PackedType DEF PackedInv
  <2> HIDE DEF s
  <2>2. SubSeq(out, 0 + 1, 0 + Len(s)) = s
    BY <2>1, HeldPart
  <2>3. SubSeq(out, 1, end) = s
    BY <2>1, <2>2
  <2> QED BY <2>3 DEF PackedExact, Packed, s
<1> QED BY <1>1, PackedInvHolds, PTL

\* Every write of a body stays in the buffer, behind its own header, as long as the
\* application leaves room for what it sets (FieldEncoder.hpp:114-119).
THEOREM AlwaysTyped == Spec => []TypeOK
<1>1. PackedInv => TypeOK
  <2> SUFFICES ASSUME PackedInv PROVE TypeOK
    OBVIOUS
  <2>1. /\ out \in [1 .. Size -> Byte] /\ phase \in {"idle", "wrapped", "body"}
        /\ type \in Types \union {Unknown} /\ end \in 0 .. Size
    BY DEF PackedInv, Buffer
  <2>2. ASSUME phase = "body"
        PROVE  fieldOffset = mOffset + headerLength /\ fieldOffset + encodedLength <= Size
    <3>1. /\ fieldOffset = mOffset + headerLength /\ mOffset = end /\ end + Room <= Size
          /\ RoomLeft(encodedLength, Len(asked))
      BY <2>2 DEF PackedInv
    <3>2. encodedLength \in Nat /\ headerLength + encodedLength + 7 <= Room
      BY <3>1, RoomForBody
    <3>3. end \in Nat /\ headerLength \in Nat /\ Room \in Nat /\ Size \in Nat
      BY PackedType
    <3> QED BY <3>1, <3>2, <3>3
  <2> QED BY <2>1, <2>2 DEF TypeOK
<1> QED BY <1>1, PackedInvHolds, PTL
=============================================================================
