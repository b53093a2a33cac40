-------------------------------- MODULE Wire --------------------------------
(***************************************************************************)
(* FIX messages as bytes.  A byte is its ASCII code, a buffer a sequence of *)
(* bytes read at zero-based positions, as the code does.  A message body is *)
(* a sequence of fields [tag, value], to which AllFields adds BeginString, *)
(* BodyLength and CheckSum, the way a counterparty sends it.               *)
(*                                                                         *)
(* RefTokens is the reference tokenization: what a decoder must report for *)
(* a framed message, computed from its fields and never from its bytes.    *)
(***************************************************************************)
EXTENDS Integers, Sequences, SequencesExt

FieldEnd == 1
TagEnd   == 61
Zero     == 48

BeginStringTag == 8
BodyLengthTag  == 9
CheckSumTag    == 10
MessageTypeTag == 35

Byte   == 0 .. 255
Uint16 == 0 .. 65535

\* The byte at zero-based position i, and the bytes of [from, to).
At(bytes, i)          == bytes[i + 1]
Slice(bytes, from, to) == SubSeq(bytes, from + 1, to)

IsDigitByte(b) == b \in Zero .. Zero + 9

\* Mutant: signed arithmetic kept where the code casts.
CastMissing(n) == n

\* Every uint16_t cast of the decoder.
Cast16(n) == n % 65536

-----------------------------------------------------------------------------
(***************************************************************************)
(* ASCII conversions (utils/Conversions.hpp).                              *)
(***************************************************************************)

\* Longer numbers overflow TLC's integers.
MaxNumberLength == 8

\* The digit loop over up to eight bytes: the i-th byte from the right, less '0' also
\* when it is no digit, at its weight.
Weight == <<1, 10, 100, 1000, 10000, 100000, 1000000, 10000000>>
Weighted(s, i) ==
    IF i <= Len(s) THEN (s[Len(s) + 1 - i] - Zero) * Weight[i] ELSE 0

asciiToUint64(s) ==
    Weighted(s, 1) + Weighted(s, 2) + Weighted(s, 3) + Weighted(s, 4)
  + Weighted(s, 5) + Weighted(s, 6) + Weighted(s, 7) + Weighted(s, 8)

\* The digit loop over any number of bytes, in integers of `range` values.  Ten times a
\* number is taken in two steps to stay within TLC's integers.
Appended(n, b, range) == (2 * ((5 * n) % range) + b - Zero) % range
LoopNumber(s, range) ==
    LET loop[i \in 0 .. Len(s)] == IF i = 0 THEN 0 ELSE Appended(loop[i - 1], s[i], range)
    IN  loop[Len(s)]

Zeros(n) == [i \in 1 .. n |-> Zero]

\* Up to eight bytes loaded at once, with zeros in front, less eight zeros: a byte less
\* than a zero borrows from the one behind it, through bytes that are zeros.
Borrows(word, i) ==
    \E j \in 1 .. i - 1 : word[j] < Zero /\ \A k \in j + 1 .. i - 1 : word[k] = Zero
Lanes(word) ==
    [i \in 1 .. 8 |-> (word[i] - Zero - IF Borrows(word, i) THEN 1 ELSE 0) % 256]

\* Every lane gets ten times itself, the one behind it and what the one in front of it
\* carries; the first of each pair is weighted by the pair's place.
SwarNumber(s) ==
    LET lanes  == Lanes(Zeros(8 - Len(s)) \o s)
        ten    == [i \in 1 .. 7 |-> 10 * lanes[i] + lanes[i + 1]]
        sum1 == ten[1]
        sum2 == ten[2] + sum1 \div 256
        sum3 == ten[3] + sum2 \div 256
        sum4 == ten[4] + sum3 \div 256
        sum5 == ten[5] + sum4 \div 256
        sum6 == ten[6] + sum5 \div 256
        sum7 == ten[7] + sum6 \div 256
    IN  1000000 * (sum1 % 256) + 10000 * (sum3 % 256) + 100 * (sum5 % 256) + (sum7 % 256)

\* value * 10^Len(s) + the number s, as a uint16_t: how a tag split over two
\* loads is joined.  The weight is reduced first to stay within TLC's integers.
Joined(value, s) ==
    Cast16(value * (IF Len(s) = 0 THEN 1 ELSE Cast16(10 * Weight[Len(s)]))
           + asciiToUint64(s))

\* The sum of the first i elements of s, for every i; the last one sums them all.
PartialSums(s) ==
    LET sum[i \in 0 .. Len(s)] == IF i = 0 THEN 0 ELSE sum[i - 1] + s[i]
    IN  sum
SumOf(s) == PartialSums(s)[Len(s)]

\* n in decimal, w digits wide; and without leading zeros.
Padded(n, w) == [i \in 1 .. w |-> Zero + ((n \div Weight[w + 1 - i]) % 10)]
Decimal(n)   ==
    Padded(n, CHOOSE w \in 1 .. MaxNumberLength :
                  /\ w = MaxNumberLength \/ n < 10 * Weight[w]
                  /\ w = 1 \/ n >= Weight[w])

-----------------------------------------------------------------------------
(***************************************************************************)
(* Framed messages.  `begin` is the BeginString code ("FIXT.1.1").         *)
(***************************************************************************)
FieldBytes(f) == Decimal(f.tag) \o <<TagEnd>> \o f.value \o <<FieldEnd>>
FieldsBytes(fs) == FlattenSeq([i \in DOMAIN fs |-> FieldBytes(fs[i])])

\* All the fields of the message, the CheckSum last; `length` is BodyLength's code.
FieldsWithLength(begin, length, body) ==
    LET fs == << [tag |-> BeginStringTag, value |-> begin],
                 [tag |-> BodyLengthTag, value |-> length] >> \o body
    IN  Append(fs, [tag |-> CheckSumTag, value |-> Padded(SumOf(FieldsBytes(fs)) % 256, 3)])

BodySize(body) == Len(FieldsBytes(body))

\* As a counterparty sends it, and as the library's own encoder does.
AllFields(begin, body)    == FieldsWithLength(begin, Decimal(BodySize(body)), body)
PaddedFields(begin, body) == FieldsWithLength(begin, Padded(BodySize(body), 4), body)

\* The zero-based position where the value of field i starts.
ValuePosition(fs, i) ==
    Len(FieldsBytes(SubSeq(fs, 1, i - 1))) + Len(Decimal(fs[i].tag)) + 1

RefTokens(fs) ==
    [i \in DOMAIN fs |-> [tag |-> fs[i].tag,
                          position |-> ValuePosition(fs, i),
                          length |-> Len(fs[i].value)]]

-----------------------------------------------------------------------------
\* What the frame of a message says about its bytes, given the tokens of its CheckSum,
\* its BodyLength and its MsgType: the CheckSum's three characters are the sum of every
\* byte before its field; and of a message of which `processed` bytes are to be
\* consumed, BodyLength is the distance between its own field and the CheckSum's, if it
\* is written as a number of up to eight digits.  What else may stand there is converted
\* without a look at its bytes: "/:5" is 25604.
CheckSumRight(bytes, check) ==
    /\ check.position \in 4 .. Cast16(Len(bytes)) - 4
    /\ asciiToUint64(Slice(bytes, check.position, check.position + 3))
           = SumOf(Slice(bytes, 0, check.position - 3)) % 256
Framed(bytes, processed, check, body, type) ==
    /\ processed = check.position + check.length + 1
    /\ body.tag = BodyLengthTag
    /\ type.tag = MessageTypeTag
    /\ LET text == Slice(bytes, body.position, body.position + body.length)
       IN  Len(text) <= 8 /\ (\A i \in DOMAIN text : IsDigitByte(text[i])) =>
               asciiToUint64(text) = check.position - body.position - body.length - 4
VerdictSound(bytes, processed, check, body, type) ==
    /\ CheckSumRight(bytes, check)
    /\ processed > 0 => Framed(bytes, processed, check, body, type)
=============================================================================
