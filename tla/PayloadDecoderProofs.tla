------------------------ MODULE PayloadDecoderProofs ------------------------
(***************************************************************************)
(* Proofs about the payload decoder for every buffer, whatever its bytes    *)
(* are, and every size of the token arrays.                                *)
(*                                                                         *)
(* ReadsInBuffer is not inductive alone.  How far a skip over a data        *)
(* payload moves the scan is computed from the position, the length and    *)
(* the digits of the token just closed, and a token is closed with what an *)
(* earlier step, or an earlier parse, left in its slot: the invariant also *)
(* says that the last slot exists and what positions and lengths the slots *)
(* hold (ScanInv).  Nothing is assumed about the tags.                     *)
(*                                                                         *)
(* SumExact needs the scan to stay in the part of the buffer that its      *)
(* 16-bit length covers (InLength).  AnswerSound needs the verdict to be    *)
(* kept while tokens made from payload bytes are dropped: the CheckSum's   *)
(* token is never one of them, because a '=' stands before its value and a *)
(* SOH at the end of the payload (Justified).  With both, and the bounds   *)
(* of the scan, every member keeps its type, and the array of tokens that  *)
(* a step of the scan looks at is never empty (TypeInv).                   *)
(***************************************************************************)
EXTENDS PayloadChecks, WireProofs

HasExtent(f) == {"position", "length"} \subseteq DOMAIN f /\ f.position \in Uint16 /\ f.length \in Uint16
Extents(fields) == DOMAIN fields = Slot /\ \A i \in Slot : HasExtent(fields[i])

InWordOnly(k) == k \in WordLane /\ k < Remaining
WalkInWord ==
    /\ walk.position \in Nat
    /\ \A k \in walk.tagEnds : InWordOnly(k)
    /\ walk.fieldEnds \subseteq WordLane
    /\ walk.fieldEnd \in 0 .. WordSize

InBlocks  == pc \in {"block", "tags"} => offset + BlockSize <= Len(buffer)
InTrailer == pc \in {"trailer", "walk"} => offset < Len(buffer)
DropSlots == pc = "drop" => index > MessageTypePosition

ScanInv ==
    /\ buffer \in Seq(Byte)
    /\ offset \in Nat
    /\ mPosition \in Int
    /\ mCount \in 0 .. Capacity
    /\ pc # "idle" => mCount > 0
    /\ index \in Nat
    /\ lanes \subseteq Lane
    /\ Extents(mFields)
    /\ pc = "walk" => WalkInWord
    /\ InBlocks /\ InTrailer /\ DropSlots

\* A call of parse() with any bytes, whoever the caller is.
Called == \E b \in Seq(Byte) : Parse(b)

LEMMA CallsHaveBytes == Call => Called
BY DecoderAssumption DEF Call, Called

-----------------------------------------------------------------------------
(***************************************************************************)
(* The operators the steps are built from.                                 *)
(***************************************************************************)
LEMMA UintIsNat == \A n \in Uint16 : n \in Nat
<1>1. Uint16 \subseteq Nat
  BY SMT DEF Uint16
<1> QED BY <1>1

LEMMA Remainders == ASSUME NEW n \in Int, NEW m \in Nat \ {0} PROVE n % m \in 0 .. m - 1
  OBVIOUS

\* A cast to uint16_t never makes a number larger.
LEMMA CastType ==
    ASSUME NEW n \in Int
    PROVE  Cast16(n) \in Uint16 /\ (n >= 0 => Cast16(n) <= n)
<1>1. Cast16(n) \in Uint16
  <2>1. 65536 \in Nat \ {0} /\ 65536 - 1 = 65535
    BY SMT
  <2>2. PICK m \in Nat \ {0} : m = 65536 /\ m - 1 = 65535
    BY <2>1, SMT
  <2>3. n % m \in 0 .. m - 1
    BY Remainders, SMT
  <2>4. Cast16(n) = n % m /\ Uint16 = 0 .. m - 1
    BY <2>2, SMT DEF Cast16, Uint16
  <2> QED BY <2>3, <2>4, SMT
<1>2. n >= 0 => Cast16(n) <= n
  BY DEF Cast16
<1> QED BY <1>1, <1>2

LEMMA SlotFacts == 0 \in Slot /\ \A n \in 0 .. Capacity : (n < Capacity => n \in Slot) /\ (n > 0 => n - 1 \in Slot)
BY DecoderAssumption DEF Slot

LEMMA LengthType ==
    ASSUME buffer \in Seq(Byte)
    PROVE  Length \in Nat /\ Length <= Len(buffer)
<1>1. Len(buffer) \in Int /\ Len(buffer) >= 0
  OBVIOUS
<1>2. Cast16(Len(buffer)) \in Uint16 /\ Cast16(Len(buffer)) <= Len(buffer)
  BY <1>1, CastType
<1>3. \A k \in Uint16 : k \in Nat
  BY UintIsNat
<1> QED BY <1>2, <1>3 DEF Length

\* The last slot exists, and where its token lies is a pair of numbers.
LEMMA ExtentType ==
    ASSUME NEW f, HasExtent(f)
    PROVE  f.position \in Nat /\ f.length \in Nat
<1>1. \A k \in Uint16 : k \in Nat
  BY UintIsNat
<1>2. f.position \in Uint16 /\ f.length \in Uint16
  BY DEF HasExtent
<1> QED BY <1>1, <1>2

LEMMA LastType ==
    ASSUME mCount \in 0 .. Capacity, mCount > 0, NEW fields, Extents(fields)
    PROVE  last \in Slot /\ fields[last].position \in Nat /\ fields[last].length \in Nat
<1>1. last \in Slot
  BY SlotFacts DEF last
<1> QED BY <1>1, ExtentType DEF Extents

\* Closing a token, clearing its tag, and a new token in a slot.
LEMMA LengthSet ==
    ASSUME NEW fields, Extents(fields), NEW i \in Slot, NEW n \in Uint16
    PROVE  Extents([fields EXCEPT ![i].length = n])
BY DEF Extents, HasExtent

LEMMA TagSet ==
    ASSUME NEW fields, Extents(fields), NEW i \in Slot, NEW tag
    PROVE  Extents([fields EXCEPT ![i].tag = tag])
BY DEF Extents, HasExtent

LEMMA TokenPut ==
    ASSUME NEW fields, Extents(fields), NEW i \in Slot, NEW tag,
           NEW position \in Uint16, NEW length \in Uint16
    PROVE  Extents(Put(fields, i, tag, position, length))
BY DEF Extents, HasExtent, Put

\* The byte at a position, and the number in a slice, are integers whatever the
\* bytes are.
LEMMA DigitType ==
    ASSUME NEW s \in Seq(Byte), NEW i \in 1 .. 8
    PROVE  Weighted(s, i) \in Int
<1>1. Len(s) \in Nat
  OBVIOUS
<1>2. CASE i <= Len(s)
  <2> DEFINE k == Len(s) + 1 - i
             x == s[k]
  <2>1. k \in 1 .. Len(s)
    BY <1>1, <1>2
  <2>2. x \in Byte
    <3> HIDE DEF k
    <3> QED BY <2>1
  <2>3. Weight[i] \in Int
    BY DEF Weight
  <2>4. (x - Zero) * Weight[i] \in Int
    <3> HIDE DEF x
    <3>1. x - Zero \in Int
      BY <2>2 DEF Byte, Zero
    <3> QED BY <2>3, <3>1
  <2> QED BY <1>2, <2>4 DEF Weighted
<1>3. CASE ~(i <= Len(s))
  BY <1>3 DEF Weighted
<1> QED BY <1>2, <1>3

LEMMA NumberType ==
    ASSUME buffer \in Seq(Byte), NEW from \in Nat, NEW to \in Nat, to <= Len(buffer)
    PROVE  asciiToUint64(Slice(buffer, from, to)) \in Int
<1> DEFINE s == Slice(buffer, from, to)
<1>1. s \in Seq(Byte)
  <2>1. SubSeq(buffer, from + 1, to) \in Seq(Byte)
    OBVIOUS
  <2> QED BY <2>1 DEF Slice
<1> HIDE DEF s
<1>2. asciiToUint64(s) \in Int
  <2>1. \A i \in 1 .. 8 : Weighted(s, i) \in Int
    BY <1>1, DigitType
  <2>2. /\ Weighted(s, 1) \in Int /\ Weighted(s, 2) \in Int /\ Weighted(s, 3) \in Int
        /\ Weighted(s, 4) \in Int /\ Weighted(s, 5) \in Int /\ Weighted(s, 6) \in Int
        /\ Weighted(s, 7) \in Int /\ Weighted(s, 8) \in Int
    BY <2>1
  <2>3. \A a, b \in Int : a + b \in Int
    OBVIOUS
  <2>4. Weighted(s, 1) + Weighted(s, 2) + Weighted(s, 3) + Weighted(s, 4) \in Int
    BY <2>2, <2>3, Zenon
  <2>5. \A n \in Int : n + Weighted(s, 5) + Weighted(s, 6) + Weighted(s, 7) + Weighted(s, 8) \in Int
    BY <2>2, <2>3, Zenon
  <2> QED BY <2>4, <2>5, Zenon DEF asciiToUint64
<1> QED BY <1>2 DEF s

\* A token in the buffer is a text of its length, and its number an integer whatever
\* its bytes are; up to eight digits are the same number however they are converted.
LEMMA TokenText ==
    ASSUME buffer \in Seq(Byte), NEW position \in Nat, NEW length \in Nat,
           position + length <= Len(buffer)
    PROVE  IsText(Slice(buffer, position, position + length), length)
BY TextSlice DEF Slice, IsText

LEMMA TokenNumberType ==
    ASSUME buffer \in Seq(Byte), NEW f, f.position \in Nat, f.length \in Nat,
           f.position + f.length <= Len(buffer), NEW end
    PROVE  NumberAt(f, end) \in Int
<1> DEFINE text == Slice(buffer, f.position, f.position + f.length)
<1>1. IsText(text, f.length)
  BY TokenText
<1>2. asciiToUint64(text) \in Int
  <2>1. f.position + f.length \in Nat
    OBVIOUS
  <2> QED BY <2>1, NumberType
<1>3. NumberAt(f, end) = IF f.length > WordSize THEN LongNumber(text)
                         ELSE IF f.position + WordSize <= end THEN SwarNumber(text)
                         ELSE asciiToUint64(text)
  BY DEF NumberAt
<1> HIDE DEF text
<1>4. LongNumber(text) \in Int
  <2>1. Uint64 \in Nat \ {0}
    BY DecoderAssumption
  <2>2. text \in Seq(Int)
    <3>1. \A x \in Byte : x \in Int
      BY DEF Byte
    <3>2. text \in Seq(Byte)
      BY <1>1 DEF IsText
    <3> QED BY <3>1, <3>2
  <2> DEFINE number == LoopNumber(text, Uint64)
  <2>3. number \in Int
    BY <2>1, <2>2, LoopNumberType
  <2>4. LongNumber(text) = IF 2 * number >= Uint64 THEN number - Uint64 ELSE number
    BY DEF LongNumber
  <2> HIDE DEF number
  <2>5. number - Uint64 \in Int
    BY <2>1, <2>3
  <2> QED BY <2>3, <2>4, <2>5
<1>5. f.length <= WordSize => SwarNumber(text) \in Int
  <2>1. SUFFICES ASSUME f.length <= WordSize PROVE SwarNumber(text) \in Int
    OBVIOUS
  <2>2. f.length \in 0 .. 8
    BY <2>1 DEF WordSize
  <2>3. SwarNumber(text) \in Nat
    BY <1>1, <2>2, SwarType
  <2> QED BY <2>3
<1>6. f.length > WordSize \/ f.length <= WordSize
  BY DEF WordSize
<1> QED BY <1>2, <1>3, <1>4, <1>5, <1>6

LEMMA NumberOfDigits ==
    ASSUME buffer \in Seq(Byte), NEW f, f.position \in Nat, f.length \in Nat,
           f.position + f.length <= Len(buffer), NEW end,
           NEW text, text = Slice(buffer, f.position, f.position + f.length),
           Len(text) <= 8, \A i \in DOMAIN text : IsDigitByte(text[i])
    PROVE  NumberAt(f, end) = asciiToUint64(text)
<1>1. IsText(text, f.length)
  BY TokenText
<1>2. f.length \in 0 .. 8 /\ ~(f.length > WordSize)
  BY <1>1 DEF IsText, WordSize
<1>3. \A i \in 1 .. f.length : IsDigitByte(text[i])
  BY <1>1 DEF IsText
<1>4. SwarNumber(text) = asciiToUint64(text)
  BY <1>1, <1>2, <1>3, SwarOfDigits
<1> QED BY <1>2, <1>4 DEF NumberAt

\* Where the scan goes next, it finds a whole block or at least a byte.
LEMMA ResumeInBuffer ==
    ASSUME buffer \in Seq(Byte), NEW from \in Nat, NEW complete
    PROVE  /\ Resume(from, complete) \in {"block", "trailer", "check"}
           /\ Resume(from, complete) = "block" => from + BlockSize <= Len(buffer)
           /\ Resume(from, complete) = "trailer" => from < Len(buffer)
<1>1. Length \in Nat /\ Length <= Len(buffer) /\ Len(buffer) \in Nat
  BY LengthType
<1>2. CASE ~complete /\ from + BlockSize - 1 < Length
  <2>1. from + BlockSize <= Len(buffer)
    BY <1>1, <1>2 DEF BlockSize
  <2> QED BY <1>2, <2>1 DEF Resume
<1>3. CASE ~(~complete /\ from + BlockSize - 1 < Length) /\ ~complete /\ from < Len(buffer)
  BY <1>3 DEF Resume
<1>4. CASE ~(~complete /\ from + BlockSize - 1 < Length) /\ ~(~complete /\ from < Len(buffer))
  BY <1>4 DEF Resume
<1> QED BY <1>2, <1>3, <1>4

\* The first lane found, or the word's size.
LEMMA FirstLaneType ==
    ASSUME NEW found, found \subseteq WordLane
    PROVE  /\ FirstLane(found) \in 0 .. WordSize
           /\ found # {} => FirstLane(found) \in found
<1>1. CASE found = {}
  BY <1>1 DEF FirstLane, WordSize
<1>2. CASE found # {}
  <2>1. found \in SUBSET Nat
    BY DEF WordLane, WordSize
  <2>2. Least(found) \in found
    BY <1>2, <2>1, LeastOfNat
  <2>3. FirstLane(found) = Least(found)
    BY <1>2 DEF FirstLane
  <2>4. found \subseteq 0 .. WordSize
    BY DEF WordLane, WordSize
  <2> QED BY <2>2, <2>3, <2>4
<1> QED BY <1>1, <1>2

\* The word is padded with zeros, so nothing is found behind the buffer's end.
LEMMA FoundInWord ==
    /\ FieldEnds \subseteq WordLane
    /\ \A k \in TagEnds : InWordOnly(k)
<1>1. FieldEnds \subseteq WordLane
  BY DEF FieldEnds, FindByte
<1>2. ASSUME NEW k \in TagEnds PROVE InWordOnly(k)
  <2>1. k \in WordLane /\ InWord(k) \in {TagEnd, TagEnd - 1}
    BY DEF TagEnds, FindByte, WordLane, WordSize
  <2>2. InWord(k) # 0
    BY <2>1 DEF TagEnd
  <2>3. CASE k < Remaining
    BY <2>1, <2>3, Zenon DEF InWordOnly
  <2>4. CASE ~(k < Remaining)
    BY <2>2, <2>4, Zenon DEF InWord
  <2> QED BY <2>3, <2>4
<1> QED BY <1>1, <1>2

\* The lanes of a block to tokenize are lanes.
LEMMA TagLanesType == TagLanes \subseteq Lane
<1>1. DigitFlags \subseteq Lane
  BY DEF DigitFlags
<1>2. After \subseteq DigitFlags /\ Before \subseteq DigitFlags
  BY DEF After, Before, Spread
<1> QED BY <1>1, <1>2 DEF TagLanes

-----------------------------------------------------------------------------
(***************************************************************************)
(* Every step keeps the invariant.                                         *)
(***************************************************************************)
LEMMA ExtentsNext ==
    ASSUME NEW fields, Extents(fields), mFields' = fields
    PROVE  Extents(mFields)'
BY DEF Extents, HasExtent

LEMMA InitScan == Init => ScanInv
<1>1. SUFFICES ASSUME Init PROVE ScanInv
  OBVIOUS
<1>2. HasExtent(EmptyField)
  BY DEF HasExtent, EmptyField, Uint16
<1>3. Extents(mFields)
  BY <1>1, <1>2 DEF Init, Extents
<1>4. buffer \in Seq(Byte) /\ offset \in Nat /\ mPosition \in Int /\ index \in Nat /\ lanes \subseteq Lane
  BY <1>1 DEF Init
<1>5. mCount \in 0 .. Capacity
  BY <1>1, DecoderAssumption DEF Init
<1> QED BY <1>1, <1>3, <1>4, <1>5 DEF Init, ScanInv, InBlocks, InTrailer, DropSlots

LEMMA ParseKeeps ==
    ASSUME ScanInv, NEW b \in Seq(Byte), Parse(b)
    PROVE  ScanInv'
<1>1. b \in Seq(Byte) /\ 0 \in 0 .. Capacity /\ 1 \in 0 .. Capacity
  BY DecoderAssumption
<1>2. Extents(mFields) /\ offset \in Nat /\ mPosition \in Int /\ index \in Nat /\ lanes \subseteq Lane
  BY DEF ScanInv
<1>3. CASE ParseShort(b) \/ ParseForeign(b)
  <2>1. Extents(mFields)'
    BY <1>2, <1>3, ExtentsNext DEF ParseShort, ParseForeign
  <2>2. pc' = "idle" /\ buffer' = b /\ mCount' = 0
    BY <1>3 DEF ParseShort, ParseForeign, ParseCall, Return
  <2>3. UNCHANGED <<offset, mPosition, index, lanes>>
    BY <1>3 DEF ParseShort, ParseForeign
  <2> QED BY <1>1, <1>2, <2>1, <2>2, <2>3 DEF ScanInv, InBlocks, InTrailer, DropSlots
<1>4. CASE ParseBegin(b)
  <2>1. Extents(Put(mFields, 0, BeginStringTag, 2, Len(ProtocolCode)))
    <3>1. 0 \in Slot
      BY SlotFacts
    <3>2. Len(ProtocolCode) \in Uint16
      BY DecoderAssumption
    <3>3. 2 \in Uint16
      BY DEF Uint16
    <3> QED BY <1>2, <3>1, <3>2, <3>3, TokenPut
  <2>2. Extents(mFields)'
    BY <1>4, <2>1, ExtentsNext DEF ParseBegin
  <2>3. buffer' \in Seq(Byte) /\ offset' = 0 /\ Len(buffer') \in Nat /\ Len(buffer') >= 32
    BY <1>1, <1>4 DEF ParseBegin, ParseCall, MessageFragmentLimit
  <2>4. Length' \in Uint16 /\ Length' <= Len(buffer')
    <3>1. Length' = Cast16(Len(buffer'))
      BY DEF Length
    <3> QED BY <2>3, <3>1, CastType
  <2>5. /\ pc' \in {"block", "trailer"}
        /\ pc' = "block" => offset' + BlockSize <= Len(buffer')
        /\ offset' < Len(buffer')
    <3>1. pc' = IF 0 + BlockSize - 1 < Length' THEN "block"
                ELSE IF 0 < Len(buffer') THEN "trailer" ELSE "check"
      BY <1>4 DEF ParseBegin, Resume
    <3>2. CASE 0 + BlockSize - 1 < Length'
      <4>1. pc' = "block"
        BY <3>1, <3>2
      <4>2. 16 <= Len(buffer')
        BY <2>3
      <4> QED BY <2>3, <4>1, <4>2 DEF BlockSize
    <3>3. CASE ~(0 + BlockSize - 1 < Length')
      BY <2>3, <3>1, <3>3
    <3> QED BY <3>2, <3>3
  <2>6. mCount' = 1 /\ UNCHANGED <<mPosition, lanes, index>>
    BY <1>4 DEF ParseBegin
  <2>7. InBlocks' /\ InTrailer' /\ DropSlots' /\ (pc' = "walk" => WalkInWord')
    BY <2>5 DEF InBlocks, InTrailer, DropSlots
  <2> QED BY <1>1, <1>2, <2>2, <2>3, <2>6, <2>7 DEF ScanInv
<1> QED BY <1>3, <1>4 DEF Parse

\* What a skip is computed from: the length's digits and the '=' of the data field.
LEMMA SkipNumbers ==
    ASSUME buffer \in Seq(Byte), NEW f, HasExtent(f), IsDataLength(f)
    PROVE  /\ NumberAt(f, Length) \in Int
           /\ FindTagEnd(f.position + f.length + 1) \in Int
<1> DEFINE from == f.position + f.length + 1
           ends == {p \in from .. Length - 1 : At(buffer, p) = TagEnd}
<1>1. Length \in Nat /\ Length <= Len(buffer)
  BY LengthType
<1>2. f.position \in Nat /\ f.length \in Nat
  BY ExtentType
<1>3. f.position + f.length \in Nat /\ f.position + f.length <= Len(buffer)
  BY <1>1, <1>2 DEF IsDataLength
<1>4. NumberAt(f, Length) \in Int
  BY <1>2, <1>3, TokenNumberType
<1>5. from \in Nat
  BY <1>2
<1>6. CASE ends # {}
  <2>1. ends \in SUBSET Nat
    BY <1>5
  <2>2. Least(ends) \in Nat
    <3> HIDE DEF ends
    <3> QED BY <1>6, <2>1, LeastOfNat
  <2> QED BY <1>4, <1>6, <2>2 DEF FindTagEnd
<1>7. CASE ends = {}
  BY <1>1, <1>4, <1>5, <1>7 DEF FindTagEnd
<1> QED BY <1>6, <1>7

\* A skip over a data payload ends at a position in the buffer, or at its end.
LEMMA SkipKeeps ==
    ASSUME ScanInv, pc \in {"block", "tags"},
           NEW fields, Extents(fields), IsDataLength(fields[last]), NEW sum,
           SkipPayload(fields, sum), UNCHANGED <<buffer, index>>
    PROVE  ScanInv'
<1> DEFINE field    == fields[last]
           number   == NumberAt(field, Length)
           size     == number % Uint32
           found    == FindTagEnd(field.position + field.length + 1)
           position == found + 1
           resume   == (position + size + 1) % Uint32
           skipEnd  == Lower(resume, Length)
<1>1. buffer \in Seq(Byte) /\ mCount \in 0 .. Capacity /\ mCount > 0 /\ index \in Nat
  BY DEF ScanInv
<1>2. Length \in Nat /\ Length <= Len(buffer)
  BY <1>1, LengthType
<1>3. HasExtent(field)
  BY <1>1, LastType DEF Extents
<1>5. size \in Int
  <2>1. number \in Int /\ Uint32 \in Nat \ {0}
    BY <1>1, <1>3, SkipNumbers, DecoderAssumption
  <2> HIDE DEF number
  <2> QED BY <2>1
<1>6. found \in Int
  BY <1>1, <1>3, SkipNumbers
<1>7. skipEnd \in Nat
  <2>1. resume \in Nat
    <3>1. Uint32 \in Nat \ {0}
      BY DecoderAssumption
    <3> HIDE DEF size, found
    <3>2. position + size + 1 \in Int
      BY <1>5, <1>6
    <3> QED BY <3>1, <3>2
  <2> HIDE DEF resume
  <2> QED BY <1>2, <2>1 DEF Lower
<1>8. /\ mCount < Capacity
      /\ mFields' = Put(fields, mCount, DataTags[field.tag], Cast16(position), Cast16(size))
      /\ mCount' = mCount + 1
      /\ offset' = skipEnd
      /\ mPosition' = 0
      /\ lanes' = {}
      /\ pc' = Resume(skipEnd, FALSE)
  BY DEF SkipPayload
<1>9. Extents(mFields)'
  <2>1. Cast16(size) \in Uint16
    <3> HIDE DEF size
    <3> QED BY <1>5, CastType
  <2>2. Cast16(position) \in Uint16
    <3> HIDE DEF found
    <3> QED BY <1>6, CastType
  <2>3. mCount \in Slot
    BY <1>1, <1>8, SlotFacts
  <2> HIDE DEF size, position
  <2>4. Extents(Put(fields, mCount, DataTags[field.tag], Cast16(position), Cast16(size)))
    BY <2>1, <2>2, <2>3, TokenPut
  <2> QED BY <1>8, <2>4, ExtentsNext
<1> HIDE DEF skipEnd
<1>10. /\ pc' \in {"block", "trailer", "check"}
       /\ pc' = "block" => offset' + BlockSize <= Len(buffer)
       /\ pc' = "trailer" => offset' < Len(buffer)
  BY <1>1, <1>7, <1>8, ResumeInBuffer
<1>11. mCount' \in 0 .. Capacity /\ mCount' > 0
  BY <1>1, <1>8, DecoderAssumption
<1>12. buffer' \in Seq(Byte) /\ index' \in Nat /\ offset' \in Nat /\ mPosition' \in Int /\ lanes' \subseteq Lane
  BY <1>1, <1>7, <1>8
<1>13. InBlocks' /\ InTrailer' /\ DropSlots' /\ (pc' = "walk" => WalkInWord')
  BY <1>10 DEF InBlocks, InTrailer, DropSlots
<1> QED BY <1>9, <1>11, <1>12, <1>13, Zenon DEF ScanInv

LEMMA LoadBlockKeeps ==
    ASSUME ScanInv, LoadBlock
    PROVE  ScanInv'
<1>1. /\ mCount \in 0 .. Capacity /\ mCount > 0 /\ mPosition \in Int /\ Extents(mFields)
      /\ offset + BlockSize <= Len(buffer)
  BY DEF ScanInv, LoadBlock, InBlocks
<1>2. Extents(mFields)'
  <2>1. Cast16(mPosition) \in Uint16 /\ last \in Slot
    BY <1>1, CastType, LastType
  <2>2. Extents([mFields EXCEPT ![last].length = Cast16(mPosition)])
    BY <1>1, <2>1, LengthSet
  <2> QED BY <2>2, ExtentsNext DEF LoadBlock
<1>3. lanes' \subseteq Lane
  BY TagLanesType DEF LoadBlock
<1>4. /\ pc' = "tags"
      /\ UNCHANGED <<buffer, mCount, mPosition, offset, index>>
  BY DEF LoadBlock
<1>5. InBlocks' /\ InTrailer' /\ DropSlots' /\ (pc' = "walk" => WalkInWord')
  BY <1>1, <1>4 DEF InBlocks, InTrailer, DropSlots
<1>6. /\ buffer' \in Seq(Byte) /\ index' \in Nat /\ offset' \in Nat /\ mPosition' \in Int
      /\ mCount' \in 0 .. Capacity /\ mCount' > 0
  BY <1>1, <1>4 DEF ScanInv
<1> QED BY <1>2, <1>3, <1>5, <1>6, Zenon DEF ScanInv

LEMMA LoadBlockAfterSplitTagKeeps ==
    ASSUME ScanInv, LoadBlockAfterSplitTag
    PROVE  ScanInv'
<1> DEFINE length == mPosition + offset - 1 - mFields[last].position
           closed == [mFields EXCEPT ![last].length = Cast16(length)]
           sum    == blockSum + Sum(offset, offset + BlockSize)
<1>1. /\ mCount \in 0 .. Capacity /\ mCount > 0 /\ mPosition \in Int /\ offset \in Nat
      /\ Extents(mFields) /\ offset + BlockSize <= Len(buffer) /\ pc = "block"
  BY DEF ScanInv, LoadBlockAfterSplitTag, InBlocks
<1>2. Extents(closed)
  <2>1. last \in Slot /\ mFields[last].position \in Nat
    BY <1>1, LastType
  <2>2. length \in Int
    BY <1>1, <2>1
  <2> HIDE DEF length
  <2> QED BY <1>1, <2>1, <2>2, CastType, LengthSet
<1> HIDE DEF closed
<1>3. CASE IsDataLength(closed[last])
  <2>1. SkipPayload(closed, sum) /\ UNCHANGED <<buffer, index>>
    BY <1>3 DEF LoadBlockAfterSplitTag, closed
  <2> QED BY <1>1, <1>2, <1>3, <2>1, SkipKeeps
<1>4. CASE ~IsDataLength(closed[last])
  <2>1. /\ mCount < Capacity
        /\ mFields' = Put(closed, mCount, Cast16(mTag), Cast16(offset + 1), 0)
        /\ mCount' = mCount + 1
        /\ mPosition' = 0
        /\ lanes' = TagLanes \ TrailingLanes
        /\ pc' = "tags"
        /\ UNCHANGED <<buffer, offset, index>>
    BY <1>4 DEF LoadBlockAfterSplitTag, closed
  <2>2. Extents(mFields)'
    <3>1. Cast16(offset + 1) \in Uint16
      BY <1>1, CastType
    <3>2. 0 \in Uint16
      BY DEF Uint16
    <3>3. mCount \in Slot
      BY <1>1, <2>1, SlotFacts
    <3> QED BY <1>2, <2>1, <3>1, <3>2, <3>3, TokenPut, ExtentsNext
  <2>3. lanes' \subseteq Lane
    BY <2>1, TagLanesType
  <2>4. InBlocks' /\ InTrailer' /\ DropSlots' /\ (pc' = "walk" => WalkInWord')
    BY <1>1, <2>1 DEF InBlocks, InTrailer, DropSlots
  <2>5. /\ buffer' \in Seq(Byte) /\ index' \in Nat /\ offset' \in Nat /\ mPosition' \in Int
        /\ mCount' \in 0 .. Capacity /\ mCount' > 0
    BY <1>1, <2>1, DecoderAssumption DEF ScanInv
  <2> QED BY <2>2, <2>3, <2>4, <2>5, Zenon DEF ScanInv
<1> QED BY <1>3, <1>4

LEMMA TokenizeTagKeeps ==
    ASSUME ScanInv, TokenizeTag
    PROVE  ScanInv'
<1> DEFINE first  == Least(lanes)
           beyond == {k \in first .. BlockSize : k \notin lanes}
           stop   == Least(beyond)
           tag    == Joined(mTag, Slice(buffer, offset + first, offset + stop))
           length == mFields[last].length + offset + first - mFields[last].position - 1
           closed == [mFields EXCEPT ![last].length = Cast16(length)]
<1>1. /\ mCount \in 0 .. Capacity /\ mCount > 0 /\ mPosition \in Int /\ offset \in Nat
      /\ Extents(mFields) /\ lanes \subseteq Lane /\ lanes # {}
      /\ offset + BlockSize <= Len(buffer) /\ pc = "tags"
  <2>1. lanes # {} /\ pc = "tags"
    BY DEF TokenizeTag
  <2> QED BY <2>1 DEF ScanInv, InBlocks
<1>2. first \in 0 .. BlockSize - 1
  <2>1. lanes \in SUBSET Nat
    BY <1>1 DEF Lane, BlockSize
  <2> QED BY <1>1, <2>1, LeastOfNat DEF Lane
<1>3. stop \in Nat
  <2>1. BlockSize \in beyond
    BY <1>1, <1>2 DEF Lane, BlockSize
  <2>2. beyond \in SUBSET Nat
    BY <1>2 DEF BlockSize
  <2> HIDE DEF beyond
  <2> QED BY <2>1, <2>2, LeastOfNat
<1>4. Extents(closed)
  <2>1. last \in Slot /\ mFields[last].position \in Nat /\ mFields[last].length \in Nat
    BY <1>1, LastType
  <2>2. length \in Int
    <3>1. first \in Int
      BY <1>2 DEF BlockSize
    <3>2. \A p, l \in Nat, n \in Int : l + offset + n - p - 1 \in Int
      BY <1>1
    <3> HIDE DEF first
    <3> QED BY <2>1, <3>1, <3>2
  <2> HIDE DEF length
  <2> QED BY <1>1, <2>1, <2>2, CastType, LengthSet
<1>5. CASE IsDataLength(closed[last])
  <2>1. SkipPayload(closed, blockSum) /\ UNCHANGED <<buffer, index>>
    BY <1>5 DEF TokenizeTag
  <2> HIDE DEF closed
  <2> QED BY <1>1, <1>4, <1>5, <2>1, SkipKeeps
<1>6. CASE ~IsDataLength(closed[last])
  <2>1. /\ mCount < Capacity
        /\ mFields' = Put(closed, mCount, tag, Cast16(offset + stop + 1), 0)
        /\ mCount' = mCount + 1
        /\ lanes' = lanes \ (first .. stop - 1)
        /\ UNCHANGED <<buffer, pc, mPosition, offset, index>>
    BY <1>6 DEF TokenizeTag
  <2>2. Extents(mFields)'
    <3>1. Cast16(offset + stop + 1) \in Uint16
      <4> HIDE DEF stop
      <4>1. offset + stop + 1 \in Int
        BY <1>1, <1>3
      <4> QED BY <4>1, CastType
    <3>2. 0 \in Uint16
      BY DEF Uint16
    <3>3. mCount \in Slot
      BY <1>1, <2>1, SlotFacts
    <3> HIDE DEF closed, tag, stop
    <3>4. Extents(Put(closed, mCount, tag, Cast16(offset + stop + 1), 0))
      BY <1>4, <3>1, <3>2, <3>3, TokenPut
    <3> QED BY <2>1, <3>4, ExtentsNext
  <2>3. lanes' \subseteq Lane
    BY <1>1, <2>1
  <2>4. InBlocks' /\ InTrailer' /\ DropSlots' /\ (pc' = "walk" => WalkInWord')
    BY <1>1, <2>1 DEF InBlocks, InTrailer, DropSlots
  <2>5. /\ buffer' \in Seq(Byte) /\ index' \in Nat /\ offset' \in Nat /\ mPosition' \in Int
        /\ mCount' \in 0 .. Capacity /\ mCount' > 0
    BY <1>1, <2>1, DecoderAssumption DEF ScanInv
  <2> QED BY <2>2, <2>3, <2>4, <2>5, Zenon DEF ScanInv
<1> QED BY <1>5, <1>6

LEMMA EndBlockKeeps ==
    ASSUME ScanInv, EndBlock
    PROVE  ScanInv'
<1> DEFINE count    == IF ClosesOnFieldEnd THEN mCount + 1 ELSE mCount
           length   == offset + 15 - mFields[last].position
           closed   == [mFields EXCEPT ![last].length = Cast16(length)]
           ended    == [mFields EXCEPT ![last].length = Cast16(length), ![mCount] = EmptyField]
           fields   == IF ClosesOnFieldEnd THEN ended ELSE mFields
           cut      == Cardinality(TrailingLanes)
           complete == fields[count - 1].tag = CheckSumTag
           final    == IF complete THEN [fields EXCEPT ![count - 1].length = CheckSumValueLength]
                       ELSE fields
<1>1. /\ mCount \in 0 .. Capacity /\ mCount > 0 /\ offset \in Nat /\ buffer \in Seq(Byte)
      /\ Extents(mFields)
  BY DEF ScanInv, EndBlock
<1>2. /\ ClosesOnFieldEnd => mCount < Capacity
      /\ mFields' = final
      /\ mCount' = count
      /\ mPosition' = -cut
      /\ offset' = offset + BlockSize
      /\ pc' = Resume(offset + BlockSize, complete)
      /\ lanes' = {}
      /\ UNCHANGED <<buffer, index>>
  BY DEF EndBlock
<1>3. count \in 0 .. Capacity /\ count > 0
  BY <1>1, <1>2, DecoderAssumption
<1>4. Extents(fields)
  <2>1. last \in Slot /\ mFields[last].position \in Nat
    BY <1>1, LastType
  <2>2. length \in Int
    BY <1>1, <2>1
  <2>3. Extents(closed)
    <3> HIDE DEF length
    <3> QED BY <1>1, <2>1, <2>2, CastType, LengthSet
  <2>4. CASE ClosesOnFieldEnd
    <3>1. mCount \in Slot
      BY <1>1, <1>2, <2>4, SlotFacts
    <3>2. 0 \in Uint16
      BY DEF Uint16
    <3>3. Extents(Put(closed, mCount, 0, 0, 0))
      <4> HIDE DEF closed
      <4> QED BY <2>3, <3>1, <3>2, TokenPut
    <3>4. ended = Put(closed, mCount, 0, 0, 0)
      BY DEF Put, EmptyField
    <3> QED BY <2>4, <3>3, <3>4
  <2>5. CASE ~ClosesOnFieldEnd
    BY <1>1, <2>5
  <2> QED BY <2>4, <2>5
<1>5. Extents(mFields)'
  <2> HIDE DEF fields, count
  <2>1. count - 1 \in Slot
    BY <1>3, SlotFacts
  <2>2. CheckSumValueLength \in Uint16
    BY DEF CheckSumValueLength, Uint16
  <2>3. Extents([fields EXCEPT ![count - 1].length = CheckSumValueLength])
    BY <1>4, <2>1, <2>2, LengthSet
  <2>4. Extents(final)
    BY <1>4, <2>3
  <2> HIDE DEF final
  <2> QED BY <1>2, <2>4, ExtentsNext
<1>6. mPosition' \in Int
  <2>1. TrailingLanes \subseteq 12 .. 15
    BY DEF TrailingLanes
  <2>2. IsFiniteSet(TrailingLanes)
    <3>1. \A a, b \in Int : IsFiniteSet(a .. b)
      BY FS_Interval
    <3>2. TrailingLanes \subseteq 0 .. BlockSize
      BY <2>1 DEF BlockSize
    <3>3. IsFiniteSet(0 .. BlockSize)
      <4>1. BlockSize \in Int
        BY DEF BlockSize
      <4> QED BY <3>1, <4>1
    <3> QED BY <3>2, <3>3, FS_Subset
  <2>3. cut \in Nat
    BY <2>2, FS_CardinalityType
  <2> HIDE DEF cut
  <2> QED BY <1>2, <2>3
<1>7. offset + BlockSize \in Nat
  BY <1>1 DEF BlockSize
<1>8. InBlocks' /\ InTrailer' /\ DropSlots' /\ (pc' = "walk" => WalkInWord')
  <2> HIDE DEF complete
  <2> QED BY <1>1, <1>2, <1>7, ResumeInBuffer DEF InBlocks, InTrailer, DropSlots
<1>9. buffer' \in Seq(Byte) /\ index' \in Nat /\ offset' \in Nat /\ lanes' \subseteq Lane
  BY <1>2, <1>7 DEF ScanInv
<1>10. mCount' \in 0 .. Capacity /\ mCount' > 0
  BY <1>2, <1>3
<1> QED BY <1>5, <1>6, <1>8, <1>9, <1>10, Zenon DEF ScanInv

LEMMA TrailerAfterSplitTagKeeps ==
    ASSUME ScanInv, TrailerAfterSplitTag
    PROVE  ScanInv'
<1> DEFINE tagEnd   == FirstLane(TagEnds)
           fieldEnd == FirstLane(FieldEnds)
           digits   == Slice(buffer, offset, offset + Lower(tagEnd, Remaining))
           tag      == Joined(mTag, digits)
           length   == offset + mPosition - 1 - mFields[last].position
           closed   == [mFields EXCEPT ![last].length = Cast16(length)]
           start    == offset + tagEnd + 1
           size     == fieldEnd - tagEnd - 1
<1>1. /\ mCount \in 0 .. Capacity /\ mCount > 0 /\ mPosition \in Int /\ offset \in Nat
      /\ Extents(mFields) /\ pc = "trailer" /\ offset < Len(buffer) /\ mCount < Capacity
  BY DEF ScanInv, TrailerAfterSplitTag, InTrailer
<1>2. tagEnd \in 0 .. WordSize /\ fieldEnd \in 0 .. WordSize
  <2>1. TagEnds \subseteq WordLane /\ FieldEnds \subseteq WordLane
    BY FoundInWord DEF InWordOnly
  <2> QED BY <2>1, FirstLaneType
<1>3. Extents(closed)
  <2>1. last \in Slot /\ mFields[last].position \in Nat
    BY <1>1, LastType
  <2>2. length \in Int
    BY <1>1, <2>1
  <2> HIDE DEF length
  <2> QED BY <1>1, <2>1, <2>2, CastType, LengthSet
<1>4. start \in Int /\ size \in Int /\ fieldEnd + 1 \in Nat
  <2> HIDE DEF tagEnd, fieldEnd
  <2> QED BY <1>1, <1>2 DEF WordSize
<1>5. /\ mFields' = Put(closed, mCount, tag, Cast16(start), Cast16(size))
      /\ walk' = Cursor(fieldEnd + 1, TagEnds, FieldEnds, fieldEnd)
      /\ mCount' = mCount + 1
      /\ pc' = "walk"
      /\ UNCHANGED <<buffer, mPosition, offset, lanes, index>>
  BY DEF TrailerAfterSplitTag
<1>6. Extents(mFields)'
  <2> HIDE DEF closed, tag, start, size
  <2>1. mCount \in Slot
    BY <1>1, SlotFacts
  <2>2. Extents(Put(closed, mCount, tag, Cast16(start), Cast16(size)))
    BY <1>3, <1>4, <2>1, CastType, TokenPut
  <2> QED BY <1>5, <2>2, ExtentsNext
<1>7. WalkInWord'
  <2> HIDE DEF fieldEnd
  <2>1. UNCHANGED Remaining
    BY <1>5 DEF Remaining
  <2>2. /\ walk'.position = fieldEnd + 1 /\ walk'.tagEnds = TagEnds
        /\ walk'.fieldEnds = FieldEnds /\ walk'.fieldEnd = fieldEnd
    BY <1>5 DEF Cursor
  <2> QED BY <1>2, <1>4, <2>1, <2>2, FoundInWord DEF WalkInWord, InWordOnly
<1>8. InBlocks' /\ InTrailer' /\ DropSlots'
  BY <1>1, <1>5 DEF InBlocks, InTrailer, DropSlots
<1>9. /\ buffer' \in Seq(Byte) /\ index' \in Nat /\ offset' \in Nat /\ mPosition' \in Int
      /\ lanes' \subseteq Lane /\ mCount' \in 0 .. Capacity /\ mCount' > 0
  BY <1>1, <1>5, DecoderAssumption DEF ScanInv
<1> QED BY <1>6, <1>7, <1>8, <1>9, Zenon DEF ScanInv

LEMMA TrailerAfterSplitValueKeeps ==
    ASSUME ScanInv, TrailerAfterSplitValue
    PROVE  ScanInv'
<1> DEFINE fieldEnd == FirstLane(FieldEnds)
           rest     == WithoutFirst(FieldEnds)
           length   == offset - mFields[last].position + fieldEnd
<1>1. /\ mCount \in 0 .. Capacity /\ mCount > 0 /\ offset \in Nat
      /\ Extents(mFields) /\ pc = "trailer" /\ offset < Len(buffer) /\ mCount < Capacity
  BY DEF ScanInv, TrailerAfterSplitValue, InTrailer
<1>2. fieldEnd \in 0 .. WordSize /\ rest \subseteq WordLane /\ FirstLane(rest) \in 0 .. WordSize
  <2>1. FieldEnds \subseteq WordLane /\ rest \subseteq WordLane
    BY FoundInWord DEF WithoutFirst
  <2> HIDE DEF rest
  <2> QED BY <2>1, FirstLaneType
<1>3. length \in Int /\ fieldEnd + 1 \in Nat
  <2>1. mFields[last].position \in Nat
    BY <1>1, LastType
  <2>2. \A p \in Nat, n \in 0 .. WordSize : offset - p + n \in Int /\ n + 1 \in Nat
    BY <1>1 DEF WordSize
  <2> HIDE DEF fieldEnd
  <2> QED BY <1>2, <2>1, <2>2
<1>4. /\ mFields' = [mFields EXCEPT ![last].length = Cast16(length)]
      /\ walk' = Cursor(fieldEnd + 1, TagEnds, rest, FirstLane(rest))
      /\ mCount' = mCount + 1
      /\ pc' = "walk"
      /\ UNCHANGED <<buffer, mPosition, offset, lanes, index>>
  BY DEF TrailerAfterSplitValue
<1>5. Extents(mFields)'
  <2> HIDE DEF length
  <2>1. Extents([mFields EXCEPT ![last].length = Cast16(length)])
    BY <1>1, <1>3, LastType, CastType, LengthSet
  <2> QED BY <1>4, <2>1, ExtentsNext
<1>6. WalkInWord'
  <2> HIDE DEF fieldEnd, rest
  <2>1. UNCHANGED Remaining
    BY <1>4 DEF Remaining
  <2>2. /\ walk'.position = fieldEnd + 1 /\ walk'.tagEnds = TagEnds
        /\ walk'.fieldEnds = rest /\ walk'.fieldEnd = FirstLane(rest)
    BY <1>4 DEF Cursor
  <2> QED BY <1>2, <1>3, <2>1, <2>2, FoundInWord DEF WalkInWord, InWordOnly
<1>7. InBlocks' /\ InTrailer' /\ DropSlots'
  BY <1>1, <1>4 DEF InBlocks, InTrailer, DropSlots
<1>8. /\ buffer' \in Seq(Byte) /\ index' \in Nat /\ offset' \in Nat /\ mPosition' \in Int
      /\ lanes' \subseteq Lane /\ mCount' \in 0 .. Capacity /\ mCount' > 0
  BY <1>1, <1>4, DecoderAssumption DEF ScanInv
<1> QED BY <1>5, <1>6, <1>7, <1>8, Zenon DEF ScanInv

LEMMA TrailerAtTagKeeps ==
    ASSUME ScanInv, TrailerAtTag
    PROVE  ScanInv'
<1>1. /\ pc = "trailer" /\ offset < Len(buffer) /\ mCount > 0 /\ Extents(mFields)
  BY DEF ScanInv, TrailerAtTag, InTrailer
<1>2. /\ walk' = Cursor(0, TagEnds, FieldEnds, FirstLane(FieldEnds))
      /\ pc' = "walk"
      /\ UNCHANGED <<buffer, mFields, mCount, mPosition, offset, lanes, index>>
  BY DEF TrailerAtTag
<1>3. WalkInWord'
  <2>1. UNCHANGED Remaining
    BY <1>2 DEF Remaining
  <2>2. /\ walk'.position = 0 /\ walk'.tagEnds = TagEnds
        /\ walk'.fieldEnds = FieldEnds /\ walk'.fieldEnd = FirstLane(FieldEnds)
    BY <1>2 DEF Cursor
  <2> QED BY <2>1, <2>2, FoundInWord, FirstLaneType DEF WalkInWord, InWordOnly
<1>4. Extents(mFields)'
  BY <1>1, <1>2, ExtentsNext
<1>5. InBlocks' /\ InTrailer' /\ DropSlots'
  BY <1>1, <1>2 DEF InBlocks, InTrailer, DropSlots
<1>6. /\ buffer' \in Seq(Byte) /\ index' \in Nat /\ offset' \in Nat /\ mPosition' \in Int
      /\ lanes' \subseteq Lane /\ mCount' \in 0 .. Capacity /\ mCount' > 0
  BY <1>1, <1>2 DEF ScanInv
<1> QED BY <1>3, <1>4, <1>5, <1>6, Zenon DEF ScanInv

\* A tag is found in the word, or the buffer goes on behind it.
LEMMA FoundTagInBuffer ==
    ASSUME buffer \in Seq(Byte), offset \in Nat, WalkInWord, MoreInWord
    PROVE  /\ FirstLane(walk.tagEnds) \in 0 .. WordSize
           /\ offset + FirstLane(walk.tagEnds) <= Len(buffer)
<1>1. walk.tagEnds \subseteq WordLane
  BY DEF WalkInWord, InWordOnly
<1>2. FirstLane(walk.tagEnds) \in 0 .. WordSize
  BY <1>1, FirstLaneType
<1>3. Len(buffer) \in Nat /\ walk.position \in Nat
  BY DEF WalkInWord
<1>4. CASE walk.tagEnds = {}
  <2>1. FirstLane(walk.tagEnds) = 8
    BY <1>4 DEF FirstLane, WordSize
  <2>2. walk.position + 7 < Len(buffer) - offset
    BY DEF MoreInWord, CheckSumFieldLen, Remaining
  <2> QED BY <1>2, <1>3, <2>1, <2>2
<1>5. CASE walk.tagEnds # {}
  <2>1. InWordOnly(FirstLane(walk.tagEnds))
    BY <1>1, <1>5, FirstLaneType DEF WalkInWord
  <2>2. FirstLane(walk.tagEnds) < Len(buffer) - offset
    BY <2>1 DEF InWordOnly, Remaining
  <2> QED BY <1>2, <1>3, <2>2 DEF WordSize
<1> QED BY <1>2, <1>4, <1>5

LEMMA WalkFieldKeeps ==
    ASSUME ScanInv, WalkField
    PROVE  ScanInv'
<1> DEFINE tagEnd == FirstLane(walk.tagEnds)
           digits == Slice(buffer, offset + walk.position, offset + tagEnd)
           tag    == Cast16(asciiToUint64(digits))
           start  == tagEnd + 1
           size   == walk.fieldEnd - start
           length == Cast16(size)
           rest   == WithoutFirst(walk.fieldEnds)
<1>1. /\ mCount \in 0 .. Capacity /\ mCount > 0 /\ offset \in Nat /\ buffer \in Seq(Byte)
      /\ Extents(mFields) /\ pc = "walk" /\ offset < Len(buffer) /\ mCount < Capacity
      /\ WalkInWord /\ MoreInWord
  BY DEF ScanInv, WalkField, InTrailer
<1>2. tagEnd \in 0 .. WordSize /\ walk.fieldEnd \in 0 .. WordSize
  BY <1>1, FoundTagInBuffer DEF WalkInWord
<1>3. start \in Nat /\ size \in Int /\ offset + start \in Int
  <2> HIDE DEF tagEnd
  <2>1. start \in Nat
    BY <1>2 DEF WordSize
  <2>2. walk.fieldEnd \in Int
    BY <1>2 DEF WordSize
  <2> HIDE DEF start
  <2> QED BY <1>1, <2>1, <2>2
<1>4. length \in Uint16 /\ length \in Nat
  <2> HIDE DEF size
  <2>1. length \in Uint16
    BY <1>3, CastType
  <2>2. \A n \in Uint16 : n \in Nat
    BY UintIsNat
  <2> HIDE DEF length
  <2> QED BY <2>1, <2>2
<1>5. rest \subseteq WordLane /\ FirstLane(walk.fieldEnds) \in 0 .. WordSize
  BY <1>1, FirstLaneType DEF WalkInWord, WithoutFirst
<1>6. /\ mFields' = Put(mFields, last, tag, Cast16(offset + start), length)
      /\ walk' = Cursor(start + length + 1, WithoutFirst(walk.tagEnds), rest,
                        FirstLane(walk.fieldEnds))
      /\ mCount' = mCount + 1
      /\ UNCHANGED <<buffer, pc, mPosition, offset, lanes, index>>
  BY DEF WalkField
<1>7. Extents(mFields)'
  <2> HIDE DEF tag, start, length
  <2>1. Extents(Put(mFields, last, tag, Cast16(offset + start), length))
    BY <1>1, <1>3, <1>4, LastType, CastType, TokenPut
  <2> QED BY <1>6, <2>1, ExtentsNext
<1>8. WalkInWord'
  <2> HIDE DEF start, length, rest
  <2>1. UNCHANGED Remaining
    BY <1>6 DEF Remaining
  <2>2. /\ walk'.position = start + length + 1 /\ walk'.tagEnds = WithoutFirst(walk.tagEnds)
        /\ walk'.fieldEnds = rest /\ walk'.fieldEnd = FirstLane(walk.fieldEnds)
    BY <1>6 DEF Cursor
  <2>3. start + length + 1 \in Nat
    BY <1>3, <1>4
  <2> QED BY <1>1, <1>5, <2>1, <2>2, <2>3 DEF WalkInWord, InWordOnly, WithoutFirst
<1>9. InBlocks' /\ InTrailer' /\ DropSlots'
  BY <1>1, <1>6 DEF InBlocks, InTrailer, DropSlots
<1>10. /\ buffer' \in Seq(Byte) /\ index' \in Nat /\ offset' \in Nat /\ mPosition' \in Int
       /\ lanes' \subseteq Lane /\ mCount' \in 0 .. Capacity /\ mCount' > 0
  BY <1>1, <1>6, DecoderAssumption DEF ScanInv
<1> QED BY <1>7, <1>8, <1>9, <1>10, Zenon DEF ScanInv

LEMMA WalkCheckSumKeeps ==
    ASSUME ScanInv, WalkCheckSum
    PROVE  ScanInv'
<1>1. /\ mCount \in 0 .. Capacity /\ mCount > 0 /\ offset \in Nat
      /\ Extents(mFields) /\ pc = "walk" /\ WalkInWord
  BY DEF ScanInv, WalkCheckSum
<1>2. /\ pc' = "check"
      /\ UNCHANGED <<buffer, mPosition, offset, lanes, index>>
  BY DEF WalkCheckSum
<1>3. Extents(mFields)' /\ mCount' \in 0 .. Capacity /\ mCount' > 0
  <2>1. CASE walk.position + CheckSumFieldLen <= Remaining
    <3> DEFINE slot  == IF LastSlotUsed THEN mCount ELSE last
               start == offset + walk.position
               tag   == Cast16(10 * (At(buffer, start) - Zero) + At(buffer, start + 1) - Zero)
    <3>1. /\ slot < Capacity /\ mCount' = slot + 1
          /\ mFields' = Put(mFields, slot, tag, Cast16(start + CheckSumPrefixLen), CheckSumValueLength)
      BY <2>1 DEF WalkCheckSum
    <3>2. slot \in 0 .. Capacity
      BY <1>1, DecoderAssumption DEF last
    <3>3. slot \in Slot
      <4> HIDE DEF slot
      <4> QED BY <3>1, <3>2, SlotFacts
    <3>4. Cast16(start + CheckSumPrefixLen) \in Uint16 /\ CheckSumValueLength \in Uint16
      <4>1. start + CheckSumPrefixLen \in Int
        BY <1>1 DEF WalkInWord, CheckSumPrefixLen
      <4>2. CheckSumValueLength \in Uint16
        BY DEF CheckSumValueLength, Uint16
      <4> HIDE DEF start
      <4> QED BY <4>1, <4>2, CastType
    <3> HIDE DEF slot, start, tag
    <3>5. Extents(Put(mFields, slot, tag, Cast16(start + CheckSumPrefixLen), CheckSumValueLength))
      BY <1>1, <3>3, <3>4, TokenPut
    <3>6. mCount' \in 0 .. Capacity /\ mCount' > 0
      BY <3>1, <3>2, DecoderAssumption
    <3> QED BY <3>1, <3>5, <3>6, ExtentsNext
  <2>2. CASE ~(walk.position + CheckSumFieldLen <= Remaining)
    <3>1. UNCHANGED <<mFields, mCount>>
      BY <2>2 DEF WalkCheckSum
    <3> QED BY <1>1, <3>1, ExtentsNext
  <2> QED BY <2>1, <2>2
<1>4. InBlocks' /\ InTrailer' /\ DropSlots' /\ (pc' = "walk" => WalkInWord')
  BY <1>2 DEF InBlocks, InTrailer, DropSlots
<1>5. /\ buffer' \in Seq(Byte) /\ index' \in Nat /\ offset' \in Nat /\ mPosition' \in Int
      /\ lanes' \subseteq Lane
  BY <1>2 DEF ScanInv
<1> QED BY <1>3, <1>4, <1>5, Zenon DEF ScanInv

LEMMA CheckKeeps ==
    ASSUME ScanInv, Check
    PROVE  ScanInv'
<1>1. mCount \in 0 .. Capacity /\ mCount > 0 /\ Extents(mFields)
  BY DEF ScanInv, Check
<1>2. /\ mFields' = mFields \/ mFields' = [mFields EXCEPT ![last].tag = 0]
      /\ pc' \in {"idle", "drop", "rescan"}
      /\ index' = 3
      /\ UNCHANGED <<buffer, mCount, mPosition, offset, lanes>>
  BY DEF Check, MessageTypePosition
<1>3. Extents(mFields)'
  <2>1. Extents([mFields EXCEPT ![last].tag = 0])
    BY <1>1, LastType, TagSet
  <2> QED BY <1>1, <1>2, <2>1, ExtentsNext
<1>4. InBlocks' /\ InTrailer' /\ DropSlots' /\ (pc' = "walk" => WalkInWord')
  BY <1>2 DEF InBlocks, InTrailer, DropSlots, MessageTypePosition
<1>5. /\ buffer' \in Seq(Byte) /\ index' \in Nat /\ offset' \in Nat /\ mPosition' \in Int
      /\ lanes' \subseteq Lane /\ mCount' \in 0 .. Capacity /\ mCount' > 0
  BY <1>1, <1>2 DEF ScanInv
<1> QED BY <1>3, <1>4, <1>5, Zenon DEF ScanInv

\* The steps that only move on to the next slot, or give up.
LEMMA PassKeeps ==
    ASSUME ScanInv, DropDone \/ DropNext \/ DropFails \/ RescanImpossible
    PROVE  ScanInv'
<1>1. /\ pc' \in {"idle", "drop", "rescan"}
      /\ pc' = "drop" => pc = "drop"
      /\ pc # "idle"
      /\ index' = index \/ index' = index + 1
      /\ UNCHANGED <<buffer, mFields, mCount, mPosition, offset, lanes>>
  BY DEF DropDone, DropNext, DropFails, RescanImpossible
<1>2. Extents(mFields)'
  BY <1>1, ExtentsNext DEF ScanInv
<1>3. index' \in Nat /\ DropSlots'
  BY <1>1 DEF ScanInv, DropSlots, MessageTypePosition
<1>4. InBlocks' /\ InTrailer' /\ (pc' = "walk" => WalkInWord')
  BY <1>1 DEF InBlocks, InTrailer
<1>5. /\ buffer' \in Seq(Byte) /\ offset' \in Nat /\ mPosition' \in Int
      /\ lanes' \subseteq Lane /\ mCount' \in 0 .. Capacity /\ mCount' > 0
  BY <1>1 DEF ScanInv
<1> QED BY <1>2, <1>3, <1>4, <1>5, Zenon DEF ScanInv

LEMMA DropPayloadTokensKeeps ==
    ASSUME ScanInv, DropPayloadTokens
    PROVE  ScanInv'
<1> DEFINE size    == PayloadLength(index)
           from    == index + 2
           ends    == {j \in from .. mCount : j = mCount \/ ~MadeFromPayload(j, index)}
           next    == Least(ends)
           dropped == next - from
           sized   == [mFields EXCEPT ![index + 1].length = Cast16(size)]
<1>1. /\ mCount \in 0 .. Capacity /\ Extents(mFields) /\ buffer \in Seq(Byte)
      /\ index \in Nat /\ index > 2 /\ pc = "drop"
      /\ index + 2 < mCount /\ LaidOutAsExpected(index)
  BY DEF ScanInv, DropPayloadTokens, DropSlots, MessageTypePosition
<1>2. /\ mFields' = Moved(sized, from, dropped)
      /\ mCount' = mCount - dropped
      /\ index' = from
      /\ UNCHANGED <<buffer, pc, mPosition, offset, lanes>>
  BY DEF DropPayloadTokens
<1>3. next \in from .. mCount
  <2>1. mCount \in ends
    BY <1>1
  <2>2. ends \in SUBSET Nat
    BY <1>1
  <2>3. ends \subseteq from .. mCount
    OBVIOUS
  <2> HIDE DEF ends
  <2> QED BY <2>1, <2>2, <2>3, LeastOfNat
<1>4. dropped \in Nat /\ dropped <= mCount - from
  <2> HIDE DEF next
  <2> QED BY <1>1, <1>3
<1>5. index \in Slot /\ index + 1 \in Slot /\ Capacity \in Nat
  BY <1>1, DecoderAssumption DEF Slot
<1>6. size \in Int
  <2> DEFINE field == mFields[index]
  <2>1. field.position \in Nat /\ field.length \in Nat
    BY <1>1, <1>5, ExtentType DEF Extents
  <2>2. field.position + field.length <= Len(buffer)
    BY <1>1 DEF LaidOutAsExpected
  <2>3. size = NumberAt(field, Len(buffer))
    BY DEF PayloadLength
  <2> HIDE DEF field, size
  <2> QED BY <1>1, <2>1, <2>2, <2>3, TokenNumberType
<1>7. Extents(sized)
  <2> HIDE DEF size
  <2> QED BY <1>1, <1>5, <1>6, CastType, LengthSet
<1>8. Extents(mFields)'
  <2> HIDE DEF sized, dropped, from
  <2>1. Extents(Moved(sized, from, dropped))
    <3>1. ASSUME NEW j \in Slot, j \in from .. last - dropped
          PROVE  j + dropped \in Slot
      BY <1>1, <1>4, <1>5, <3>1 DEF Slot, last
    <3>2. DOMAIN Moved(sized, from, dropped) = Slot
      BY DEF Moved
    <3>3. ASSUME NEW j \in Slot PROVE HasExtent(Moved(sized, from, dropped)[j])
      <4>1. CASE j \in from .. last - dropped
        BY <1>7, <3>1, <4>1, Zenon DEF Moved, Extents
      <4>2. CASE j \notin from .. last - dropped
        BY <1>7, <4>2, Zenon DEF Moved, Extents
      <4> QED BY <4>1, <4>2
    <3> QED BY <3>2, <3>3, Zenon DEF Extents
  <2> QED BY <1>2, <2>1, ExtentsNext
<1>9. mCount' \in 0 .. Capacity /\ mCount' > 0
  <2> HIDE DEF dropped
  <2> QED BY <1>1, <1>2, <1>4, <1>5
<1>10. InBlocks' /\ InTrailer' /\ DropSlots' /\ (pc' = "walk" => WalkInWord')
  BY <1>1, <1>2 DEF InBlocks, InTrailer, DropSlots, MessageTypePosition
<1>11. /\ buffer' \in Seq(Byte) /\ index' \in Nat /\ offset' \in Nat /\ mPosition' \in Int
       /\ lanes' \subseteq Lane
  BY <1>1, <1>2 DEF ScanInv
<1> QED BY <1>8, <1>9, <1>10, <1>11, Zenon DEF ScanInv

\* The slot a rescan starts from is behind the header's three fields.
LEMMA FirstDataSlotType ==
    ASSUME mCount \in 0 .. Capacity, FirstDataSlot < mCount
    PROVE  FirstDataSlot \in Slot /\ FirstDataSlot > 2
<1> DEFINE slots == {i \in 3 .. Higher(3, mCount) : i >= mCount \/ ~NoDataTagAt(i)}
<1>1. FirstDataSlot \in slots
  <2>1. FirstDataSlot = Least(slots)
    BY DEF FirstDataSlot, MessageTypePosition
  <2>2. slots \in SUBSET Nat
    BY DEF Higher
  <2>3. Higher(3, mCount) \in slots
    BY DEF Higher
  <2> HIDE DEF slots
  <2> QED BY <2>1, <2>2, <2>3, LeastOfNat
<1> QED BY <1>1, DecoderAssumption DEF Higher, Slot

LEMMA RescanKeeps ==
    ASSUME ScanInv, Rescan
    PROVE  ScanInv'
<1>1. /\ mCount \in 0 .. Capacity /\ Extents(mFields) /\ buffer \in Seq(Byte)
      /\ FirstDataSlot < mCount
  BY DEF ScanInv, Rescan
<1>2. FirstDataSlot \in Slot /\ FirstDataSlot > 2
  BY <1>1, FirstDataSlotType
<1>3. FirstDataSlot \in Nat
  BY <1>2, DecoderAssumption DEF Slot
<1>4. PICK start \in RescanStarts(FirstDataSlot) :
          /\ mCount' = FirstDataSlot
          /\ offset' = start
          /\ pc' = Resume(start, FALSE)
  BY DEF Rescan
<1>5. mPosition' = 0 /\ UNCHANGED <<buffer, mFields, lanes, index>>
  BY DEF Rescan
<1>6. start \in Nat
  <2> DEFINE before == mFields[FirstDataSlot - 1].position
  <2>1. FirstDataSlot - 1 \in Slot /\ FirstDataSlot \in Slot
    BY <1>2, <1>3, DecoderAssumption DEF Slot
  <2>2. before \in Nat /\ mFields[FirstDataSlot].position \in Nat
    BY <1>1, <2>1, ExtentType DEF Extents
  <2>3. start \in before + 1 .. mFields[FirstDataSlot].position - 2
    BY DEF RescanStarts
  <2> HIDE DEF before
  <2> QED BY <2>2, <2>3
<1>7. /\ pc' \in {"block", "trailer", "check"}
      /\ pc' = "block" => start + BlockSize <= Len(buffer)
      /\ pc' = "trailer" => start < Len(buffer)
  BY <1>1, <1>4, <1>6, ResumeInBuffer
<1>8. InBlocks' /\ InTrailer' /\ DropSlots' /\ (pc' = "walk" => WalkInWord')
  BY <1>4, <1>5, <1>7 DEF InBlocks, InTrailer, DropSlots
<1>9. Extents(mFields)'
  BY <1>1, <1>5, ExtentsNext
<1>10. mCount' \in 0 .. Capacity /\ mCount' > 0
  BY <1>1, <1>2, <1>3, <1>4, DecoderAssumption
<1>11. /\ buffer' \in Seq(Byte) /\ index' \in Nat /\ offset' \in Nat /\ mPosition' \in Int
       /\ lanes' \subseteq Lane
  BY <1>1, <1>4, <1>5, <1>6 DEF ScanInv
<1> QED BY <1>8, <1>9, <1>10, <1>11, Zenon DEF ScanInv

-----------------------------------------------------------------------------
\* Any step of parse(), and any call of it.
LEMMA ScanStep ==
    ASSUME ScanInv, Step \/ Called
    PROVE  ScanInv'
<1>1. CASE Called
  BY <1>1, ParseKeeps DEF Called
<1>2. CASE LoadBlock \/ LoadBlockAfterSplitTag \/ TokenizeTag \/ EndBlock
  BY <1>2, LoadBlockKeeps, LoadBlockAfterSplitTagKeeps, TokenizeTagKeeps, EndBlockKeeps
<1>3. CASE TrailerAfterSplitTag \/ TrailerAfterSplitValue \/ TrailerAtTag
  BY <1>3, TrailerAfterSplitTagKeeps, TrailerAfterSplitValueKeeps, TrailerAtTagKeeps
<1>4. CASE WalkField \/ WalkCheckSum \/ Check
  BY <1>4, WalkFieldKeeps, WalkCheckSumKeeps, CheckKeeps
<1>5. CASE DropDone \/ DropNext \/ DropPayloadTokens \/ DropFails \/ Rescan \/ RescanImpossible
  BY <1>5, PassKeeps, DropPayloadTokensKeeps, RescanKeeps
<1> QED BY <1>1, <1>2, <1>3, <1>4, <1>5 DEF Step

\* The invariant is inductive, for every size of the arrays and every buffer.
THEOREM ScanInvHolds == Spec => []ScanInv
<1>1. ASSUME ScanInv, [Next]_vars PROVE ScanInv'
  <2>1. CASE Call \/ Step
    BY <1>1, <2>1, ScanStep, CallsHaveBytes
  <2>3. CASE UNCHANGED vars
    <3>1. UNCHANGED <<buffer, pc, mFields, mCount, mPosition, offset, lanes, walk, index>>
      BY <2>3 DEF vars
    <3>2. Extents(mFields)'
      BY <1>1, <3>1, ExtentsNext DEF ScanInv
    <3>3. UNCHANGED Remaining
      BY <3>1 DEF Remaining
    <3> QED BY <1>1, <3>1, <3>2, <3>3
            DEF ScanInv, InBlocks, InTrailer, DropSlots, WalkInWord, InWordOnly
  <2> QED BY <1>1, <2>1, <2>3 DEF Next
<1> QED BY <1>1, InitScan, PTL DEF Spec

\* Every load stays inside the buffer, whatever its bytes are: the blocks, the word
\* behind them, and the digits of the tags in it (PayloadDecoder.hpp:203, 248,
\* 759-762).
THEOREM LoadsStayInBuffer == Spec => []ReadsInBuffer
<1>1. ScanInv => ReadsInBuffer
  <2>1. ASSUME ScanInv, pc = "walk", MoreInWord
        PROVE  offset + FirstLane(walk.tagEnds) <= Len(buffer)
    BY <2>1, FoundTagInBuffer DEF ScanInv
  <2>2. ASSUME ScanInv PROVE InBlocks /\ InTrailer
    BY <2>2 DEF ScanInv
  <2> QED BY <2>1, <2>2 DEF ReadsInBuffer, InBlocks, InTrailer
<1> QED BY <1>1, ScanInvHolds, PTL

-----------------------------------------------------------------------------
(***************************************************************************)
(* The tag digits of a block, whatever its sixteen bytes are.              *)
(***************************************************************************)
LEMMA ShiftedLanes ==
    ASSUME NEW mask, mask \subseteq Lane, NEW n \in 1 .. 2, NEW k \in Lane
    PROVE  /\ k \in ShiftLeft(mask, n) <=> k + n \in mask
           /\ k \in ShiftRight(mask, n) <=> k - n \in mask
<1>1. Lane \subseteq Int
  BY DEF Lane, BlockSize
<1>2. k \in ShiftLeft(mask, n) <=> k + n \in mask
  BY <1>1 DEF ShiftLeft
<1>3. k \in ShiftRight(mask, n) <=> k - n \in mask
  BY <1>1 DEF ShiftRight
<1> QED BY <1>2, <1>3

\* Which lanes hold digits, '=' and SOH.
LEMMA MaskLanes ==
    /\ DigitFlags \subseteq Lane /\ TagEndsMask \subseteq Lane /\ FieldEndsMask \subseteq Lane
    /\ \A k \in Lane : /\ k \in DigitFlags <=> IsDigitByte(InLane(k))
                       /\ k \in TagEndsMask <=> InLane(k) = TagEnd
                       /\ k \in FieldEndsMask <=> InLane(k) = FieldEnd
BY DEF DigitFlags, TagEndsMask, FieldEndsMask

\* Two doubling steps reach the digits up to four lanes before a '='.
LEMMA AfterReach ==
    ASSUME NEW k \in Lane
    PROVE  k \in After <=>
             \/ k \in DigitFlags /\ k + 1 \in TagEndsMask
             \/ k \in DigitFlags /\ k + 1 \in DigitFlags /\ k + 2 \in TagEndsMask
             \/ k \in DigitFlags /\ k + 1 \in DigitFlags /\ k + 2 \in DigitFlags
                /\ k + 3 \in TagEndsMask
             \/ k \in DigitFlags /\ k + 1 \in DigitFlags /\ k + 2 \in DigitFlags
                /\ k + 3 \in DigitFlags /\ k + 4 \in TagEndsMask
<1> DEFINE seed  == DigitFlags \intersect ShiftLeft(TagEndsMask, 1)
           once  == seed \union (DigitFlags \intersect ShiftLeft(seed, 1))
           reach == DigitFlags \intersect ShiftLeft(DigitFlags, 1)
<1>1. After = once \union (reach \intersect ShiftLeft(once, 2))
  BY DEF After, Spread
<1>2. seed \subseteq Lane /\ once \subseteq Lane
  BY MaskLanes
<1>3. \A j \in Lane : j \in seed <=> j \in DigitFlags /\ j + 1 \in TagEndsMask
  BY MaskLanes, ShiftedLanes
<1>4. \A j \in Lane : j \in reach <=> j \in DigitFlags /\ j + 1 \in DigitFlags
  BY MaskLanes, ShiftedLanes
<1> HIDE DEF seed, reach
<1>5. \A j \in Lane : j \in once <=> j \in seed \/ (j \in DigitFlags /\ j + 1 \in seed)
  BY <1>2, ShiftedLanes
<1> HIDE DEF once
<1>6. k \in After <=> k \in once \/ (k \in reach /\ k + 2 \in once)
  BY <1>1, <1>2, ShiftedLanes
<1>7. k \in Int /\ (k + 1) + 1 = k + 2 /\ (k + 2) + 1 = k + 3 /\ (k + 3) + 1 = k + 4
  BY DEF Lane, BlockSize
<1> QED BY <1>2, <1>3, <1>4, <1>5, <1>6, <1>7, MaskLanes

\* And up to four lanes behind a SOH.
LEMMA BeforeReach ==
    ASSUME NEW k \in Lane
    PROVE  k \in Before <=>
             \/ k \in DigitFlags /\ k - 1 \in FieldEndsMask
             \/ k \in DigitFlags /\ k - 1 \in DigitFlags /\ k - 2 \in FieldEndsMask
             \/ k \in DigitFlags /\ k - 1 \in DigitFlags /\ k - 2 \in DigitFlags
                /\ k - 3 \in FieldEndsMask
             \/ k \in DigitFlags /\ k - 1 \in DigitFlags /\ k - 2 \in DigitFlags
                /\ k - 3 \in DigitFlags /\ k - 4 \in FieldEndsMask
<1> DEFINE seed  == DigitFlags \intersect ShiftRight(FieldEndsMask, 1)
           once  == seed \union (DigitFlags \intersect ShiftRight(seed, 1))
           reach == DigitFlags \intersect ShiftRight(DigitFlags, 1)
<1>1. Before = once \union (reach \intersect ShiftRight(once, 2))
  BY DEF Before, Spread
<1>2. seed \subseteq Lane /\ once \subseteq Lane
  BY MaskLanes
<1>3. \A j \in Lane : j \in seed <=> j \in DigitFlags /\ j - 1 \in FieldEndsMask
  BY MaskLanes, ShiftedLanes
<1>4. \A j \in Lane : j \in reach <=> j \in DigitFlags /\ j - 1 \in DigitFlags
  BY MaskLanes, ShiftedLanes
<1> HIDE DEF seed, reach
<1>5. \A j \in Lane : j \in once <=> j \in seed \/ (j \in DigitFlags /\ j - 1 \in seed)
  BY <1>2, ShiftedLanes
<1> HIDE DEF once
<1>6. k \in Before <=> k \in once \/ (k \in reach /\ k - 2 \in once)
  BY <1>1, <1>2, ShiftedLanes
<1>7. k \in Int /\ (k - 1) - 1 = k - 2 /\ (k - 2) - 1 = k - 3 /\ (k - 3) - 1 = k - 4
  BY DEF Lane, BlockSize
<1> QED BY <1>2, <1>3, <1>4, <1>5, <1>6, <1>7, MaskLanes

LEMMA AfterExact ==
    ASSUME NEW k \in Lane
    PROVE  k \in After <=> EndsTag(k)
<1>1. k \in Int /\ \A e \in Lane : e \in Int
  BY DEF Lane, BlockSize
<1>2. ASSUME EndsTag(k) PROVE k \in After
  <2>1. PICK e \in Lane : e \in k + 1 .. k + 4 /\ InLane(e) = TagEnd /\ DigitsIn(k, e - 1)
    BY <1>2 DEF EndsTag
  <2>2. e \in TagEndsMask
    BY <2>1, MaskLanes
  <2>3. \A j \in k .. e - 1 : j \in DigitFlags
    <3>1. \A j \in k .. e - 1 : j \in Lane
      BY <1>1 DEF Lane, BlockSize
    <3> QED BY <2>1, <3>1, MaskLanes DEF DigitsIn
  <2>4. e = k + 1 \/ e = k + 2 \/ e = k + 3 \/ e = k + 4
    BY <1>1, <2>1
  <2> QED BY <1>1, <2>2, <2>3, <2>4, AfterReach
<1>3. ASSUME k \in After PROVE EndsTag(k)
  <2>1. PICK e \in k + 1 .. k + 4 : e \in TagEndsMask /\ \A j \in k .. e - 1 : j \in DigitFlags
    BY <1>1, <1>3, AfterReach
  <2>2. e \in Lane /\ InLane(e) = TagEnd
    BY <2>1, MaskLanes
  <2>3. DigitsIn(k, e - 1)
    BY <2>1, MaskLanes DEF DigitsIn
  <2> QED BY <2>1, <2>2, <2>3 DEF EndsTag
<1> QED BY <1>2, <1>3

LEMMA BeforeExact ==
    ASSUME NEW k \in Lane
    PROVE  k \in Before <=> StartsTag(k)
<1>1. k \in Int /\ \A e \in Lane : e \in Int
  BY DEF Lane, BlockSize
<1>2. ASSUME StartsTag(k) PROVE k \in Before
  <2>1. PICK e \in Lane : e \in k - 4 .. k - 1 /\ InLane(e) = FieldEnd /\ DigitsIn(e + 1, k)
    BY <1>2 DEF StartsTag
  <2>2. e \in FieldEndsMask
    BY <2>1, MaskLanes
  <2>3. \A j \in e + 1 .. k : j \in DigitFlags
    <3>1. \A j \in e + 1 .. k : j \in Lane
      BY <1>1 DEF Lane, BlockSize
    <3> QED BY <2>1, <3>1, MaskLanes DEF DigitsIn
  <2>4. e = k - 1 \/ e = k - 2 \/ e = k - 3 \/ e = k - 4
    BY <1>1, <2>1
  <2> QED BY <1>1, <2>2, <2>3, <2>4, BeforeReach
<1>3. ASSUME k \in Before PROVE StartsTag(k)
  <2>1. PICK e \in k - 4 .. k - 1 : e \in FieldEndsMask /\ \A j \in e + 1 .. k : j \in DigitFlags
    BY <1>1, <1>3, BeforeReach
  <2>2. e \in Lane /\ InLane(e) = FieldEnd
    BY <2>1, MaskLanes
  <2>3. DigitsIn(e + 1, k)
    BY <2>1, MaskLanes DEF DigitsIn
  <2> QED BY <2>1, <2>2, <2>3 DEF StartsTag
<1> QED BY <1>2, <1>3

\* In every block the two doubling steps find exactly the digits that reach a '=' or a
\* SOH over at most four lanes, whatever the bytes are (PayloadDecoder.hpp:214-228).
THEOREM DoublingExact == Spec => []TagLanesExact
<1>1. TagLanesExact
  <2> DEFINE first == IF offset = 0 THEN 1 ELSE 0
  <2>1. ASSUME NEW k PROVE k \in TagLanes <=>
                             k \in first .. BlockSize - 1 /\ (EndsTag(k) \/ StartsTag(k))
    <3>1. k \in first .. BlockSize - 1 <=> k \in Lane /\ (offset = 0 => k # 0)
      BY DEF Lane, BlockSize
    <3>2. k \in TagLanes <=> k \in After \union Before /\ (offset = 0 => k # 0)
      BY DEF TagLanes
    <3>3. After \subseteq Lane /\ Before \subseteq Lane
      BY MaskLanes DEF After, Before, Spread
    <3> HIDE DEF first
    <3> QED BY <3>1, <3>2, <3>3, AfterExact, BeforeExact
  <2>2. TagLanes = {k \in first .. BlockSize - 1 : EndsTag(k) \/ StartsTag(k)}
    <3> HIDE DEF first
    <3> QED BY <2>1
  <2> QED BY <2>2 DEF TagLanesExact
<1> QED BY <1>1, PTL
-----------------------------------------------------------------------------
(***************************************************************************)
(* Sums, answers and types.                                                *)
(***************************************************************************)
\* The scan never leaves the bytes that the length, modulo 65536, covers.
InLength ==
    /\ pc \in {"block", "tags"} => offset + BlockSize <= Length
    /\ pc \in {"trailer", "walk", "check"} => offset <= Length

SumInv == InLength /\ SumExact

-----------------------------------------------------------------------------
(***************************************************************************)
(* Sums of the buffer's bytes.                                             *)
(***************************************************************************)
LEMMA BytesAreNumbers ==
    ASSUME NEW b \in Seq(Byte)
    PROVE  b \in Seq(Int) /\ Len(b) \in Nat
<1>1. Byte \subseteq Int
  BY DEF Byte
<1>2. Len(b) \in Nat /\ \A i \in 1 .. Len(b) : b[i] \in Byte
  OBVIOUS
<1>3. b = [i \in 1 .. Len(b) |-> b[i]]
  OBVIOUS
<1>4. b \in [1 .. Len(b) -> Int]
  BY <1>1, <1>2, <1>3
<1> QED BY <1>2, <1>4

\* Extending a sum, cutting it back, and what it is about nothing.
LEMMA SumSplits ==
    ASSUME buffer \in Seq(Byte), NEW from \in Nat, NEW to \in Nat, to <= Len(buffer)
    PROVE  /\ Sum(from, to) \in Int
           /\ to <= from => Sum(from, to) = 0
           /\ from <= to => Sum(0, to) = Sum(0, from) + Sum(from, to)
<1>1. buffer \in Seq(Int) /\ Len(buffer) \in Nat
  BY BytesAreNumbers
<1>2. CASE to <= from
  <2>1. Sum(from, to) = 0
    BY <1>1, <1>2, SumOfNothing DEF Sum
  <2>2. from <= to => from = to
    BY <1>2
  <2>3. Sum(0, to) \in Int
    <3>1. Sum(0, to) = PartialSums(buffer)[to] - PartialSums(buffer)[0]
      BY <1>1, SumOfSlice DEF Sum
    <3>2. PartialSums(buffer)[to] \in Int /\ PartialSums(buffer)[0] \in Int
      BY <1>1, PartialSumsType
    <3> QED BY <3>1, <3>2
  <2> QED BY <2>1, <2>2, <2>3
<1>3. CASE from < to
  <2> DEFINE sums == PartialSums(buffer)
  <2>1. sums[0] \in Int /\ sums[from] \in Int /\ sums[to] \in Int
    BY <1>1, <1>3, PartialSumsType
  <2>2. Sum(0, from) = sums[from] - sums[0]
    BY <1>1, <1>3, SumOfSlice DEF Sum
  <2>3. Sum(0, to) = sums[to] - sums[0]
    BY <1>1, SumOfSlice DEF Sum
  <2>4. Sum(from, to) = sums[to] - sums[from]
    BY <1>1, <1>3, SumOfSlice DEF Sum
  <2> HIDE DEF sums
  <2> QED BY <1>3, <2>1, <2>2, <2>3, <2>4
<1> QED BY <1>2, <1>3

\* Moving the end of a sum, forwards or backwards.
LEMMA SumMoves ==
    ASSUME buffer \in Seq(Byte), NEW a \in Nat, NEW b \in Nat,
           a <= Len(buffer), b <= Len(buffer)
    PROVE  Sum(0, a) - Sum(b, a) + Sum(a, b) = Sum(0, b)
<1>1. Sum(0, a) \in Int /\ Sum(0, b) \in Int /\ Sum(a, b) \in Int /\ Sum(b, a) \in Int
  BY SumSplits
<1>2. CASE a <= b
  <2>1. Sum(b, a) = 0 /\ Sum(0, b) = Sum(0, a) + Sum(a, b)
    BY <1>2, SumSplits
  <2> QED BY <1>1, <2>1
<1>3. CASE b <= a
  <2>1. Sum(a, b) = 0 /\ Sum(0, a) = Sum(0, b) + Sum(b, a)
    BY <1>3, SumSplits
  <2> QED BY <1>1, <2>1
<1> QED BY <1>2, <1>3

\* Where the scan goes next, it stays in the length.
LEMMA ResumeInLength ==
    ASSUME buffer \in Seq(Byte), NEW from \in Nat, from <= Length, NEW complete,
           UNCHANGED buffer, offset' = from, pc' = Resume(from, complete)
    PROVE  InLength' /\ pc' \in {"block", "trailer", "check"}
<1>1. Length \in Nat /\ Length' = Length
  BY LengthType DEF Length
<1>2. pc' \in {"block", "trailer", "check"}
  BY ResumeInBuffer
<1>3. pc' = "block" => from + BlockSize <= Length
  BY <1>1 DEF Resume, BlockSize
<1> QED BY <1>1, <1>2, <1>3 DEF InLength

\* The sum up to the offset is what a step with no block loaded leaves.
LEMMA SumUpTo ==
    ASSUME buffer \in Seq(Byte), UNCHANGED buffer, offset' \in Nat, offset' <= Length,
           blockSum' = Sum(0, offset'), pc' # "tags"
    PROVE  SumExact'
<1>1. Len(buffer) \in Nat /\ Length <= Len(buffer) /\ Length \in Nat
  BY LengthType
<1>2. Lower(offset', Len(buffer)) = offset'
  BY <1>1 DEF Lower
<1> QED BY <1>2 DEF SumExact, Sum

\* And the same the other way.
LEMMA SumIsUpTo ==
    ASSUME buffer \in Seq(Byte), offset \in Nat, SumInv
    PROVE  /\ pc \in {"block", "trailer", "walk", "check"} => blockSum = Sum(0, offset)
           /\ pc = "tags" => blockSum = Sum(0, offset + BlockSize)
<1>1. Len(buffer) \in Nat /\ Length <= Len(buffer) /\ Length \in Nat
  BY LengthType
<1>2. ASSUME pc \in {"block", "trailer", "walk", "check"} PROVE blockSum = Sum(0, offset)
  <2>1. offset <= Length
    BY <1>1, <1>2 DEF SumInv, InLength, BlockSize
  <2>2. Lower(offset, Len(buffer)) = offset
    BY <1>1, <2>1 DEF Lower
  <2> QED BY <1>2, <2>2 DEF SumInv, SumExact, Sum
<1> QED BY <1>2 DEF SumInv, SumExact

-----------------------------------------------------------------------------
(***************************************************************************)
(* Every step keeps the sum exact.                                         *)
(***************************************************************************)
LEMMA SumParse ==
    ASSUME NEW b \in Seq(Byte), Parse(b)
    PROVE  SumInv'
<1>1. CASE ParseShort(b) \/ ParseForeign(b)
  <2>1. pc' = "idle"
    BY <1>1 DEF ParseShort, ParseForeign, Return
  <2> QED BY <2>1 DEF SumInv, InLength, SumExact
<1>2. CASE ParseBegin(b)
  <2>1. buffer' = b /\ offset' = 0 /\ blockSum' = 0
    BY <1>2 DEF ParseBegin, ParseCall
  <2>2. b \in Seq(Int) /\ Len(b) \in Nat
    BY DecoderAssumption, BytesAreNumbers
  <2>3. Length' \in Nat
    <3>1. Length' = Cast16(Len(b))
      BY <2>1 DEF Length
    <3>2. Cast16(Len(b)) \in Nat
      BY <2>2 DEF Cast16
    <3> QED BY <3>1, <3>2
  <2>4. pc' \in {"block", "trailer", "check"} /\ (pc' = "block" => 15 < Length')
    <3>1. pc' = IF 0 + BlockSize - 1 < Length' THEN "block"
                ELSE IF 0 < Len(buffer') THEN "trailer" ELSE "check"
      BY <1>2 DEF ParseBegin, Resume
    <3> QED BY <2>3, <3>1 DEF BlockSize
  <2>5. InLength'
    BY <2>1, <2>3, <2>4 DEF InLength, BlockSize
  <2>6. SumExact'
    <3>1. Lower(0, Len(b)) = 0
      BY <2>2 DEF Lower
    <3>2. SumOf(Slice(b, 0, 0)) = 0
      BY <2>2, SumOfNothing
    <3> QED BY <2>1, <2>4, <3>1, <3>2 DEF SumExact
  <2> QED BY <2>5, <2>6 DEF SumInv
<1> QED BY <1>1, <1>2 DEF Parse

\* A skip re-bases the sum to where the scan goes on.
LEMMA SumSkip ==
    ASSUME ScanInv, ScanInv', offset + BlockSize <= Length, UNCHANGED buffer,
           NEW fields, NEW sum, sum = Sum(0, offset + BlockSize), SkipPayload(fields, sum)
    PROVE  SumInv'
<1>1. buffer \in Seq(Byte) /\ offset \in Nat /\ offset' \in Nat
  BY DEF ScanInv
<1>2. Length \in Nat /\ Length <= Len(buffer) /\ Len(buffer) \in Nat
  BY <1>1, LengthType
<1>3. /\ offset' <= Length
      /\ blockSum' = RebasedSum(sum, offset + BlockSize, offset')
      /\ pc' = Resume(offset', FALSE)
  <2> DEFINE field    == fields[last]
             size     == NumberAt(field, Length) % Uint32
             position == FindTagEnd(field.position + field.length + 1) + 1
             resume   == (position + size + 1) % Uint32
             skipEnd  == Lower(resume, Length)
  <2>1. /\ blockSum' = RebasedSum(sum, offset + BlockSize, skipEnd)
        /\ offset' = skipEnd
        /\ pc' = Resume(skipEnd, FALSE)
    BY DEF SkipPayload
  <2> HIDE DEF resume
  <2>2. skipEnd <= Length
    <3>1. resume <= Length \/ ~(resume <= Length)
      OBVIOUS
    <3> QED BY <1>2, <3>1 DEF Lower
  <2> HIDE DEF skipEnd
  <2> QED BY <2>1, <2>2
<1>4. offset + BlockSize \in Nat /\ offset + BlockSize <= Len(buffer)
  BY <1>1, <1>2 DEF BlockSize
<1>5. offset' <= Len(buffer)
  BY <1>1, <1>2, <1>3
<1>6. blockSum' = Sum(0, offset')
  BY <1>1, <1>3, <1>4, <1>5, SumMoves DEF RebasedSum
<1>7. InLength' /\ pc' \in {"block", "trailer", "check"}
  BY <1>1, <1>3, ResumeInLength
<1> QED BY <1>1, <1>3, <1>6, <1>7, SumUpTo DEF SumInv

\* A block is loaded: its bytes are added at once.
LEMMA SumLoad ==
    ASSUME ScanInv, ScanInv', SumInv, LoadBlock \/ LoadBlockAfterSplitTag
    PROVE  SumInv'
<1> DEFINE sum == blockSum + Sum(offset, offset + BlockSize)
<1>1. buffer \in Seq(Byte) /\ offset \in Nat /\ pc = "block" /\ UNCHANGED buffer
  BY DEF ScanInv, LoadBlock, LoadBlockAfterSplitTag
<1>2. Length \in Nat /\ Length <= Len(buffer) /\ Len(buffer) \in Nat
  BY <1>1, LengthType
<1>3. offset + BlockSize <= Length
  BY <1>1 DEF SumInv, InLength
<1>4. offset + BlockSize \in Nat /\ offset + BlockSize <= Len(buffer) /\ offset <= offset + BlockSize
  BY <1>1, <1>2, <1>3 DEF BlockSize
<1>5. sum = Sum(0, offset + BlockSize)
  BY <1>1, <1>4, SumIsUpTo, SumSplits
<1> HIDE DEF sum
<1>6. CASE pc' = "tags" /\ blockSum' = sum /\ UNCHANGED offset
  <2>1. InLength'
    BY <1>1, <1>3, <1>6 DEF InLength, Length
  <2>2. SumExact'
    BY <1>1, <1>5, <1>6 DEF SumExact, Sum
  <2> QED BY <2>1, <2>2 DEF SumInv
<1>7. CASE LoadBlock
  BY <1>6, <1>7 DEF LoadBlock, sum
<1>8. CASE LoadBlockAfterSplitTag
  <2> DEFINE closed == [mFields EXCEPT ![last].length =
                           Cast16(mPosition + offset - 1 - mFields[last].position)]
  <2>1. CASE IsDataLength(closed[last])
    <3>1. SkipPayload(closed, sum)
      BY <1>8, <2>1 DEF LoadBlockAfterSplitTag, sum
    <3> HIDE DEF closed
    <3> QED BY <1>1, <1>3, <1>5, <3>1, SumSkip
  <2>2. CASE ~IsDataLength(closed[last])
    <3>1. pc' = "tags" /\ blockSum' = sum /\ UNCHANGED offset
      BY <1>8, <2>2 DEF LoadBlockAfterSplitTag, sum
    <3> QED BY <1>6, <3>1
  <2> QED BY <2>1, <2>2
<1> QED BY <1>7, <1>8

LEMMA SumTokenizeTag ==
    ASSUME ScanInv, ScanInv', SumInv, TokenizeTag
    PROVE  SumInv'
<1> DEFINE first  == Least(lanes)
           closed == [mFields EXCEPT ![last].length =
                         Cast16(@ + offset + first - mFields[last].position - 1)]
<1>1. buffer \in Seq(Byte) /\ offset \in Nat /\ pc = "tags" /\ UNCHANGED buffer
  BY DEF ScanInv, TokenizeTag
<1>2. offset + BlockSize <= Length /\ blockSum = Sum(0, offset + BlockSize)
  BY <1>1, SumIsUpTo DEF SumInv, InLength
<1>3. CASE IsDataLength(closed[last])
  <2>1. SkipPayload(closed, blockSum)
    BY <1>3 DEF TokenizeTag
  <2> HIDE DEF closed
  <2> QED BY <1>1, <1>2, <2>1, SumSkip
<1>4. CASE ~IsDataLength(closed[last])
  <2>1. UNCHANGED <<pc, offset, blockSum>>
    BY <1>4 DEF TokenizeTag
  <2> QED BY <1>1, <2>1 DEF SumInv, InLength, SumExact, Sum, Length
<1> QED BY <1>3, <1>4

LEMMA SumEndBlock ==
    ASSUME ScanInv, ScanInv', SumInv, EndBlock
    PROVE  SumInv'
<1>1. /\ buffer \in Seq(Byte) /\ offset \in Nat /\ offset' \in Nat /\ pc = "tags"
      /\ UNCHANGED <<buffer, blockSum>> /\ offset' = offset + BlockSize
  BY DEF ScanInv, EndBlock
<1>2. PICK complete : pc' = Resume(offset', complete)
  BY <1>1 DEF EndBlock
<1>3. offset' <= Length /\ blockSum' = Sum(0, offset')
  BY <1>1, SumIsUpTo DEF SumInv, InLength
<1>4. InLength' /\ pc' \in {"block", "trailer", "check"}
  BY <1>1, <1>2, <1>3, ResumeInLength
<1> QED BY <1>1, <1>3, <1>4, SumUpTo DEF SumInv

\* The trailer's bytes are not added: the checks do that.
LEMMA SumTrailer ==
    ASSUME ScanInv, SumInv, \/ TrailerAfterSplitTag \/ TrailerAfterSplitValue \/ TrailerAtTag
                            \/ WalkField \/ WalkCheckSum
    PROVE  SumInv'
<1>1. /\ pc \in {"trailer", "walk"} /\ pc' \in {"walk", "check"}
      /\ UNCHANGED <<buffer, offset, blockSum>>
  BY DEF TrailerAfterSplitTag, TrailerAfterSplitValue, TrailerAtTag, WalkField, WalkCheckSum
<1> QED BY <1>1 DEF SumInv, InLength, SumExact, Length

LEMMA SumRescan ==
    ASSUME ScanInv, ScanInv', Rescan
    PROVE  SumInv'
<1>1. buffer \in Seq(Byte) /\ offset' \in Nat /\ UNCHANGED buffer
  BY DEF ScanInv, Rescan
<1>2. /\ offset' \in RescanStarts(FirstDataSlot) /\ FirstDataSlot < mCount
      /\ blockSum' = Sum(0, offset') /\ pc' = Resume(offset', FALSE)
  BY DEF Rescan
<1>3. offset' <= Length
  <2> DEFINE value == mFields[FirstDataSlot].position
  <2>1. offset' <= value - 2 /\ value <= Length
    BY <1>2 DEF RescanStarts
  <2>2. value \in Int
    <3>1. mCount \in 0 .. Capacity /\ Extents(mFields)
      BY DEF ScanInv
    <3>2. FirstDataSlot \in Slot
      BY <1>2, <3>1, FirstDataSlotType
    <3> QED BY <3>1, <3>2, ExtentType DEF Extents
  <2>3. Length \in Int
    BY <1>1, LengthType
  <2> HIDE DEF value
  <2> QED BY <1>1, <2>1, <2>2, <2>3
<1>4. InLength' /\ pc' \in {"block", "trailer", "check"}
  BY <1>1, <1>2, <1>3, ResumeInLength
<1> QED BY <1>1, <1>2, <1>3, <1>4, SumUpTo DEF SumInv

LEMMA SumRest ==
    ASSUME SumInv, \/ Check \/ DropDone \/ DropNext \/ DropPayloadTokens \/ DropFails
                   \/ RescanImpossible
    PROVE  SumInv'
<1>1. pc' \in {"idle", "drop", "rescan"}
  BY DEF Check, DropDone, DropNext, DropPayloadTokens, DropFails, RescanImpossible
<1> QED BY <1>1 DEF SumInv, InLength, SumExact

LEMMA SumStep ==
    ASSUME ScanInv, ScanInv', SumInv, Step \/ Called
    PROVE  SumInv'
<1>1. CASE Called
  BY <1>1, SumParse DEF Called
<1>2. CASE LoadBlock \/ LoadBlockAfterSplitTag \/ TokenizeTag \/ EndBlock
  BY <1>2, SumLoad, SumTokenizeTag, SumEndBlock
<1>3. CASE \/ TrailerAfterSplitTag \/ TrailerAfterSplitValue \/ TrailerAtTag
           \/ WalkField \/ WalkCheckSum
  BY <1>3, SumTrailer
<1>4. CASE \/ Check \/ DropDone \/ DropNext \/ DropPayloadTokens \/ DropFails
           \/ RescanImpossible
  BY <1>4, SumRest
<1>5. CASE Rescan
  BY <1>5, SumRescan
<1> QED BY <1>1, <1>2, <1>3, <1>4, <1>5 DEF Step

\* Exact sums, and a scan inside the length, are kept together.
THEOREM SumInvHolds == Spec => []SumInv
<1>1. Init => SumInv
  BY DEF Init, SumInv, InLength, SumExact
<1>2. ASSUME ScanInv, ScanInv', SumInv, [Next]_vars PROVE SumInv'
  <2>1. CASE Call \/ Step
    BY <1>2, <2>1, SumStep, CallsHaveBytes
  <2>2. CASE UNCHANGED vars
    BY <1>2, <2>2 DEF vars, SumInv, InLength, SumExact, Length, Sum
  <2> QED BY <1>2, <2>1, <2>2 DEF Next
<1> QED BY <1>1, <1>2, ScanInvHolds, PTL DEF Spec

\* The running byte sum covers exactly the bytes up to the scan offset, for every
\* buffer and every way through it: blocks, skipped payloads, rescans
\* (PayloadDecoder.hpp:206, 381-394, 638-648).
THEOREM SumAlwaysExact == Spec => []SumExact
<1>1. SumInv => SumExact
  BY DEF SumInv
<1> QED BY <1>1, SumInvHolds, PTL

-----------------------------------------------------------------------------
(***************************************************************************)
(* The verdict.  Between the checks and the caller the tokens made from    *)
(* payload bytes are dropped; what the verdict was about stays.            *)
(***************************************************************************)
Justified ==
    /\ result.processed \in Nat /\ result.processed <= Length
    /\ result.status = "Success" =>
           /\ mCount > 0
           /\ At(buffer, mFields[last].position - 1) # FieldEnd
           /\ result.processed > 0 => mCount > MessageTypePosition
           /\ VerdictSound(buffer, result.processed, mFields[last], mFields[BodyLengthPosition],
                           mFields[MessageTypePosition])

AnswerInv == pc \in {"idle", "drop", "rescan"} /\ parses > 0 => Justified

\* The mask asks for bits that a SOH does not have.
LEMMA TagEndIsNoFieldEnd == ASSUME NEW b, HasBits(b, TagEnd) PROVE b # FieldEnd
<1>1. 2^2 = 4 /\ TagEnd \div 4 = 15 /\ 15 % 2 = 1 /\ 1 \div 4 = 0 /\ 0 % 2 = 0 /\ 2 \in 0 .. 7
  BY DEF TagEnd
<1>2. (b \div 4) % 2 = 1
  BY <1>1 DEF HasBits
<1> QED BY <1>1, <1>2 DEF FieldEnd

\* The checks compare the CheckSum with the sum of the bytes before it.
LEMMA CheckSumChecked ==
    ASSUME ScanInv, SumInv, pc = "check", ProcessCheckSum = "Success"
    PROVE  /\ At(buffer, mFields[last].position - 1) # FieldEnd
           /\ CheckSumRight(buffer, mFields[last])
<1> DEFINE position == mFields[last].position
           scanEnd  == Lower(offset, Length)
           sum      == blockSum - Sum(position - 3, scanEnd) + Sum(scanEnd, position - 3)
<1>1. buffer \in Seq(Byte) /\ offset \in Nat /\ Length \in Nat /\ Length <= Len(buffer)
  BY LengthType DEF ScanInv
<1>2. position \in Nat
  BY LastType DEF ScanInv
<1>3. offset <= Length /\ blockSum = Sum(0, offset)
  BY <1>1, SumIsUpTo DEF SumInv, InLength
<1>4. scanEnd = offset
  BY <1>1, <1>3 DEF Lower
<1>5. /\ ~(position < 4 \/ position + 4 > Length)
      /\ HasCheckSumMask(position)
      /\ asciiToUint64(Slice(buffer, position, position + 3)) = sum % 256
  BY DEF ProcessCheckSum
<1> HIDE DEF position
<1>6. position \in 4 .. Length - 4 /\ position - 3 \in Nat /\ position - 3 <= Len(buffer)
  BY <1>1, <1>2, <1>5
<1>7. offset <= Len(buffer)
  BY <1>1, <1>3
<1>8. sum = Sum(0, position - 3)
  BY <1>1, <1>3, <1>4, <1>6, <1>7, SumMoves
<1>9. At(buffer, position - 1) # FieldEnd
  BY <1>5, TagEndIsNoFieldEnd DEF HasCheckSumMask
<1> QED BY <1>5, <1>6, <1>8, <1>9 DEF CheckSumRight, Sum, Length, position

LEMMA VerdictOfCheck ==
    ASSUME ScanInv, SumInv, Check
    PROVE  Justified'
<1> DEFINE check     == mFields[last]
           body      == mFields[BodyLengthPosition]
           type      == mFields[MessageTypePosition]
           has       == check.tag = CheckSumTag /\ check.position + check.length + 1 <= Length
           processed == IF has THEN check.position + check.length + 1 ELSE 0
           length    == NumberAt(body, Length)
           wrong     == body.position + body.length > Length
           byteCount == check.position - body.position - body.length - 4
<1>1. pc = "check" /\ result' = CheckRequiredFields /\ UNCHANGED <<buffer, mCount>> /\ mCount > 0
  BY DEF Check, ScanInv
<1>2. check.position \in Nat /\ check.length \in Nat /\ Length \in Nat
  BY <1>1, LastType, LengthType DEF ScanInv
<1>3. UNCHANGED <<last, Length>>
  BY <1>1 DEF last, Length
<1>4. /\ result'.processed \in {processed, 0}
      /\ result'.status = "Success" =>
             /\ ProcessCheckSum = "Success"
             /\ result'.processed = processed
             /\ has => /\ ~wrong
                       /\ body.tag = BodyLengthTag
                       /\ byteCount = length
                       /\ type.tag = MessageTypeTag
                       /\ mCount >= RequiredFieldCount
  <2> DEFINE final == CASE body.tag # BodyLengthTag -> "InvalidBodyLengthTag"
                        [] body.tag = BodyLengthTag /\ byteCount # length -> "InvalidBodyLength"
                        [] OTHER ->
                             IF type.tag # MessageTypeTag THEN "InvalidMessageTypeTag"
                             ELSE IF mCount < RequiredFieldCount
                             THEN "RequiredFieldMissing" ELSE ProcessCheckSum
  <2>1. CheckRequiredFields =
            IF wrong THEN Returned(processed, "InvalidBodyLength")
            ELSE IF has THEN Returned(processed, final)
            ELSE IF byteCount < length THEN Returned(0, "MessageFragment")
            ELSE Returned(0, ProcessCheckSum)
    BY DEF CheckRequiredFields
  <2>2. has /\ final = "Success" =>
            /\ ProcessCheckSum = "Success" /\ body.tag = BodyLengthTag
            /\ byteCount = length /\ type.tag = MessageTypeTag /\ mCount >= RequiredFieldCount
    <3> HIDE DEF length, byteCount
    <3>1. mCount \in Int
      BY DEF ScanInv
    <3> QED BY <3>1 DEF RequiredFieldCount
  <2> HIDE DEF final, wrong, has, byteCount, length
  <2>3. CASE wrong
    BY <1>1, <2>1, <2>3 DEF Returned
  <2>4. CASE ~wrong /\ has
    BY <1>1, <2>1, <2>2, <2>4 DEF Returned
  <2>5. CASE ~wrong /\ ~has
    BY <1>1, <2>1, <2>5 DEF Returned
  <2> QED BY <2>3, <2>4, <2>5
<1>5. result'.processed \in Nat /\ result'.processed <= Length'
  <2>1. processed \in Nat /\ processed <= Length
    BY <1>2
  <2> HIDE DEF processed
  <2> QED BY <1>2, <1>3, <1>4, <2>1
<1>6. ASSUME result'.status = "Success"
      PROVE  /\ At(buffer', mFields'[last'].position - 1) # FieldEnd
             /\ result'.processed > 0 => mCount' > MessageTypePosition
             /\ VerdictSound(buffer, result.processed, mFields[last], mFields[BodyLengthPosition],
                             mFields[MessageTypePosition])'
  <2>1. mFields' = mFields
    BY <1>6 DEF Check
  <2>2. At(buffer, check.position - 1) # FieldEnd /\ CheckSumRight(buffer, check)
    BY <1>1, <1>4, <1>6, CheckSumChecked
  <2>3. CheckSumRight(buffer, mFields[last])'
    BY <1>1, <1>3, <2>1, <2>2 DEF CheckSumRight
  <2>4. result'.processed > 0 =>
            Framed(buffer, result.processed, mFields[last], mFields[BodyLengthPosition],
                   mFields[MessageTypePosition])'
    <3> HIDE DEF byteCount, length, wrong
    <3>1. SUFFICES ASSUME result'.processed > 0
                   PROVE  Framed(buffer, result.processed, mFields[last],
                                 mFields[BodyLengthPosition], mFields[MessageTypePosition])'
      OBVIOUS
    <3>2. has /\ result'.processed = check.position + check.length + 1
      BY <1>4, <1>6, <3>1
    <3>3. ~wrong /\ body.tag = BodyLengthTag /\ byteCount = length /\ type.tag = MessageTypeTag
          /\ mCount >= RequiredFieldCount
      BY <1>4, <1>6, <3>2
    <3> DEFINE text == Slice(buffer, body.position, body.position + body.length)
    <3>4. ASSUME Len(text) <= 8, \A i \in DOMAIN text : IsDigitByte(text[i])
          PROVE  asciiToUint64(text) = byteCount
      <4>1. body.position \in Nat /\ body.length \in Nat
        <5>1. BodyLengthPosition \in Slot
          BY <3>3, DecoderAssumption DEF BodyLengthPosition, Slot
        <5> QED BY <5>1, ExtentType DEF ScanInv, Extents
      <4>2. body.position + body.length <= Len(buffer)
        BY <1>1, <3>3, <4>1, LengthType DEF ScanInv, wrong
      <4>3. NumberAt(body, Length) = asciiToUint64(text)
        BY <3>4, <4>1, <4>2, NumberOfDigits DEF ScanInv
      <4> QED BY <3>3, <4>3 DEF length
    <3>5. Framed(buffer, check.position + check.length + 1, check, body, type)
      BY <3>3, <3>4 DEF Framed, byteCount
    <3>6. /\ buffer' = buffer /\ result'.processed = check.position + check.length + 1
          /\ (mFields[last])' = check /\ (mFields[BodyLengthPosition])' = body
          /\ (mFields[MessageTypePosition])' = type
      BY <1>1, <1>3, <2>1, <3>2
    <3> QED BY <3>5, <3>6 DEF Framed
  <2>5. result'.processed > 0 => mCount' > MessageTypePosition
    BY <1>1, <1>4, <1>6 DEF ScanInv, RequiredFieldCount, MessageTypePosition
  <2> QED BY <1>1, <1>3, <2>1, <2>2, <2>3, <2>4, <2>5 DEF VerdictSound
<1> QED BY <1>1, <1>5, <1>6 DEF Justified

\* Moving tokens down: the CheckSum's token starts behind the payload's SOH, so it is
\* not dropped, and the tokens at the front do not move.
LEMMA VerdictDropped ==
    ASSUME ScanInv, Justified, DropPayloadTokens
    PROVE  Justified'
<1> DEFINE from    == index + 2
           ends    == {j \in from .. mCount : j = mCount \/ ~MadeFromPayload(j, index)}
           next    == Least(ends)
           dropped == next - from
           sized   == [mFields EXCEPT ![index + 1].length = Cast16(PayloadLength(index))]
<1>1. /\ mCount \in 0 .. Capacity /\ buffer \in Seq(Byte) /\ Extents(mFields)
      /\ index \in Nat /\ index > 2 /\ index + 2 < mCount
      /\ LaidOutAsExpected(index)
  BY DEF ScanInv, DropPayloadTokens, DropSlots, MessageTypePosition
<1>2. /\ mFields' = Moved(sized, from, dropped)
      /\ mCount' = mCount - dropped
      /\ UNCHANGED <<buffer, result>>
  BY DEF DropPayloadTokens
<1>3. UNCHANGED Length
  BY <1>2 DEF Length
<1>4. ASSUME result'.status = "Success"
      PROVE  /\ mCount' > 0 /\ mCount' > 2
             /\ mFields'[last'] = mFields[last]
             /\ mFields'[1] = mFields[1] /\ mFields'[2] = mFields[2]
  <2>1. At(buffer, mFields[last].position - 1) # FieldEnd
    BY <1>2, <1>4 DEF Justified
  <2>2. last \in from .. mCount /\ last \in Slot /\ mFields[last].position \in Nat
    <3>1. last \in Slot /\ mFields[last].position \in Nat
      BY <1>1, LastType
    <3> QED BY <1>1, <3>1 DEF last
  <2>3. ~MadeFromPayload(last, index)
    <3> DEFINE end == PayloadEnd(index)
    <3>1. end \in 0 .. mFields[last].position - 1 /\ At(buffer, end) = FieldEnd
      BY <1>1 DEF LaidOutAsExpected
    <3> HIDE DEF end
    <3>2. end # mFields[last].position - 1
      BY <2>1, <3>1
    <3>3. end + 1 < mFields[last].position
      BY <2>2, <3>1, <3>2
    <3> QED BY <2>2, <3>1, <3>3 DEF MadeFromPayload, end
  <2>4. next \in from .. last
    <3>1. last \in ends
      BY <2>2, <2>3
    <3>2. ends \in SUBSET Nat /\ ends \subseteq from .. mCount
      BY <1>1
    <3> HIDE DEF ends
    <3>3. next \in ends /\ next <= last
      BY <3>1, <3>2, LeastOfNat
    <3> HIDE DEF next
    <3> QED BY <1>1, <2>2, <3>2, <3>3
  <2> HIDE DEF next
  <2>5. dropped \in Nat /\ dropped <= last - from /\ last \in Int /\ mCount \in Int
    BY <1>1, <2>2, <2>4
  <2> HIDE DEF dropped
  <2>6. last' = last - dropped
    BY <1>2, <2>5 DEF last
  <2>7. last' \in from .. last - dropped /\ last' \in Slot /\ last' + dropped = last
    BY <1>1, <2>2, <2>5, <2>6, DecoderAssumption DEF Slot
  <2>8. last # index + 1 /\ 1 \in Slot /\ 2 \in Slot /\ 1 # index + 1 /\ 2 # index + 1
        /\ 1 \notin from .. last - dropped /\ 2 \notin from .. last - dropped
    BY <1>1, <2>2, DecoderAssumption DEF Slot
  <2>9. sized[last] = mFields[last] /\ sized[1] = mFields[1] /\ sized[2] = mFields[2]
    BY <1>1, <2>2, <2>8 DEF Extents
  <2> HIDE DEF sized, from
  <2>10. /\ Moved(sized, from, dropped)[last'] = sized[last]
         /\ Moved(sized, from, dropped)[1] = sized[1]
         /\ Moved(sized, from, dropped)[2] = sized[2]
    BY <2>7, <2>8 DEF Moved
  <2>11. mCount' > 0 /\ mCount' > 2
    BY <1>1, <1>2, <2>5 DEF last, from
  <2> QED BY <1>2, <2>9, <2>10, <2>11
<1>5. VerdictSound(buffer, result.processed, mFields[last], mFields[1], mFields[2])
          /\ result'.status = "Success" =>
              VerdictSound(buffer, result.processed, mFields[last], mFields[1], mFields[2])'
  BY <1>2, <1>3, <1>4 DEF VerdictSound, CheckSumRight, Framed, Sum
<1>6. result'.status = "Success" => At(buffer, mFields[last].position - 1)' # FieldEnd
  BY <1>2, <1>4 DEF Justified
<1> QED BY <1>2, <1>3, <1>4, <1>5, <1>6
        DEF Justified, BodyLengthPosition, MessageTypePosition

LEMMA AnswerParse ==
    ASSUME NEW b \in Seq(Byte), Parse(b)
    PROVE  AnswerInv'
<1>1. CASE ParseShort(b) \/ ParseForeign(b)
  <2>1. /\ result'.processed = 0 /\ result'.status # "Success" /\ buffer' = b
    BY <1>1 DEF ParseShort, ParseForeign, Return, Returned, ParseCall
  <2>2. Length' \in Nat
    <3>1. Length' = Cast16(Len(b)) /\ Len(b) \in Nat
      BY <2>1, DecoderAssumption DEF Length
    <3> QED BY <3>1 DEF Cast16
  <2> QED BY <2>1, <2>2 DEF AnswerInv, Justified
<1>2. CASE ParseBegin(b)
  <2>1. pc' \in {"block", "trailer", "check"}
    BY <1>2 DEF ParseBegin, Resume
  <2> QED BY <2>1 DEF AnswerInv
<1> QED BY <1>1, <1>2 DEF Parse

\* A step of a scan leaves no answer.
LEMMA ScanStepAnswersNothing ==
    ASSUME ScanInv, ScanInv',
           \/ LoadBlock \/ LoadBlockAfterSplitTag \/ TokenizeTag \/ EndBlock
           \/ TrailerAfterSplitTag \/ TrailerAfterSplitValue \/ TrailerAtTag
           \/ WalkField \/ WalkCheckSum \/ Rescan
    PROVE  pc' \notin {"idle", "drop", "rescan"}
<1>1. ASSUME NEW fields, NEW sum, SkipPayload(fields, sum)
      PROVE  pc' \notin {"idle", "drop", "rescan"}
  BY <1>1 DEF SkipPayload, Resume
<1>2. CASE LoadBlock \/ TrailerAfterSplitTag \/ TrailerAfterSplitValue \/ TrailerAtTag
           \/ WalkField \/ WalkCheckSum
  BY <1>2 DEF LoadBlock, TrailerAfterSplitTag, TrailerAfterSplitValue, TrailerAtTag,
              WalkField, WalkCheckSum
<1>3. CASE EndBlock \/ Rescan
  BY <1>3 DEF EndBlock, Rescan, Resume
<1>4. CASE LoadBlockAfterSplitTag
  <2>1. pc' = "tags" \/ \E fields, sum : SkipPayload(fields, sum)
    BY <1>4, Zenon DEF LoadBlockAfterSplitTag
  <2> QED BY <1>1, <2>1
<1>5. CASE TokenizeTag
  <2>1. (pc = "tags" /\ UNCHANGED pc) \/ \E fields, sum : SkipPayload(fields, sum)
    BY <1>5, Zenon DEF TokenizeTag
  <2> QED BY <1>1, <2>1
<1> QED BY <1>2, <1>3, <1>4, <1>5

\* The steps that only move on to the next slot, or give up, keep what they found.
LEMMA AnswerPass ==
    ASSUME ScanInv, AnswerInv, DropDone \/ DropNext \/ DropFails \/ RescanImpossible
    PROVE  AnswerInv'
<1>1. /\ pc \in {"drop", "rescan"}
      /\ UNCHANGED <<buffer, mFields, mCount, result, parses>>
  BY DEF DropDone, DropNext, DropFails, RescanImpossible
<1> QED BY <1>1 DEF AnswerInv, Justified, VerdictSound, CheckSumRight, Framed, Sum, Length, last

LEMMA AnswerStep ==
    ASSUME ScanInv, ScanInv', SumInv, AnswerInv, Step \/ Called
    PROVE  AnswerInv'
<1>1. CASE Called
  BY <1>1, AnswerParse DEF Called
<1>2. CASE \/ LoadBlock \/ LoadBlockAfterSplitTag \/ TokenizeTag \/ EndBlock
           \/ TrailerAfterSplitTag \/ TrailerAfterSplitValue \/ TrailerAtTag
           \/ WalkField \/ WalkCheckSum \/ Rescan
  BY <1>2, ScanStepAnswersNothing DEF AnswerInv
<1>3. CASE Check
  BY <1>3, VerdictOfCheck DEF AnswerInv
<1>4. CASE DropPayloadTokens
  <2>1. pc = "drop" /\ UNCHANGED <<pc, parses>>
    BY <1>4 DEF DropPayloadTokens
  <2> QED BY <1>4, <2>1, VerdictDropped DEF AnswerInv
<1>5. CASE DropDone \/ DropNext \/ DropFails \/ RescanImpossible
  BY <1>5, AnswerPass
<1> QED BY <1>1, <1>2, <1>3, <1>4, <1>5 DEF Step

\* Answers and their reasons are kept together.
THEOREM AnswerInvHolds == Spec => []AnswerInv
<1>1. Init => AnswerInv
  BY DEF Init, AnswerInv
<1>2. ASSUME ScanInv, ScanInv', SumInv, AnswerInv, [Next]_vars PROVE AnswerInv'
  <2>1. CASE Call \/ Step
    BY <1>2, <2>1, AnswerStep, CallsHaveBytes
  <2>2. CASE UNCHANGED vars
    BY <1>2, <2>2
       DEF vars, AnswerInv, Justified, VerdictSound, CheckSumRight, Framed, Sum, Length, last
  <2> QED BY <1>2, <2>1, <2>2 DEF Next
<1> QED BY <1>1, <1>2, ScanInvHolds, SumInvHolds, PTL DEF Spec

\* No answer claims more bytes than there are, and Success is a verdict on the bytes:
\* the CheckSum is the sum of the bytes before it and, when the message is consumed,
\* MsgType is behind BodyLength and BodyLength, written as a number of up to eight
\* digits, is its length, for every buffer and after every correction for data fields
\* (PayloadDecoder.hpp:423-470, 638-648, 666-709).
THEOREM AnswersAreSound == Spec => []AnswerSound
<1>1. AnswerInv => AnswerSound
  BY DEF AnswerInv, Justified, AnswerSound, Answered, Accepted
<1> QED BY <1>1, AnswerInvHolds, PTL

-----------------------------------------------------------------------------
(***************************************************************************)
(* Types.  A tag split over two blocks is a natural number because only    *)
(* digits are kept of it, and the digits of a tag fit the converter        *)
(* because at most eight lanes in a row are tag digits: four behind a SOH  *)
(* and four before a '='.                                                  *)
(***************************************************************************)
PcType == {"idle", "block", "tags", "trailer", "walk", "check", "drop", "rescan"}

SumTyped == pc \in {"block", "tags", "trailer", "walk", "check"} => blockSum \in Int

TokenTypes == mFields \in [Slot -> Field] /\ mTags \in [Slot -> Uint16]
ResultType == result.status \in Statuses \union {"None"} /\ result.processed \in Nat

TypeInv ==
    /\ TokenTypes /\ ResultType
    /\ pc \in PcType
    /\ mTag \in Nat
    /\ mPosition \in -4 .. 0
    /\ blockSum \in Int
    /\ walk \in Walk
    /\ skipData \in BOOLEAN
    /\ parses \in 0 .. MaxParses
    /\ pc = "tags" => lanes \subseteq TagLanes

LEMMA SumsAreNumbers == ScanInv /\ SumInv => SumTyped
<1>1. SUFFICES ASSUME ScanInv, SumInv, pc \in {"block", "tags", "trailer", "walk", "check"}
               PROVE  blockSum \in Int
  BY DEF SumTyped
<1>2. buffer \in Seq(Byte) /\ offset \in Nat /\ Length \in Nat /\ Length <= Len(buffer)
  BY <1>1, LengthType DEF ScanInv
<1>3. CASE pc = "tags"
  <2>1. offset + BlockSize \in Nat /\ offset + BlockSize <= Len(buffer)
    BY <1>1, <1>2, <1>3 DEF SumInv, InLength, BlockSize
  <2> QED BY <1>1, <1>2, <1>3, <2>1, SumIsUpTo, SumSplits
<1>4. CASE pc # "tags"
  <2>1. offset <= Len(buffer)
    BY <1>1, <1>2, <1>4 DEF SumInv, InLength, BlockSize
  <2> QED BY <1>1, <1>2, <1>4, <2>1, SumIsUpTo, SumSplits
<1> QED BY <1>3, <1>4

LEMMA LengthTyped ==
    ASSUME NEW fields \in [Slot -> Field], NEW i \in Slot, NEW n \in Uint16
    PROVE  [fields EXCEPT ![i].length = n] \in [Slot -> Field]
BY DEF Field

LEMMA TagTyped ==
    ASSUME NEW fields \in [Slot -> Field], NEW i \in Slot, NEW n \in Uint16
    PROVE  [fields EXCEPT ![i].tag = n] \in [Slot -> Field]
BY DEF Field

LEMMA PutTyped ==
    ASSUME NEW fields \in [Slot -> Field], NEW i \in Slot, NEW tag \in Uint16,
           NEW position \in Uint16, NEW length \in Uint16
    PROVE  Put(fields, i, tag, position, length) \in [Slot -> Field]
BY DEF Field, Put

\* A number made of digits only is a natural number.
LEMMA DigitsAreNat ==
    ASSUME NEW s \in Seq(Byte), \A i \in 1 .. Len(s) : IsDigitByte(s[i])
    PROVE  asciiToUint64(s) \in Nat
<1>1. ASSUME NEW i \in 1 .. 8 PROVE Weighted(s, i) \in Nat
  <2>1. CASE i <= Len(s)
    <3> DEFINE k == Len(s) + 1 - i
    <3>1. k \in 1 .. Len(s)
      BY <2>1
    <3>2. s[k] \in 48 .. 57
      BY <3>1 DEF IsDigitByte, Zero
    <3>3. Weight[i] \in Nat
      BY DEF Weight
    <3>4. \A a, b \in Nat : a * b \in Nat
      OBVIOUS
    <3>5. s[k] - Zero \in Nat
      <4> HIDE DEF k
      <4> QED BY <3>2 DEF Zero
    <3> QED BY <2>1, <3>3, <3>4, <3>5 DEF Weighted
  <2>2. CASE ~(i <= Len(s))
    BY <2>2 DEF Weighted
  <2> QED BY <2>1, <2>2
<1>2. \A a, b \in Nat : a + b \in Nat
  OBVIOUS
<1>3. /\ Weighted(s, 1) \in Nat /\ Weighted(s, 2) \in Nat /\ Weighted(s, 3) \in Nat
      /\ Weighted(s, 4) \in Nat /\ Weighted(s, 5) \in Nat /\ Weighted(s, 6) \in Nat
      /\ Weighted(s, 7) \in Nat /\ Weighted(s, 8) \in Nat
  BY <1>1
<1>4. Weighted(s, 1) + Weighted(s, 2) + Weighted(s, 3) + Weighted(s, 4) \in Nat
  BY <1>2, <1>3, Zenon
<1>5. \A n \in Nat : n + Weighted(s, 5) + Weighted(s, 6) + Weighted(s, 7) + Weighted(s, 8) \in Nat
  BY <1>2, <1>3, Zenon
<1> QED BY <1>4, <1>5, Zenon DEF asciiToUint64

\* A slice of the buffer, byte by byte.
LEMMA SliceType ==
    ASSUME buffer \in Seq(Byte), NEW from \in Nat, NEW to \in Nat, from <= to, to <= Len(buffer)
    PROVE  /\ Slice(buffer, from, to) \in Seq(Byte)
           /\ Len(Slice(buffer, from, to)) = to - from
           /\ \A i \in 1 .. to - from : Slice(buffer, from, to)[i] = At(buffer, from + i - 1)
<1>1. /\ SubSeq(buffer, from + 1, to) \in Seq(Byte)
      /\ Len(SubSeq(buffer, from + 1, to)) = to - from
      /\ \A i \in 1 .. to - from : SubSeq(buffer, from + 1, to)[i] = buffer[from + i]
  OBVIOUS
<1>2. \A i \in 1 .. to - from : At(buffer, from + i - 1) = buffer[from + i]
  BY DEF At
<1> QED BY <1>1, <1>2 DEF Slice

LEMMA UintIsInt == \A n \in Uint16 : n \in Int
  BY UintIsNat

\* A tag continued in the next load is a tag.
LEMMA JoinedType ==
    ASSUME NEW value \in Nat, NEW s \in Seq(Byte), Len(s) \in 0 .. 8, asciiToUint64(s) \in Int
    PROVE  Joined(value, s) \in Uint16
<1> DEFINE weight == IF Len(s) = 0 THEN 1 ELSE Cast16(10 * Weight[Len(s)])
<1>1. weight \in Int
  <2>1. CASE Len(s) = 0
    BY <2>1
  <2>2. CASE Len(s) # 0
    <3>1. Len(s) \in 1 .. 8
      BY <2>2
    <3>2. \A i \in 1 .. 8 : Weight[i] \in Int
      BY DEF Weight
    <3>3. 10 * Weight[Len(s)] \in Int
      <4> DEFINE w == Weight[Len(s)]
      <4>1. w \in Int
        BY <3>1, <3>2
      <4> HIDE DEF w
      <4>2. 10 * w \in Int
        BY <4>1
      <4> QED BY <4>2 DEF w
    <3>4. Cast16(10 * Weight[Len(s)]) \in Uint16
      BY <3>3, CastType
    <3>5. \A n \in Uint16 : n \in Int
      BY UintIsInt
    <3> QED BY <2>2, <3>4, <3>5
  <2> QED BY <2>1, <2>2
<1>2. value * weight \in Int
  <2> HIDE DEF weight
  <2>1. \A a, b \in Int : a * b \in Int
    OBVIOUS
  <2> QED BY <1>1, <2>1
<1>3. value * weight + asciiToUint64(s) \in Int
  <2> HIDE DEF weight
  <2> DEFINE product == value * weight
  <2> HIDE DEF product
  <2>1. product \in Int
    BY <1>2 DEF product
  <2>2. product + asciiToUint64(s) \in Int
    BY <2>1
  <2> QED BY <2>2 DEF product
<1> QED BY <1>3, CastType DEF Joined

\* Nine digits in a row are not all tag digits: the fifth would have a '=' within four
\* lanes behind it or a SOH within four before it.
LEMMA TagRunFits ==
    ASSUME NEW from \in Nat, NEW to \in Nat, from < to, from .. to - 1 \subseteq TagLanes
    PROVE  to - from <= 8
<1>1. SUFFICES ASSUME to - from > 8 PROVE FALSE
  OBVIOUS
<1>2. TagLanes \subseteq Lane /\ Lane \subseteq Nat
  BY TagLanesType DEF Lane, BlockSize
<1>3. \A k \in from .. from + 8 : k \in Lane /\ IsDigitByte(InLane(k))
  <2>1. \A k \in from .. from + 8 : k \in TagLanes
    BY <1>1
  <2>2. \A k \in TagLanes : k \in DigitFlags
    BY DEF TagLanes, After, Before, Spread
  <2> QED BY <1>2, <2>1, <2>2, MaskLanes
<1>4. from + 4 \in Lane /\ from + 4 \in After \union Before
  <2>1. from + 4 \in TagLanes
    BY <1>1
  <2> QED BY <1>2, <2>1 DEF TagLanes
<1>5. ~IsDigitByte(TagEnd) /\ ~IsDigitByte(FieldEnd)
  BY DEF IsDigitByte, TagEnd, FieldEnd, Zero
<1>6. CASE from + 4 \in After
  <2>1. PICK e \in Lane : e \in (from + 4) + 1 .. (from + 4) + 4 /\ InLane(e) = TagEnd
    BY <1>4, <1>6, AfterExact DEF EndsTag
  <2>2. e \in from .. from + 8
    BY <1>2, <2>1
  <2> QED BY <1>3, <1>5, <2>1, <2>2
<1>7. CASE from + 4 \in Before
  <2>1. PICK e \in Lane : e \in (from + 4) - 4 .. (from + 4) - 1 /\ InLane(e) = FieldEnd
    BY <1>4, <1>7, BeforeExact DEF StartsTag
  <2>2. e \in from .. from + 8
    BY <1>2, <2>1
  <2> QED BY <1>3, <1>5, <2>1, <2>2
<1> QED BY <1>4, <1>6, <1>7

\* The digits a block cuts off are its last ones, at most four.
LEMMA CutTag ==
    ASSUME buffer \in Seq(Byte), offset \in Nat, offset + BlockSize <= Len(buffer)
    PROVE  LET cut == Cardinality(TrailingLanes)
           IN  /\ cut \in 0 .. 4
               /\ asciiToUint64(Slice(buffer, offset + 16 - cut, offset + 16)) \in Nat
<1> DEFINE cut == Cardinality(TrailingLanes)
           last4 == TagLanes \intersect 12 .. 15
<1>1. \A k \in TrailingLanes : k \in 12 .. 15 /\ k .. 15 \subseteq TagLanes
  BY DEF TrailingLanes
<1>2. \A k \in TrailingLanes, j \in 12 .. 15 : j >= k => j \in TrailingLanes
  <2>1. CASE offset = 0
    BY <2>1 DEF TrailingLanes
  <2>2. CASE offset # 0
    <3>1. TrailingLanes = {k \in last4 : k .. 15 \subseteq last4}
      BY <2>2 DEF TrailingLanes
    <3>2. ASSUME NEW k \in TrailingLanes, NEW j \in 12 .. 15, j >= k PROVE j \in TrailingLanes
      <4>1. k \in 12 .. 15 /\ k .. 15 \subseteq last4
        BY <3>1
      <4>2. j \in last4 /\ j .. 15 \subseteq last4
        BY <3>2, <4>1
      <4> QED BY <3>1, <4>2
    <3> QED BY <3>2
  <2> QED BY <2>1, <2>2
<1>3. \E n \in 0 .. 4 : TrailingLanes = 16 - n .. 15
  <2>1. CASE TrailingLanes = {}
    <3>1. 16 - 0 .. 15 = {}
      OBVIOUS
    <3> QED BY <2>1, <3>1
  <2>2. CASE TrailingLanes # {}
    <3>1. TrailingLanes \in SUBSET Nat
      BY <1>1
    <3>2. PICK k \in TrailingLanes : \A j \in TrailingLanes : k <= j
      BY <2>2, <3>1, LeastOfNat
    <3>3. k \in 12 .. 15 /\ 16 - k \in 0 .. 4 /\ 16 - (16 - k) = k
      BY <1>1, <3>2
    <3>4. \A j \in TrailingLanes : j \in k .. 15
      BY <1>1, <3>2, <3>3
    <3>5. \A j \in k .. 15 : j \in TrailingLanes
      BY <1>2, <3>3
    <3>6. TrailingLanes = k .. 15
      <4> HIDE DEF last4
      <4> QED BY <3>4, <3>5
    <3> QED BY <3>3, <3>6
  <2> QED BY <2>1, <2>2
<1>4. PICK n \in 0 .. 4 : TrailingLanes = 16 - n .. 15
  BY <1>3
<1>5. cut = n
  <2>1. \A a, b \in Int : Cardinality(a .. b) = IF a > b THEN 0 ELSE b - a + 1
    BY FS_Interval
  <2>2. 16 - n \in Int /\ (16 - n > 15 <=> n = 0) /\ 15 - (16 - n) + 1 = n
    OBVIOUS
  <2> QED BY <1>4, <2>1, <2>2
<1>6. asciiToUint64(Slice(buffer, offset + 16 - n, offset + 16)) \in Nat
  <2> DEFINE from == offset + 16 - n
             s    == Slice(buffer, from, offset + 16)
  <2>1. from \in Nat /\ from <= offset + 16 /\ offset + 16 <= Len(buffer) /\ offset + 16 - from = n
    BY DEF BlockSize
  <2>2. s \in Seq(Byte) /\ Len(s) = n /\ \A i \in 1 .. n : s[i] = At(buffer, from + i - 1)
    <3> DEFINE to == offset + 16
    <3>1. to \in Nat
      OBVIOUS
    <3>2. from \in Nat /\ from <= to /\ to <= Len(buffer) /\ to - from = n
      BY <2>1
    <3> HIDE DEF from, to
    <3>3. /\ Slice(buffer, from, to) \in Seq(Byte)
          /\ Len(Slice(buffer, from, to)) = to - from
          /\ \A i \in 1 .. to - from : Slice(buffer, from, to)[i] = At(buffer, from + i - 1)
      BY <3>1, <3>2, SliceType
    <3> QED BY <3>2, <3>3 DEF to
  <2>3. ASSUME NEW i \in 1 .. n PROVE IsDigitByte(s[i])
    <3> DEFINE k == 16 - n + i - 1
    <3>1. k \in TrailingLanes
      BY <1>4
    <3>2. k \in TagLanes
      <4>1. k \in k .. 15
        BY <1>4
      <4> HIDE DEF k
      <4> QED BY <1>1, <3>1, <4>1
    <3>3. k \in Lane /\ IsDigitByte(InLane(k))
      <4>1. \A j \in TagLanes : j \in DigitFlags
        BY DEF TagLanes, After, Before, Spread
      <4> HIDE DEF k
      <4> QED BY <3>2, <4>1, MaskLanes
    <3>4. from + i - 1 = offset + k
      OBVIOUS
    <3> HIDE DEF k, s, from
    <3> QED BY <2>2, <3>3, <3>4 DEF InLane
  <2> HIDE DEF s
  <2> QED BY <2>2, <2>3, DigitsAreNat DEF s
<1> QED BY <1>5, <1>6

-----------------------------------------------------------------------------
(***************************************************************************)
(* Every step keeps the types.                                             *)
(***************************************************************************)
LEMMA NumbersAreUint16 == 0 \in Uint16 /\ 2 \in Uint16 /\ 3 \in Uint16 /\ 8 \in Uint16
BY DEF Uint16

LEMMA FieldsHaveExtents == ASSUME NEW fields \in [Slot -> Field] PROVE Extents(fields)
BY DEF Extents, HasExtent, Field

LEMMA PositionsAreNat ==
    ASSUME NEW fields \in [Slot -> Field], NEW i \in Slot
    PROVE  fields[i].position \in Nat /\ fields[i].length \in Nat
BY FieldsHaveExtents, ExtentType DEF Extents

LEMMA LanesKept == ASSUME UNCHANGED <<buffer, offset>> PROVE UNCHANGED TagLanes
BY DEF TagLanes, After, Before, Spread, DigitFlags, TagEndsMask, FieldEndsMask, InLane

\* A sum is typed while there is a scan, and otherwise stays what it was.
LEMMA SumStaysTyped ==
    ASSUME TypeInv, SumTyped', pc' \in {"block", "tags", "trailer", "walk", "check"} \/ UNCHANGED blockSum
    PROVE  blockSum' \in Int
BY DEF TypeInv, SumTyped

LEMMA TypeInit == Init => TypeInv
<1>1. SUFFICES ASSUME Init PROVE TypeInv
  OBVIOUS
<1>2. EmptyField \in Field
  BY NumbersAreUint16 DEF EmptyField, Field
<1>3. TokenTypes
  BY <1>1, <1>2, NumbersAreUint16 DEF Init, TokenTypes
<1>4. walk \in Walk
  BY <1>1 DEF Init, Walk, Cursor, WordSize
<1>5. ResultType
  BY <1>1 DEF Init, NoResult, Returned, ResultType
<1>6. pc = "idle" /\ mTag = 0 /\ mPosition = 0 /\ blockSum = 0 /\ skipData = FALSE /\ parses = 0
  BY <1>1 DEF Init
<1>7. parses \in 0 .. MaxParses /\ mPosition \in -4 .. 0
  BY <1>6, DecoderAssumption
<1>8. skipData \in BOOLEAN
  BY <1>6, Zenon
<1> QED BY <1>3, <1>4, <1>5, <1>6, <1>7, <1>8 DEF TypeInv, PcType

LEMMA TypeParse ==
    ASSUME TypeInv, SumTyped', parses < MaxParses, NEW b \in Seq(Byte), Parse(b)
    PROVE  TypeInv'
<1>1. parses' \in 0 .. MaxParses /\ mTag' = 0
  <2>1. parses' = parses + 1 /\ mTag' = 0
    BY DEF Parse, ParseShort, ParseForeign, ParseBegin, ParseCall
  <2>2. parses \in 0 .. MaxParses
    BY DEF TypeInv
  <2> QED BY <2>1, <2>2, DecoderAssumption
<1>2. CASE ParseShort(b) \/ ParseForeign(b)
  <2>1. pc' = "idle" /\ UNCHANGED <<mFields, mTags, mPosition, blockSum, walk, skipData>>
    BY <1>2 DEF ParseShort, ParseForeign, Return
  <2>2. ResultType'
    BY <1>2 DEF ParseShort, ParseForeign, Return, Returned, ResultType, Statuses
  <2> QED BY <1>1, <2>1, <2>2 DEF TypeInv, TokenTypes, PcType
<1>3. CASE ParseBegin(b)
  <2>1. /\ mFields' = Put(mFields, 0, 8, 2, Len(ProtocolCode))
        /\ mTags' = [mTags EXCEPT ![0] = 8]
        /\ skipData' = FALSE /\ blockSum' = 0 /\ result' = NoResult
        /\ UNCHANGED <<mPosition, walk>>
    BY <1>3 DEF ParseBegin, BeginStringTag
  <2>2. pc' \in {"block", "trailer", "check"}
    BY <1>3 DEF ParseBegin, Resume
  <2>3. TokenTypes'
    <3>1. 0 \in Slot /\ Len(ProtocolCode) \in Uint16
      BY SlotFacts, DecoderAssumption
    <3> QED BY <2>1, <3>1, PutTyped, NumbersAreUint16 DEF TypeInv, TokenTypes
  <2>4. ResultType'
    BY <2>1 DEF ResultType, NoResult, Returned
  <2>5. mPosition' \in -4 .. 0 /\ walk' \in Walk
    BY <2>1 DEF TypeInv
  <2>6. mTag' \in Nat /\ blockSum' \in Int
    BY <1>1, <2>1
  <2>7. skipData' \in BOOLEAN
    BY <2>1, Zenon
  <2> QED BY <1>1, <2>2, <2>3, <2>4, <2>5, <2>6, <2>7 DEF TypeInv, PcType
<1> QED BY <1>2, <1>3 DEF Parse

\* The data field's token: its tag is known, its value is where the '=' was found.
LEMMA TypeSkip ==
    ASSUME ScanInv, TypeInv, SumTyped', pc # "idle", NEW fields \in [Slot -> Field],
           IsDataLength(fields[last]), NEW sum, SkipPayload(fields, sum),
           UNCHANGED <<buffer, walk, skipData, result, parses>>
    PROVE  TypeInv'
<1> DEFINE field    == fields[last]
           number   == NumberAt(field, Length)
           size     == number % Uint32
           position == FindTagEnd(field.position + field.length + 1) + 1
           tag      == DataTags[field.tag]
<1>1. /\ mCount < Capacity
      /\ mFields' = Put(fields, mCount, tag, Cast16(position), Cast16(size))
      /\ mTags' = [mTags EXCEPT ![mCount] = tag]
      /\ mTag' = 0 /\ mPosition' = 0
      /\ pc' \in {"block", "trailer", "check"}
  BY DEF SkipPayload, Resume
<1>2. TokenTypes'
  <2>1. mCount \in Slot /\ last \in Slot
    BY <1>1, SlotFacts DEF ScanInv, last
  <2>2. HasExtent(field)
    BY <2>1, FieldsHaveExtents DEF Extents
  <2>3. Cast16(size) \in Uint16 /\ Cast16(position) \in Uint16
    <3>1. number \in Int /\ FindTagEnd(field.position + field.length + 1) \in Int
      BY <2>2, SkipNumbers DEF ScanInv
    <3>2. position \in Int /\ size \in Int
      <4>1. Uint32 \in Nat \ {0}
        BY DecoderAssumption
      <4> HIDE DEF number
      <4> QED BY <3>1, <4>1
    <3> HIDE DEF size, position
    <3> QED BY <3>2, CastType
  <2>4. tag \in Uint16
    BY DecoderAssumption DEF IsDataLength
  <2> HIDE DEF tag, position, size
  <2> QED BY <1>1, <2>1, <2>3, <2>4, PutTyped DEF TypeInv, TokenTypes
<1>3. blockSum' \in Int
  BY <1>1, SumStaysTyped
<1> QED BY <1>1, <1>2, <1>3 DEF TypeInv, PcType, ResultType

\* Closing the last token, at whatever length.
LEMMA ClosedTyped ==
    ASSUME ScanInv, TypeInv, pc # "idle", NEW n \in Int
    PROVE  /\ last \in Slot
           /\ [mFields EXCEPT ![last].length = Cast16(n)] \in [Slot -> Field]
<1>1. last \in Slot
  BY SlotFacts DEF ScanInv, last
<1>2. Cast16(n) \in Uint16
  BY CastType
<1> QED BY <1>1, <1>2, LengthTyped DEF TypeInv, TokenTypes

LEMMA TypeLoadBlock ==
    ASSUME ScanInv, TypeInv, SumTyped', LoadBlock
    PROVE  TypeInv'
<1>1. /\ pc = "block" /\ pc' = "tags" /\ mPosition \in Int
      /\ mFields' = [mFields EXCEPT ![last].length = Cast16(mPosition)]
      /\ lanes' = TagLanes \ TrailingLanes
      /\ UNCHANGED <<buffer, offset, mTags, mTag, mPosition, walk, skipData, result, parses>>
  BY DEF LoadBlock, ScanInv
<1>2. TokenTypes'
  BY <1>1, ClosedTyped DEF TypeInv, TokenTypes
<1>3. blockSum' \in Int /\ UNCHANGED TagLanes
  BY <1>1, SumStaysTyped, LanesKept
<1> QED BY <1>1, <1>2, <1>3 DEF TypeInv, PcType, ResultType

LEMMA TypeLoadBlockAfterSplitTag ==
    ASSUME ScanInv, TypeInv, SumTyped', LoadBlockAfterSplitTag
    PROVE  TypeInv'
<1> DEFINE length == mPosition + offset - 1 - mFields[last].position
           closed == [mFields EXCEPT ![last].length = Cast16(length)]
           sum    == blockSum + Sum(offset, offset + BlockSize)
<1>1. pc = "block" /\ offset \in Nat /\ mPosition \in Int /\ mTag \in Nat
  BY DEF LoadBlockAfterSplitTag, ScanInv, TypeInv
<1>2. length \in Int
  <2>1. mFields[last].position \in Nat
    BY <1>1, SlotFacts, PositionsAreNat DEF ScanInv, TypeInv, TokenTypes, last
  <2> QED BY <1>1, <2>1
<1>3. closed \in [Slot -> Field]
  <2> HIDE DEF length
  <2> QED BY <1>1, <1>2, ClosedTyped
<1>4. UNCHANGED <<buffer, walk, skipData, result, parses>>
  BY DEF LoadBlockAfterSplitTag
<1> HIDE DEF closed
<1>5. CASE IsDataLength(closed[last])
  <2>1. SkipPayload(closed, sum)
    BY <1>5 DEF LoadBlockAfterSplitTag, closed
  <2> HIDE DEF sum
  <2> QED BY <1>1, <1>3, <1>4, <1>5, <2>1, TypeSkip
<1>6. CASE ~IsDataLength(closed[last])
  <2>1. /\ mCount < Capacity
        /\ mFields' = Put(closed, mCount, Cast16(mTag), Cast16(offset + 1), 0)
        /\ mTags' = [mTags EXCEPT ![mCount] = Cast16(mTag)]
        /\ mTag' = 0 /\ mPosition' = 0 /\ pc' = "tags"
        /\ lanes' = TagLanes \ TrailingLanes
        /\ UNCHANGED offset
    BY <1>6 DEF LoadBlockAfterSplitTag, closed
  <2>2. TokenTypes'
    <3>1. mCount \in Slot
      BY <2>1, SlotFacts DEF ScanInv
    <3>2. Cast16(mTag) \in Uint16 /\ Cast16(offset + 1) \in Uint16
      BY <1>1, CastType
    <3> QED BY <1>3, <2>1, <3>1, <3>2, PutTyped, NumbersAreUint16 DEF TypeInv, TokenTypes
  <2>3. blockSum' \in Int /\ UNCHANGED TagLanes
    BY <1>4, <2>1, SumStaysTyped, LanesKept
  <2> QED BY <1>4, <2>1, <2>2, <2>3 DEF TypeInv, PcType, ResultType
<1> QED BY <1>5, <1>6

\* The lanes of a run, and that they are the digits of one tag.
LEMMA RunOfLanes ==
    ASSUME lanes \subseteq Lane, lanes # {}, lanes \subseteq TagLanes
    PROVE  LET first == Least(lanes)
               stop  == Least({k \in first .. BlockSize : k \notin lanes})
           IN  first \in Lane /\ stop \in first + 1 .. BlockSize /\ stop - first <= 8
<1> DEFINE first  == Least(lanes)
           beyond == {k \in first .. BlockSize : k \notin lanes}
           stop   == Least(beyond)
<1>1. first \in lanes /\ first \in 0 .. 15
  <2>1. lanes \in SUBSET Nat
    BY DEF Lane, BlockSize
  <2>2. first \in lanes
    BY <2>1, LeastOfNat
  <2> HIDE DEF first
  <2> QED BY <2>2 DEF Lane, BlockSize
<1> HIDE DEF first
<1>2. stop \in beyond /\ \A k \in beyond : stop <= k
  <2>1. BlockSize \in beyond
    BY <1>1 DEF Lane, BlockSize
  <2>2. beyond \in SUBSET Nat
    BY <1>1 DEF BlockSize
  <2> HIDE DEF beyond
  <2> QED BY <2>1, <2>2, LeastOfNat
<1> HIDE DEF stop
<1>3. stop \in first .. 16 /\ stop \notin lanes
  BY <1>2 DEF BlockSize
<1>4. stop # first
  BY <1>1, <1>3
<1>5. first .. stop - 1 \subseteq TagLanes
  <2>1. \A k \in first .. stop - 1 : k \in first .. 16 /\ ~(stop <= k)
    BY <1>1, <1>3
  <2>2. \A k \in first .. stop - 1 : k \in lanes
    BY <1>2, <2>1 DEF BlockSize
  <2> QED BY <2>2
<1>6. stop - first <= 8
  <2>1. first \in Nat /\ stop \in Nat /\ first < stop
    BY <1>1, <1>3, <1>4
  <2> QED BY <1>5, <2>1, TagRunFits
<1>7. first \in Lane /\ stop \in first + 1 .. BlockSize
  BY <1>1, <1>3, <1>4 DEF Lane, BlockSize
<1> QED BY <1>6, <1>7 DEF first, stop

LEMMA TypeTokenizeTag ==
    ASSUME ScanInv, TypeInv, SumTyped', TokenizeTag
    PROVE  TypeInv'
<1> DEFINE first  == Least(lanes)
           stop   == Least({k \in first .. BlockSize : k \notin lanes})
           digits == Slice(buffer, offset + first, offset + stop)
           tag    == Joined(mTag, digits)
           length == mFields[last].length + offset + first - mFields[last].position - 1
           closed == [mFields EXCEPT ![last].length = Cast16(length)]
<1>1. /\ pc = "tags" /\ offset \in Nat /\ mTag \in Nat /\ buffer \in Seq(Byte)
      /\ lanes # {} /\ lanes \subseteq Lane /\ lanes \subseteq TagLanes
      /\ offset + BlockSize <= Len(buffer)
      /\ UNCHANGED <<buffer, walk, skipData, result, parses>>
  BY DEF TokenizeTag, ScanInv, TypeInv, InBlocks
<1>2. first \in Lane /\ stop \in first + 1 .. BlockSize /\ stop - first <= 8
  BY <1>1, RunOfLanes
<1> HIDE DEF first, stop
<1>3. length \in Int
  <2>1. mFields[last].position \in Nat /\ mFields[last].length \in Nat
    BY <1>1, SlotFacts, PositionsAreNat DEF ScanInv, TypeInv, TokenTypes, last
  <2>2. \A l, p \in Nat, k \in Lane : l + offset + k - p - 1 \in Int
    BY <1>1 DEF Lane, BlockSize
  <2> QED BY <1>2, <2>1, <2>2
<1>4. closed \in [Slot -> Field]
  <2> HIDE DEF length
  <2> QED BY <1>1, <1>3, ClosedTyped
<1>5. TokenizeTag =>
          IF IsDataLength(closed[last]) THEN SkipPayload(closed, blockSum)
          ELSE /\ mCount < Capacity
               /\ mFields' = Put(closed, mCount, tag, Cast16(offset + stop + 1), 0)
               /\ mTags' = [mTags EXCEPT ![mCount] = tag]
               /\ mTag' = 0
               /\ lanes' = lanes \ (first .. stop - 1)
               /\ UNCHANGED <<pc, mPosition, offset, blockSum>>
  BY DEF TokenizeTag, first, stop
<1> HIDE DEF closed
<1>6. CASE IsDataLength(closed[last])
  BY <1>1, <1>4, <1>5, <1>6, TypeSkip
<1>7. CASE ~IsDataLength(closed[last])
  <2>1. /\ mCount < Capacity
        /\ mFields' = Put(closed, mCount, tag, Cast16(offset + stop + 1), 0)
        /\ mTags' = [mTags EXCEPT ![mCount] = tag]
        /\ mTag' = 0
        /\ lanes' = lanes \ (first .. stop - 1)
        /\ UNCHANGED <<pc, mPosition, offset, blockSum>>
    BY <1>5, <1>7
  <2>2. tag \in Uint16
    <3> DEFINE from == offset + first
               to   == offset + stop
    <3>1. from \in Nat /\ to \in Nat /\ from <= to /\ to <= Len(buffer) /\ to - from \in 0 .. 8
      BY <1>1, <1>2 DEF Lane, BlockSize
    <3> HIDE DEF from, to
    <3>2. Slice(buffer, from, to) \in Seq(Byte) /\ Len(Slice(buffer, from, to)) \in 0 .. 8
      BY <1>1, <3>1, SliceType
    <3>3. asciiToUint64(Slice(buffer, from, to)) \in Int
      BY <1>1, <3>1, NumberType
    <3>4. Joined(mTag, Slice(buffer, from, to)) \in Uint16
      BY <1>1, <3>2, <3>3, JoinedType
    <3> QED BY <3>4 DEF from, to
  <2>3. Cast16(offset + stop + 1) \in Uint16
    <3>1. offset + stop + 1 \in Int
      BY <1>1, <1>2 DEF Lane, BlockSize
    <3> QED BY <3>1, CastType
  <2> HIDE DEF tag
  <2>4. TokenTypes'
    <3>1. mCount \in Slot
      BY <2>1, SlotFacts DEF ScanInv
    <3> QED BY <1>4, <2>1, <2>2, <2>3, <3>1, PutTyped, NumbersAreUint16 DEF TypeInv, TokenTypes
  <2>5. lanes' \subseteq TagLanes /\ UNCHANGED TagLanes
    BY <1>1, <2>1, LanesKept
  <2> QED BY <1>1, <2>1, <2>4, <2>5 DEF TypeInv, PcType, ResultType
<1> QED BY <1>6, <1>7

LEMMA TypeEndBlock ==
    ASSUME ScanInv, TypeInv, SumTyped', EndBlock
    PROVE  TypeInv'
<1> DEFINE count    == IF ClosesOnFieldEnd THEN mCount + 1 ELSE mCount
           length   == offset + 15 - mFields[last].position
           closed   == [mFields EXCEPT ![last].length = Cast16(length)]
           ended    == [mFields EXCEPT ![last].length = Cast16(length), ![mCount] = EmptyField]
           fields   == IF ClosesOnFieldEnd THEN ended ELSE mFields
           cut      == Cardinality(TrailingLanes)
           complete == fields[count - 1].tag = CheckSumTag
           final    == IF complete THEN [fields EXCEPT ![count - 1].length = CheckSumValueLength]
                       ELSE fields
           digits   == asciiToUint64(Slice(buffer, offset + 16 - cut, offset + 16))
<1>1. /\ pc = "tags" /\ offset \in Nat /\ buffer \in Seq(Byte) /\ offset + BlockSize <= Len(buffer)
      /\ mCount \in 0 .. Capacity /\ mCount > 0
  BY DEF EndBlock, ScanInv, InBlocks
<1>2. /\ ClosesOnFieldEnd => mCount < Capacity
      /\ mFields' = final
      /\ mTags' = IF ClosesOnFieldEnd THEN [mTags EXCEPT ![mCount] = 0] ELSE mTags
      /\ mTag' = IF cut = 0 THEN mTag ELSE digits
      /\ mPosition' = -cut
      /\ UNCHANGED <<buffer, blockSum, walk, skipData, result, parses>>
  BY DEF EndBlock
<1>3. pc' \in {"block", "trailer", "check"}
  BY DEF EndBlock, Resume
<1>4. fields \in [Slot -> Field]
  <2>1. length \in Int
    <3>1. mFields[last].position \in Nat
      BY <1>1, SlotFacts, PositionsAreNat DEF TypeInv, TokenTypes, last
    <3> QED BY <1>1, <3>1
  <2>2. closed \in [Slot -> Field]
    <3> HIDE DEF length
    <3> QED BY <1>1, <2>1, ClosedTyped
  <2>3. CASE ClosesOnFieldEnd
    <3>1. mCount \in Slot
      BY <1>1, <1>2, <2>3, SlotFacts
    <3>2. ended = Put(closed, mCount, 0, 0, 0)
      BY DEF Put, EmptyField
    <3>3. Put(closed, mCount, 0, 0, 0) \in [Slot -> Field]
      <4> HIDE DEF closed
      <4> QED BY <2>2, <3>1, PutTyped, NumbersAreUint16
    <3> QED BY <2>3, <3>2, <3>3
  <2>4. CASE ~ClosesOnFieldEnd
    BY <2>4 DEF TypeInv, TokenTypes
  <2> QED BY <2>3, <2>4
<1>5. TokenTypes'
  <2> HIDE DEF fields
  <2>1. count - 1 \in Slot /\ (ClosesOnFieldEnd => mCount \in Slot)
    BY <1>1, <1>2, DecoderAssumption DEF Slot
  <2> HIDE DEF count
  <2>2. final \in [Slot -> Field]
    BY <1>4, <2>1, LengthTyped, NumbersAreUint16 DEF CheckSumValueLength
  <2>3. mTags' \in [Slot -> Uint16]
    BY <1>2, <2>1, NumbersAreUint16 DEF TypeInv, TokenTypes
  <2> HIDE DEF final
  <2> QED BY <1>2, <2>2, <2>3 DEF TokenTypes
<1>6. mTag' \in Nat /\ mPosition' \in -4 .. 0
  <2>1. cut \in 0 .. 4 /\ digits \in Nat
    BY <1>1, CutTag
  <2> HIDE DEF cut, digits
  <2>2. mTag \in Nat
    BY DEF TypeInv
  <2> QED BY <1>2, <2>1, <2>2
<1>7. blockSum' \in Int
  BY <1>2 DEF TypeInv
<1> QED BY <1>2, <1>3, <1>5, <1>6, <1>7 DEF TypeInv, PcType, ResultType

LEMMA CursorTyped ==
    ASSUME NEW position \in Nat, NEW tagEnds \in SUBSET WordLane,
           NEW fieldEnds \in SUBSET WordLane, NEW fieldEnd \in 0 .. WordSize
    PROVE  Cursor(position, tagEnds, fieldEnds, fieldEnd) \in Walk
BY DEF Cursor, Walk

\* The lanes found in the trailer's word, and the first of them.
LEMMA WordFound ==
    /\ TagEnds \in SUBSET WordLane /\ FieldEnds \in SUBSET WordLane
    /\ FirstLane(TagEnds) \in 0 .. 8 /\ FirstLane(FieldEnds) \in 0 .. 8
<1>1. TagEnds \subseteq WordLane /\ FieldEnds \subseteq WordLane
  BY FoundInWord DEF InWordOnly
<1>2. FirstLane(TagEnds) \in 0 .. WordSize /\ FirstLane(FieldEnds) \in 0 .. WordSize
  BY <1>1, FirstLaneType
<1> QED BY <1>1, <1>2 DEF WordSize

LEMMA TypeTrailerAfterSplitTag ==
    ASSUME ScanInv, TypeInv, SumTyped', TrailerAfterSplitTag
    PROVE  TypeInv'
<1> DEFINE tagEnd   == FirstLane(TagEnds)
           fieldEnd == FirstLane(FieldEnds)
           to       == offset + Lower(tagEnd, Remaining)
           digits   == Slice(buffer, offset, to)
           tag      == Joined(mTag, digits)
           length   == offset + mPosition - 1 - mFields[last].position
           closed   == [mFields EXCEPT ![last].length = Cast16(length)]
           start    == offset + tagEnd + 1
           size     == fieldEnd - tagEnd - 1
<1>1. /\ pc = "trailer" /\ mCount < Capacity /\ buffer \in Seq(Byte) /\ Len(buffer) \in Nat
      /\ offset \in Nat /\ offset < Len(buffer) /\ mPosition \in Int /\ mTag \in Nat
  BY DEF TrailerAfterSplitTag, ScanInv, TypeInv, InTrailer
<1>2. /\ mFields' = Put(closed, mCount, tag, Cast16(start), Cast16(size))
      /\ mTags' = [mTags EXCEPT ![mCount] = tag]
      /\ walk' = Cursor(fieldEnd + 1, TagEnds, FieldEnds, fieldEnd)
      /\ mTag' = 0 /\ pc' = "walk"
      /\ UNCHANGED <<buffer, mPosition, blockSum, skipData, result, parses>>
  BY DEF TrailerAfterSplitTag
<1>3. tagEnd \in 0 .. 8 /\ fieldEnd \in 0 .. 8
  BY WordFound
<1> HIDE DEF tagEnd, fieldEnd
<1>4. tag \in Uint16
  <2>1. offset <= to /\ to \in Nat /\ to <= Len(buffer) /\ to - offset \in 0 .. 8
    BY <1>1, <1>3 DEF Lower, Remaining
  <2> HIDE DEF to
  <2>2. digits \in Seq(Byte) /\ Len(digits) \in 0 .. 8
    BY <1>1, <2>1, SliceType
  <2>3. asciiToUint64(digits) \in Int
    BY <1>1, <2>1, NumberType
  <2> HIDE DEF digits
  <2> QED BY <1>1, <2>2, <2>3, JoinedType
<1>5. closed \in [Slot -> Field]
  <2>1. length \in Int
    <3>1. mFields[last].position \in Nat
      BY <1>1, SlotFacts, PositionsAreNat DEF ScanInv, TypeInv, TokenTypes, last
    <3> QED BY <1>1, <3>1
  <2> HIDE DEF length
  <2> QED BY <1>1, <2>1, ClosedTyped
<1>6. Cast16(start) \in Uint16 /\ Cast16(size) \in Uint16
  <2>1. start \in Int /\ size \in Int
    BY <1>1, <1>3
  <2> HIDE DEF start, size
  <2> QED BY <2>1, CastType
<1> HIDE DEF tag, closed, start, size
<1>7. TokenTypes'
  <2>1. mCount \in Slot
    BY <1>1, SlotFacts DEF ScanInv
  <2> QED BY <1>2, <1>4, <1>5, <1>6, <2>1, PutTyped DEF TypeInv, TokenTypes
<1>8. walk' \in Walk
  BY <1>2, <1>3, WordFound, CursorTyped DEF WordSize
<1> QED BY <1>2, <1>7, <1>8 DEF TypeInv, PcType, ResultType

LEMMA TypeTrailer ==
    ASSUME ScanInv, TypeInv, TrailerAfterSplitValue \/ TrailerAtTag
    PROVE  TypeInv'
<1> DEFINE fieldEnd == FirstLane(FieldEnds)
           rest     == WithoutFirst(FieldEnds)
           length   == offset - mFields[last].position + fieldEnd
<1>1. /\ pc = "trailer" /\ pc' = "walk" /\ offset \in Nat
      /\ UNCHANGED <<buffer, mTags, mTag, mPosition, blockSum, skipData, result, parses>>
  BY DEF TrailerAfterSplitValue, TrailerAtTag, ScanInv
<1>2. CASE TrailerAfterSplitValue
  <2>1. /\ mFields' = [mFields EXCEPT ![last].length = Cast16(length)]
        /\ walk' = Cursor(fieldEnd + 1, TagEnds, rest, FirstLane(rest))
    BY <1>2 DEF TrailerAfterSplitValue
  <2>2. fieldEnd \in 0 .. 8 /\ FirstLane(rest) \in 0 .. WordSize /\ rest \in SUBSET WordLane
    <3>1. rest \subseteq WordLane
      BY WordFound DEF WithoutFirst
    <3> HIDE DEF rest
    <3> QED BY <3>1, WordFound, FirstLaneType
  <2> HIDE DEF fieldEnd, rest
  <2>3. mFields' \in [Slot -> Field]
    <3>1. mFields[last].position \in Nat
      BY <1>1, SlotFacts, PositionsAreNat DEF ScanInv, TypeInv, TokenTypes, last
    <3>2. length \in Int
      BY <1>1, <2>2, <3>1
    <3> HIDE DEF length
    <3> QED BY <1>1, <2>1, <3>2, ClosedTyped
  <2>4. walk' \in Walk
    <3>1. fieldEnd + 1 \in Nat
      BY <2>2
    <3> QED BY <2>1, <2>2, <3>1, WordFound, CursorTyped
  <2> QED BY <1>1, <2>3, <2>4 DEF TypeInv, TokenTypes, PcType, ResultType
<1>3. CASE TrailerAtTag
  <2>1. mFields' = mFields /\ walk' = Cursor(0, TagEnds, FieldEnds, FirstLane(FieldEnds))
    BY <1>3 DEF TrailerAtTag
  <2>2. walk' \in Walk
    BY <2>1, WordFound, CursorTyped DEF WordSize
  <2> QED BY <1>1, <2>1, <2>2 DEF TypeInv, TokenTypes, PcType, ResultType
<1> QED BY <1>2, <1>3

LEMMA TypeWalkField ==
    ASSUME ScanInv, TypeInv, WalkField
    PROVE  TypeInv'
<1> DEFINE tagEnd == FirstLane(walk.tagEnds)
           number == asciiToUint64(Slice(buffer, offset + walk.position, offset + tagEnd))
           start  == tagEnd + 1
           length == Cast16(walk.fieldEnd - start)
           rest   == WithoutFirst(walk.fieldEnds)
<1>1. /\ pc = "walk" /\ mCount > 0 /\ offset \in Nat /\ buffer \in Seq(Byte)
      /\ WalkInWord /\ MoreInWord /\ walk \in Walk
  BY DEF WalkField, ScanInv, TypeInv
<1>2. /\ mFields' = Put(mFields, last, Cast16(number), Cast16(offset + start), length)
      /\ mTags' = [mTags EXCEPT ![last] = Cast16(number)]
      /\ walk' = Cursor(start + length + 1, WithoutFirst(walk.tagEnds), rest,
                        FirstLane(walk.fieldEnds))
      /\ UNCHANGED <<buffer, pc, mTag, mPosition, blockSum, skipData, result, parses>>
  BY DEF WalkField
<1>3. /\ tagEnd \in 0 .. 8 /\ offset + tagEnd <= Len(buffer)
      /\ walk.position \in Nat /\ walk.fieldEnd \in 0 .. 8
      /\ walk.tagEnds \in SUBSET WordLane /\ walk.fieldEnds \in SUBSET WordLane
  BY <1>1, FoundTagInBuffer DEF Walk, WordSize
<1> HIDE DEF tagEnd
<1>4. number \in Int
  <2>1. offset + walk.position \in Nat /\ offset + tagEnd \in Nat
    BY <1>1, <1>3
  <2> QED BY <1>1, <1>3, <2>1, NumberType
<1>5. start \in Nat /\ offset + start \in Int /\ walk.fieldEnd - start \in Int
  <2>1. PICK e \in Nat, f \in Nat, o \in Nat : e = tagEnd /\ f = walk.fieldEnd /\ o = offset
    <3>1. \A n \in 0 .. 8 : n \in Nat
      OBVIOUS
    <3> QED BY <1>1, <1>3, <3>1, Zenon
  <2>2. e + 1 \in Nat /\ o + (e + 1) \in Int /\ f - (e + 1) \in Int
    BY SMT
  <2> QED BY <2>1, <2>2, Zenon
<1> HIDE DEF number, start
<1>6. Cast16(number) \in Uint16 /\ Cast16(offset + start) \in Uint16 /\ length \in Uint16
  BY <1>4, <1>5, CastType
<1>7. start + length + 1 \in Nat
  <2>1. \A n \in Uint16 : n \in Nat
    BY UintIsNat
  <2> HIDE DEF length
  <2> QED BY <1>5, <1>6, <2>1
<1> HIDE DEF length
<1>8. TokenTypes'
  <2>1. last \in Slot
    BY <1>1, SlotFacts DEF ScanInv, last
  <2> QED BY <1>2, <1>6, <2>1, PutTyped DEF TypeInv, TokenTypes
<1>9. walk' \in Walk
  <2>1. FirstLane(walk.fieldEnds) \in 0 .. WordSize
    BY <1>3, FirstLaneType
  <2>2. WithoutFirst(walk.tagEnds) \in SUBSET WordLane /\ rest \in SUBSET WordLane
    BY <1>3 DEF WithoutFirst
  <2> HIDE DEF rest
  <2> QED BY <1>2, <1>7, <2>1, <2>2, CursorTyped
<1> QED BY <1>1, <1>2, <1>8, <1>9 DEF TypeInv, ResultType

LEMMA TypeWalkCheckSum ==
    ASSUME ScanInv, TypeInv, WalkCheckSum
    PROVE  TypeInv'
<1>1. /\ pc = "walk" /\ pc' = "check" /\ mCount > 0 /\ offset \in Nat /\ buffer \in Seq(Byte)
      /\ walk.position \in Nat
      /\ UNCHANGED <<buffer, mTags, mTag, mPosition, blockSum, walk, skipData, result, parses>>
  BY DEF WalkCheckSum, ScanInv, WalkInWord
<1>2. mFields' \in [Slot -> Field]
  <2>1. CASE walk.position + CheckSumFieldLen <= Remaining
    <3> DEFINE slot  == IF LastSlotUsed THEN mCount ELSE last
               start == offset + walk.position
               tag   == 10 * (At(buffer, start) - Zero) + At(buffer, start + 1) - Zero
    <3>1. /\ slot < Capacity
          /\ mFields' = Put(mFields, slot, Cast16(tag), Cast16(start + 3), 3)
      BY <2>1 DEF WalkCheckSum, CheckSumPrefixLen, CheckSumValueLength
    <3>2. slot \in Slot
      <4>1. slot \in 0 .. Capacity
        BY <1>1, DecoderAssumption DEF ScanInv, last
      <4> HIDE DEF slot
      <4> QED BY <3>1, <4>1, SlotFacts
    <3>3. start \in Nat /\ start + 3 \in Int /\ start + 2 <= Len(buffer)
      BY <1>1, <2>1 DEF CheckSumFieldLen, Remaining
    <3> HIDE DEF slot, start
    <3>4. tag \in Int
      <4>1. buffer[start + 1] \in Byte /\ buffer[start + 1 + 1] \in Byte
        BY <1>1, <3>3
      <4>2. At(buffer, start) \in Int /\ At(buffer, start + 1) \in Int
        BY <4>1 DEF At, Byte
      <4>3. \A a, b \in Int : 10 * (a - Zero) + b - Zero \in Int
        BY DEF Zero
      <4> QED BY <4>2, <4>3
    <3> HIDE DEF tag
    <3>5. Cast16(tag) \in Uint16 /\ Cast16(start + 3) \in Uint16
      BY <3>3, <3>4, CastType
    <3> QED BY <3>1, <3>2, <3>5, PutTyped, NumbersAreUint16 DEF TypeInv, TokenTypes
  <2>2. CASE ~(walk.position + CheckSumFieldLen <= Remaining)
    BY <2>2 DEF WalkCheckSum, TypeInv, TokenTypes
  <2> QED BY <2>1, <2>2
<1> QED BY <1>1, <1>2 DEF TypeInv, TokenTypes, PcType, ResultType

LEMMA TypeCheck ==
    ASSUME ScanInv, SumInv, TypeInv, Check
    PROVE  TypeInv'
<1>1. /\ pc' \in {"idle", "drop", "rescan"} /\ mCount > 0
      /\ result' = CheckRequiredFields
      /\ mFields' = mFields \/ mFields' = [mFields EXCEPT ![last].tag = 0]
      /\ UNCHANGED <<mTags, mTag, mPosition, blockSum, walk, skipData, parses>>
  BY DEF Check, ScanInv
<1>2. TokenTypes'
  <2>1. last \in Slot
    BY <1>1, SlotFacts DEF ScanInv, last
  <2> QED BY <1>1, <2>1, TagTyped, NumbersAreUint16 DEF TypeInv, TokenTypes
<1>3. result'.processed \in Nat
  BY VerdictOfCheck DEF Justified
<1>4. result'.status \in Statuses
  <2>1. ProcessCheckSum \in Statuses
    BY DEF ProcessCheckSum, Statuses
  <2> DEFINE check == mFields[last]
             body  == mFields[BodyLengthPosition]
             has   == check.tag = CheckSumTag /\ check.position + check.length + 1 <= Length
             byteCount == check.position - body.position - body.length - 4
             length == NumberAt(body, Length)
             final == CASE body.tag # BodyLengthTag -> "InvalidBodyLengthTag"
                        [] body.tag = BodyLengthTag /\ byteCount # length -> "InvalidBodyLength"
                        [] OTHER ->
                             IF mFields[MessageTypePosition].tag # MessageTypeTag
                             THEN "InvalidMessageTypeTag"
                             ELSE IF mCount < RequiredFieldCount
                             THEN "RequiredFieldMissing" ELSE ProcessCheckSum
  <2>2. final \in Statuses
    <3> HIDE DEF byteCount, length
    <3> QED BY <2>1 DEF Statuses
  <2>3. CheckRequiredFields.status \in {"InvalidBodyLength", final, "MessageFragment", ProcessCheckSum}
    <3>1. \A n, s : Returned(n, s).status = s
      BY DEF Returned
    <3>2. \/ \E n : CheckRequiredFields = Returned(n, "InvalidBodyLength")
          \/ \E n : CheckRequiredFields = Returned(n, final)
          \/ \E n : CheckRequiredFields = Returned(n, "MessageFragment")
          \/ \E n : CheckRequiredFields = Returned(n, ProcessCheckSum)
      BY Zenon DEF CheckRequiredFields
    <3> QED BY <3>1, <3>2
  <2> HIDE DEF final
  <2> QED BY <1>1, <2>1, <2>2, <2>3 DEF Statuses
<1> QED BY <1>1, <1>2, <1>3, <1>4 DEF TypeInv, PcType, ResultType

LEMMA MovedTyped ==
    ASSUME mCount \in 0 .. Capacity, NEW S, NEW a \in [Slot -> S],
           NEW from \in Nat, NEW dropped \in Nat
    PROVE  Moved(a, from, dropped) \in [Slot -> S]
<1>1. ASSUME NEW j \in Slot, j \in from .. last - dropped PROVE j + dropped \in Slot
  BY <1>1, DecoderAssumption DEF Slot, last
<1>2. ASSUME NEW j \in Slot
      PROVE  (IF j \in from .. last - dropped THEN a[j + dropped] ELSE a[j]) \in S
  BY <1>1, <1>2
<1> QED BY <1>2 DEF Moved

LEMMA TypeDrop ==
    ASSUME ScanInv, TypeInv, DropPayloadTokens
    PROVE  TypeInv'
<1> DEFINE from    == index + 2
           ends    == {j \in from .. mCount : j = mCount \/ ~MadeFromPayload(j, index)}
           next    == Least(ends)
           dropped == next - from
           size    == PayloadLength(index)
           sized   == [mFields EXCEPT ![index + 1].length = Cast16(size)]
<1>1. /\ mCount \in 0 .. Capacity /\ buffer \in Seq(Byte) /\ index \in Nat
      /\ index + 2 < mCount /\ LaidOutAsExpected(index) /\ pc = "drop"
  BY DEF ScanInv, DropPayloadTokens
<1>2. /\ mFields' = Moved(sized, from, dropped)
      /\ mTags' = Moved(mTags, from, dropped)
      /\ UNCHANGED <<pc, mTag, mPosition, blockSum, walk, skipData, result, parses>>
  BY DEF DropPayloadTokens, TagsMoved
<1>3. dropped \in Nat /\ from \in Nat
  <2>1. mCount \in ends /\ ends \in SUBSET Nat
    BY <1>1
  <2>2. \A j \in ends : j - from \in Nat
    BY <1>1
  <2>3. next \in ends
    <3> HIDE DEF ends
    <3> QED BY <2>1, LeastOfNat
  <2> HIDE DEF next, ends
  <2> QED BY <1>1, <2>2, <2>3
<1>4. index \in Slot /\ index + 1 \in Slot
  BY <1>1, DecoderAssumption DEF Slot
<1>5. size \in Int
  <2> DEFINE position == mFields[index].position
             length   == mFields[index].length
  <2>1. position \in Nat /\ length \in Nat
    BY <1>4, PositionsAreNat DEF TypeInv, TokenTypes
  <2>2. position + length <= Len(buffer)
    BY <1>1 DEF LaidOutAsExpected
  <2>3. size = NumberAt(mFields[index], Len(buffer))
    BY DEF PayloadLength
  <2> HIDE DEF size
  <2> QED BY <1>1, <2>1, <2>2, <2>3, TokenNumberType
<1>6. sized \in [Slot -> Field]
  <2>1. Cast16(size) \in Uint16
    BY <1>5, CastType
  <2> HIDE DEF size
  <2> QED BY <1>4, <2>1, LengthTyped DEF TypeInv, TokenTypes
<1> HIDE DEF sized, from, dropped
<1>7. TokenTypes'
  BY <1>1, <1>2, <1>3, <1>6, MovedTyped DEF TypeInv, TokenTypes
<1> QED BY <1>1, <1>2, <1>7 DEF TypeInv, ResultType

LEMMA TypePass ==
    ASSUME TypeInv, SumTyped', \/ DropDone \/ DropNext \/ DropFails \/ Rescan \/ RescanImpossible
    PROVE  TypeInv'
<1>1. CASE DropDone \/ DropNext \/ DropFails \/ RescanImpossible
  <2>1. /\ pc' \in {"idle", "drop", "rescan"}
        /\ UNCHANGED <<mFields, mTags, mTag, mPosition, blockSum, walk, skipData, result, parses>>
    BY <1>1 DEF DropDone, DropNext, DropFails, RescanImpossible
  <2> QED BY <2>1 DEF TypeInv, TokenTypes, ResultType, PcType
<1>2. CASE Rescan
  <2>1. /\ mTag' = 0 /\ mPosition' = 0 /\ skipData' = TRUE /\ result' = NoResult
        /\ UNCHANGED <<mFields, mTags, walk, parses>>
    BY <1>2 DEF Rescan
  <2>2. pc' \in {"block", "trailer", "check"}
    BY <1>2 DEF Rescan, Resume
  <2>3. blockSum' \in Int
    BY <2>2, SumStaysTyped
  <2>4. ResultType'
    BY <2>1 DEF ResultType, NoResult, Returned
  <2>5. skipData' \in BOOLEAN
    BY <2>1, Zenon
  <2> QED BY <2>1, <2>2, <2>3, <2>4, <2>5 DEF TypeInv, TokenTypes, PcType
<1> QED BY <1>1, <1>2

\* Types are kept, once the scan's bounds and sums are known
\* (PayloadDecoder.hpp:139-470).
THEOREM TypeInvHolds == Spec => []TypeInv
<1>1. ScanInv /\ SumInv => SumTyped
  BY SumsAreNumbers
<1>2. ASSUME ScanInv, SumInv, SumTyped', TypeInv, [Next]_vars PROVE TypeInv'
  <2>1. CASE Call
    BY <1>2, <2>1, TypeParse, DecoderAssumption DEF Call
  <2>2. CASE Step
    <3>1. CASE LoadBlock \/ LoadBlockAfterSplitTag \/ TokenizeTag \/ EndBlock
      BY <1>2, <3>1, TypeLoadBlock, TypeLoadBlockAfterSplitTag, TypeTokenizeTag, TypeEndBlock
    <3>2. CASE TrailerAfterSplitTag \/ TrailerAfterSplitValue \/ TrailerAtTag
      BY <1>2, <3>2, TypeTrailerAfterSplitTag, TypeTrailer
    <3>3. CASE WalkField \/ WalkCheckSum \/ Check \/ DropPayloadTokens
      BY <1>2, <3>3, TypeWalkField, TypeWalkCheckSum, TypeCheck, TypeDrop
    <3>4. CASE DropDone \/ DropNext \/ DropFails \/ Rescan \/ RescanImpossible
      BY <1>2, <3>4, TypePass
    <3> QED BY <2>2, <3>1, <3>2, <3>3, <3>4 DEF Step
  <2>3. CASE UNCHANGED vars
    <3>1. UNCHANGED TagLanes
      BY <2>3, LanesKept DEF vars
    <3> QED BY <1>2, <2>3, <3>1 DEF vars, TypeInv, TokenTypes, ResultType
  <2> QED BY <1>2, <2>1, <2>2, <2>3 DEF Next
<1> QED BY <1>1, <1>2, TypeInit, ScanInvHolds, SumInvHolds, PTL DEF Spec

\* Every variable has its type in every reachable state, whatever the buffers hold and
\* however often the object is used, and no scan step finds the token array empty
\* (PayloadDecoder.hpp:426, 505, 721).
THEOREM TypesHold == Spec => []TypeOK
<1>1. ScanInv /\ TypeInv => TypeOK
  BY DEF ScanInv, TypeInv, TokenTypes, ResultType, PcType, TypeOK
<1> QED BY <1>1, ScanInvHolds, TypeInvHolds, PTL

-----------------------------------------------------------------------------
(***************************************************************************)
(* The decoder implements Tokenizer with the answers VouchedFor: a call is  *)
(* a question, the steps of its scan leave the question pending, and the    *)
(* step that ends it gives the answer.                                     *)
(***************************************************************************)
Asked == pc # "idle" => parses > 0
AnswersVouchedFor == parses > 0 /\ pc = "idle" => AnswerNow \in VouchedFor(buffer)

LEMMA StepKeepsQuestion ==
    ASSUME ScanInv, Step
    PROVE  pc # "idle" /\ UNCHANGED <<buffer, parses>>
<1>1. CASE LoadBlock \/ LoadBlockAfterSplitTag \/ TokenizeTag \/ EndBlock
  BY <1>1, Zenon DEF LoadBlock, LoadBlockAfterSplitTag, TokenizeTag, EndBlock
<1>2. CASE TrailerAfterSplitTag \/ TrailerAfterSplitValue \/ TrailerAtTag
  BY <1>2, Zenon DEF TrailerAfterSplitTag, TrailerAfterSplitValue, TrailerAtTag
<1>3. CASE WalkField \/ WalkCheckSum \/ Check
  BY <1>3, Zenon DEF WalkField, WalkCheckSum, Check
<1>4. CASE DropDone \/ DropNext \/ DropPayloadTokens \/ DropFails \/ Rescan \/ RescanImpossible
  BY <1>4, Zenon DEF DropDone, DropNext, DropPayloadTokens, DropFails, Rescan, RescanImpossible
<1> QED BY <1>1, <1>2, <1>3, <1>4 DEF Step

\* An answer of the decoder is one of those promised for its buffer.
LEMMA AnswerVouchedFor ==
    ASSUME ScanInv, TypeInv, AnswerInv, parses > 0, pc = "idle"
    PROVE  AnswerNow \in VouchedFor(buffer)
<1>1. parses # 0
  OBVIOUS
<1>2. CASE result.status # "Success"
  BY <1>1, <1>2 DEF AnswerNow, VouchedFor
<1>3. CASE result.status = "Success"
  <2>1. AnswerNow = Answer("Success", result.processed, Tokens)
    BY <1>1, <1>3 DEF AnswerNow
  <2>2. Justified
    BY DEF AnswerInv
  <2>3. mCount \in Nat /\ mCount > 0 /\ mCount <= Capacity
    BY <1>3, <2>2 DEF ScanInv, Justified
  <2>4. Tokens \in Seq(Field) /\ Len(Tokens) = mCount
    <3>1. ASSUME NEW i \in 1 .. mCount PROVE mFields[i - 1] \in Field
      <4>1. i - 1 \in Slot
        BY <2>3, DecoderAssumption DEF Slot
      <4> QED BY <4>1 DEF TypeInv, TokenTypes
    <3>2. Tokens \in [1 .. mCount -> Field]
      BY <3>1 DEF Tokens
    <3> QED BY <2>3, <3>2
  <2>5. /\ Tokens # <<>> /\ Last(Tokens) = mFields[last]
        /\ mCount > MessageTypePosition =>
              /\ Tokens[BodyLengthPosition + 1] = mFields[BodyLengthPosition]
              /\ Tokens[MessageTypePosition + 1] = mFields[MessageTypePosition]
    BY <2>3, <2>4 DEF Tokens, Last, last, BodyLengthPosition, MessageTypePosition
  <2>6. result.processed \in 0 .. Cast16(Len(buffer))
    <3>1. Length \in Nat
      BY LengthType DEF ScanInv
    <3> QED BY <2>2, <3>1 DEF Justified, Length
  <2>7. VerdictSound(buffer, result.processed, Last(Tokens), Tokens[BodyLengthPosition + 1],
                     Tokens[MessageTypePosition + 1])
        /\ (result.processed > 0 => mCount > MessageTypePosition)
    BY <1>3, <2>2, <2>5 DEF Justified, VerdictSound
  <2> DEFINE a == Answer("Success", result.processed, Tokens)
  <2>8. a.status = "Success" /\ a.processed = result.processed /\ a.tokens = Tokens
        /\ a \in [status : {"Success"}, processed : 0 .. Cast16(Len(buffer)), tokens : Seq(Field)]
    BY <2>4, <2>6, Zenon DEF Answer
  <2> HIDE DEF a
  <2>9. a \in VouchedFor(buffer)
    BY <2>4, <2>5, <2>7, <2>8 DEF VouchedFor, TokenAt
  <2> QED BY <2>1, <2>9 DEF a
<1> QED BY <1>2, <1>3

\* Init and every step of the decoder are Init and a step of Tokenizer, or leave the
\* question and the answer as they were: whatever the buffers hold, a call is answered
\* once and with what its bytes vouch for, as far as VerdictSound of Wire goes
\* (PayloadDecoder.hpp:139-154, 423-470).
THEOREM VouchesForAnswers == Spec => Vouches
<1>0. Vouch!Nothing = Nothing /\ Vouch!Pending = Pending
  BY DEF Vouch!Nothing, Nothing, Vouch!Pending, Pending, Vouch!Answer, Answer
<1>1. Init => Vouch!Init /\ Asked
  BY <1>0 DEF Init, Vouch!Init, AnswerNow, Asked
<1>2. ASSUME ScanInv, TypeInv, AnswersVouchedFor', Asked, [Next]_vars
      PROVE  Asked' /\ [Vouch!Next]_<<buffer, AnswerNow>>
  <2>1. parses \in Nat
    BY <1>2, DecoderAssumption DEF TypeInv
  <2>2. CASE Call
    <3>1. pc = "idle" /\ parses' = parses + 1
      BY <2>2, Zenon DEF Call, Parse, ParseShort, ParseForeign, ParseBegin, ParseCall
    <3>2. parses' > 0
      BY <2>1, <3>1
    <3>3. AnswerNow # Pending
      BY <3>1 DEF AnswerNow, Nothing, Pending, Rejection, Answer
    <3>4. CASE pc' = "idle"
      <4>1. AnswerNow' \in VouchedFor(buffer')
        BY <1>2, <3>2, <3>4 DEF AnswersVouchedFor
      <4> QED BY <1>0, <3>2, <3>3, <4>1 DEF Asked, Vouch!Next, Vouch!Ask
    <3>5. CASE pc' # "idle"
      <4>1. AnswerNow' = Pending
        BY <3>2, <3>5 DEF AnswerNow
      <4> QED BY <1>0, <3>2, <3>3, <4>1 DEF Asked, Vouch!Next, Vouch!Ask
    <3> QED BY <3>4, <3>5
  <2>3. CASE Step
    <3>1. pc # "idle" /\ UNCHANGED <<buffer, parses>> /\ parses > 0
      BY <1>2, <2>3, StepKeepsQuestion DEF Asked
    <3>2. AnswerNow = Pending
      BY <2>1, <3>1 DEF AnswerNow
    <3>3. CASE pc' = "idle"
      <4>1. AnswerNow' \in VouchedFor(buffer')
        BY <1>2, <3>1, <3>3 DEF AnswersVouchedFor
      <4> QED BY <1>0, <3>1, <3>2, <4>1 DEF Asked, Vouch!Next, Vouch!Reply
    <3>4. CASE pc' # "idle"
      <4>1. AnswerNow' = Pending
        BY <2>1, <3>1, <3>4 DEF AnswerNow
      <4> QED BY <1>0, <3>1, <3>2, <4>1 DEF Asked
    <3> QED BY <3>3, <3>4
  <2>4. CASE UNCHANGED vars
    BY <1>2, <2>4 DEF vars, Asked, AnswerNow, Tokens
  <2> QED BY <1>2, <2>2, <2>3, <2>4 DEF Next
<1>3. ScanInv /\ TypeInv /\ AnswerInv => AnswersVouchedFor
  BY AnswerVouchedFor DEF AnswersVouchedFor
<1> QED BY <1>1, <1>2, <1>3, ScanInvHolds, TypeInvHolds, AnswerInvHolds, PTL
        DEF Spec, Vouches, Vouch!Safety, Vouch!tokenizerVars
=============================================================================
