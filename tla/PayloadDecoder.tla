--------------------------- MODULE PayloadDecoder ---------------------------
(***************************************************************************)
(* BasicPayloadDecoder (decoder/PayloadDecoder.hpp): one decoder object,    *)
(* whose parse() is called again and again with buffers of received bytes. *)
(*                                                                         *)
(* A parse is a sequence of steps: the 16-byte blocks, each tag found in a *)
(* block, the 8-byte word after the last block, the final checks, and for  *)
(* a message with data fields the correction of the tokens made from       *)
(* payload bytes.  mFields, mTags and mPosition are members of the object: *)
(* they keep what the previous parse left in them.                         *)
(*                                                                         *)
(* Positions are zero-based; `last` is the slot m_fields[m_count - 1] that *)
(* the code keeps a pointer to.                                            *)
(***************************************************************************)
EXTENDS Wire, Scans

CONSTANTS
    MaxFields,     \* template argument: slots of m_fields and m_tags
    Capacity,      \* bound: slots the model keeps, so an overrun is a state
    ProtocolCode,  \* the bytes of code(Protocol)
    DataTags,      \* DataFields::dataTag: from length tags to data tags
    Buffers,       \* the buffers parse() may be called with
    MaxParses,     \* bound: calls of parse() on one object
    Uint32, Uint64 \* 2^32 and 2^64: how many numbers the integers of a skip and of a
                   \* length hold

ASSUME DecoderAssumption ==
    /\ MaxFields \in Nat /\ Capacity \in Nat
    /\ 7 <= MaxFields /\ MaxFields <= Capacity
    /\ ProtocolCode \in Seq(Byte) /\ Len(ProtocolCode) \in Uint16
    /\ \A tag \in DOMAIN DataTags : DataTags[tag] \in Uint16
    /\ \A b \in Buffers : b \in Seq(Byte)
    /\ MaxParses \in Nat
    /\ Uint32 \in Nat \ {0} /\ Uint64 \in Nat \ {0}

VARIABLES
    buffer,     \* the argument of the current (or the last) parse()
    pc,         \* the step parse() is at, "idle" between calls
    mFields,    \* m_fields
    mTags,      \* m_tags, parallel to mFields
    mCount,     \* m_count
    mTag,       \* m_tag: the digits so far of a tag split over two blocks
    mPosition,  \* m_position: minus the number of those digits
    offset,     \* first byte after the blocks loaded so far
    blockSum,   \* running sum of the bytes
    lanes,      \* lanes of the block's tag digits still to tokenize
    walk,       \* cursor over the trailer's word
    skipData,   \* tokenize's template argument
    index,      \* slot resolveDataFields is at
    result,     \* what parse() returned
    parses      \* calls so far

vars == <<buffer, pc, mFields, mTags, mCount, mTag, mPosition, offset, blockSum,
          lanes, walk, skipData, index, result, parses>>

BlockSize            == 16
WordSize             == 8
MessageFragmentLimit == 32
RequiredFieldCount   == 7
CheckSumPrefixLen    == 3
CheckSumValueLength  == 3
CheckSumFieldLen     == 7
BodyLengthPosition   == 1
MessageTypePosition  == 2

Slot  == 0 .. Capacity - 1
Field == [tag : Uint16, position : Uint16, length : Uint16]
EmptyField == [tag |-> 0, position |-> 0, length |-> 0]

Statuses == {"Success", "MessageFragment", "InvalidBeginString", "InvalidBodyLengthTag",
             "InvalidBodyLength", "InvalidMessageTypeTag", "RequiredFieldMissing",
             "InvalidCheckSumTag", "InvalidCheckSum"}
Returned(processed, status) == [processed |-> processed, status |-> status]
NoResult == Returned(0, "None")

Lower(a, b) == IF a <= b THEN a ELSE b
Higher(a, b) == IF a <= b THEN b ELSE a

last      == mCount - 1
Length    == Cast16(Len(buffer))        \* length_t is uint16_t
Remaining == Len(buffer) - offset

Sum(from, to) == SumOf(Slice(buffer, from, to))

ProtocolPrefix == FieldBytes([tag |-> BeginStringTag, value |-> ProtocolCode])

\* asciiToUint64() of a token's bytes: up to eight are loaded at once if there are eight
\* before `end`, and taken one by one otherwise; longer numbers wrap, into an int64_t.
LongNumber(s) ==
    LET number == LoopNumber(s, Uint64)
    IN  IF 2 * number >= Uint64 THEN number - Uint64 ELSE number
NumberAt(f, end) ==
    LET text == Slice(buffer, f.position, f.position + f.length)
    IN  IF f.length > WordSize THEN LongNumber(text)
        ELSE IF f.position + WordSize <= end THEN SwarNumber(text)
        ELSE asciiToUint64(text)

\* fields with a new token in slot i.
Put(fields, i, tag, position, length) ==
    [fields EXCEPT ![i] = [tag |-> tag, position |-> position, length |-> length]]

-----------------------------------------------------------------------------
(***************************************************************************)
(* parse(): the early returns and the start of the first scan.             *)
(***************************************************************************)

\* Mutant: a block is loaded when one byte of it is missing.
ResumeEarly(from, complete) ==
    IF ~complete /\ from + BlockSize - 2 < Length THEN "block"
    ELSE IF ~complete /\ from < Len(buffer) THEN "trailer" ELSE "check"

\* Where tokenize() goes from `from`: another block, the trailer, or the checks.
Resume(from, complete) ==
    IF ~complete /\ from + BlockSize - 1 < Length THEN "block"
    ELSE IF ~complete /\ from < Len(buffer) THEN "trailer" ELSE "check"

\* Mutant: m_tag is not reset.
ParseCallKeepsTag(b) ==
    /\ parses' = parses + 1
    /\ buffer' = b
    /\ mTag' = mTag

ParseCall(b) ==
    /\ parses' = parses + 1
    /\ buffer' = b
    /\ mTag' = 0

Return(r) ==
    /\ pc' = "idle"
    /\ result' = r

ParseShort(b) ==
    /\ ParseCall(b)
    /\ Len(b) < MessageFragmentLimit
    /\ mCount' = 0
    /\ Return(Returned(0, "MessageFragment"))
    /\ UNCHANGED <<mFields, mTags, mPosition, offset, blockSum, lanes, walk, skipData, index>>

ParseForeign(b) ==
    /\ ParseCall(b)
    /\ Len(b) >= MessageFragmentLimit
    /\ ~IsPrefix(ProtocolPrefix, b)
    /\ mCount' = 0
    /\ Return(Returned(0, "InvalidBeginString"))
    /\ UNCHANGED <<mFields, mTags, mPosition, offset, blockSum, lanes, walk, skipData, index>>

ParseBegin(b) ==
    /\ ParseCall(b)
    /\ Len(b) >= MessageFragmentLimit
    /\ IsPrefix(ProtocolPrefix, b)
    /\ mFields' = Put(mFields, 0, BeginStringTag, 2, Len(ProtocolCode))
    /\ mTags' = [mTags EXCEPT ![0] = BeginStringTag]
    /\ mCount' = 1
    /\ offset' = 0
    /\ blockSum' = 0
    /\ skipData' = FALSE
    /\ result' = NoResult
    /\ pc' = Resume(0, FALSE)'
    /\ UNCHANGED <<mPosition, lanes, walk, index>>

-----------------------------------------------------------------------------
(***************************************************************************)
(* The vector part of tokenize(): which lanes of the block at `offset`     *)
(* hold tag digits, found with the 16-lane operations of Uint8x16, whose   *)
(* comparison masks are sets of lanes here.                                *)
(***************************************************************************)
Lane == 0 .. BlockSize - 1
InLane(k) == At(buffer, offset + k)

ShiftLeft(mask, n)  == {k - n : k \in mask} \intersect Lane
ShiftRight(mask, n) == {k + n : k \in mask} \intersect Lane

DigitFlags    == {k \in Lane : IsDigitByte(InLane(k))}
TagEndsMask   == {k \in Lane : InLane(k) = TagEnd}
FieldEndsMask == {k \in Lane : InLane(k) = FieldEnd}

\* From the digits next to a delimiter to the digits behind them, doubling the
\* distance: by one lane, then by two.
Spread(seed, Shift(_, _)) ==
    LET once  == seed \union (DigitFlags \intersect Shift(seed, 1))
        reach == DigitFlags \intersect Shift(DigitFlags, 1)
    IN  once \union (reach \intersect Shift(once, 2))

After  == Spread(DigitFlags \intersect ShiftLeft(TagEndsMask, 1), ShiftLeft)

\* Mutant: the second doubling step is missing.
BeforeOnce ==
    LET seed == DigitFlags \intersect ShiftRight(FieldEndsMask, 1)
    IN  seed \union (DigitFlags \intersect ShiftRight(seed, 1))

Before == Spread(DigitFlags \intersect ShiftRight(FieldEndsMask, 1), ShiftRight)

\* The first block is shifted one lane to step over BeginString's own tag,
\* which also hides a tag digit in its last lane from the trailing count.
TagLanes == (After \union Before) \ IF offset = 0 THEN {0} ELSE {}

\* Mutant: a tag cut off by the block's end is not noticed.
NoTrailingLanes == {}

\* The lanes of a tag the block may cut off.
TrailingLanes ==
    LET last4 == TagLanes \intersect 12 .. 15
    IN  IF offset = 0 THEN {} ELSE {k \in last4 : k .. 15 \subseteq last4}

-----------------------------------------------------------------------------
(***************************************************************************)
(* skipDataField(): `fields` is mFields with the last token just closed,   *)
(* `sum` the byte sum up to the end of the block.                          *)
(***************************************************************************)
IsDataLength(f) ==
    /\ skipData
    /\ f.tag \in DOMAIN DataTags
    /\ f.position + f.length <= Length

\* The first '=' at or after `from`, or the end of the buffer.
FindTagEnd(from) ==
    LET found == {p \in from .. Length - 1 : At(buffer, p) = TagEnd}
    IN  IF found # {} THEN Least(found) ELSE IF from > Length THEN from ELSE Length

\* Mutant: the sum is only ever extended.
ExtendedSum(sum, blockEnd, skipEnd) == sum + Sum(blockEnd, skipEnd)

\* The byte sum up to blockEnd re-based to skipEnd, before or after it.
RebasedSum(sum, blockEnd, skipEnd) ==
    sum - Sum(skipEnd, blockEnd) + Sum(blockEnd, skipEnd)

SkipPayload(fields, sum) ==
    LET field    == fields[last]
        size     == NumberAt(field, Length) % Uint32
        position == FindTagEnd(field.position + field.length + 1) + 1
        tag      == DataTags[field.tag]
        skipEnd  == Lower((position + size + 1) % Uint32, Length)
    IN  /\ mCount < Capacity
        /\ mFields' = Put(fields, mCount, tag, Cast16(position), Cast16(size))
        /\ mTags' = [mTags EXCEPT ![mCount] = tag]
        /\ mCount' = mCount + 1
        /\ blockSum' = RebasedSum(sum, offset + BlockSize, skipEnd)
        /\ offset' = skipEnd
        /\ mTag' = 0
        /\ mPosition' = 0
        /\ lanes' = {}
        /\ pc' = Resume(skipEnd, FALSE)

-----------------------------------------------------------------------------
(***************************************************************************)
(* processBlock().                                                         *)
(***************************************************************************)

\* The block's first step when no tag split over the block boundary ends here.
LoadBlock ==
    /\ pc = "block"
    /\ mTag = 0 \/ 0 \in TagLanes
    /\ mFields' = [mFields EXCEPT ![last].length = Cast16(mPosition)]
    /\ blockSum' = blockSum + Sum(offset, offset + BlockSize)
    /\ lanes' = TagLanes \ TrailingLanes
    /\ pc' = "tags"
    /\ UNCHANGED <<buffer, mTags, mCount, mTag, mPosition, offset, walk, skipData, index,
                   result, parses>>

\* The previous block ended with all of a tag's digits; this one starts with '='.
LoadBlockAfterSplitTag ==
    /\ pc = "block"
    /\ mTag # 0 /\ 0 \notin TagLanes
    /\ LET sum    == blockSum + Sum(offset, offset + BlockSize)
           closed == [mFields EXCEPT ![last].length =
                         Cast16(mPosition + offset - 1 - mFields[last].position)]
       IN  IF IsDataLength(closed[last])
           THEN SkipPayload(closed, sum)
           ELSE /\ mCount < Capacity
                /\ mFields' = Put(closed, mCount, Cast16(mTag), Cast16(offset + 1), 0)
                /\ mTags' = [mTags EXCEPT ![mCount] = Cast16(mTag)]
                /\ mCount' = mCount + 1
                /\ mTag' = 0
                /\ mPosition' = 0
                /\ blockSum' = sum
                /\ lanes' = TagLanes \ TrailingLanes
                /\ pc' = "tags"
                /\ UNCHANGED offset
    /\ UNCHANGED <<buffer, walk, skipData, index, result, parses>>

\* One run of tag digits: close the field before it, open the token it names.
TokenizeTag ==
    /\ pc = "tags"
    /\ lanes # {} /\ mFields[last].tag # CheckSumTag
    /\ LET first  == Least(lanes)
           stop   == Least({k \in first .. BlockSize : k \notin lanes})
           tag    == Joined(mTag, Slice(buffer, offset + first, offset + stop))
           closed == [mFields EXCEPT ![last].length =
                         Cast16(@ + offset + first - mFields[last].position - 1)]
       IN  IF IsDataLength(closed[last])
           THEN SkipPayload(closed, blockSum)
           ELSE /\ mCount < Capacity
                /\ mFields' = Put(closed, mCount, tag, Cast16(offset + stop + 1), 0)
                /\ mTags' = [mTags EXCEPT ![mCount] = tag]
                /\ mCount' = mCount + 1
                /\ mTag' = 0
                /\ lanes' = lanes \ (first .. stop - 1)
                /\ UNCHANGED <<pc, mPosition, offset, blockSum>>
    /\ UNCHANGED <<buffer, walk, skipData, index, result, parses>>

\* Mutant: the open field is never closed at a block's end.
LeavesFieldOpen == FALSE

\* The last full block ends on the SOH of the open field.
ClosesOnFieldEnd ==
    /\ offset + BlockSize + 15 >= Length
    /\ mFields[last].tag # CheckSumTag
    /\ InLane(15) = FieldEnd

\* After the block's tags: reserve the trailer's slot, remember a tag the block
\* cuts off, and finish the CheckSum token if that is what was found.
EndBlock ==
    /\ pc = "tags"
    /\ lanes = {} \/ mFields[last].tag = CheckSumTag
    /\ ClosesOnFieldEnd => mCount < Capacity
    /\ LET count    == IF ClosesOnFieldEnd THEN mCount + 1 ELSE mCount
           fields   == IF ClosesOnFieldEnd
                       THEN [mFields EXCEPT
                               ![last].length = Cast16(offset + 15 - mFields[last].position),
                               ![mCount] = EmptyField]
                       ELSE mFields
           cut      == Cardinality(TrailingLanes)
           complete == fields[count - 1].tag = CheckSumTag
       IN  /\ mFields' = IF complete
                         THEN [fields EXCEPT ![count - 1].length = CheckSumValueLength]
                         ELSE fields
           /\ mTags' = IF ClosesOnFieldEnd THEN [mTags EXCEPT ![mCount] = 0] ELSE mTags
           /\ mCount' = count
           /\ mTag' = IF cut = 0 THEN mTag
                      ELSE asciiToUint64(Slice(buffer, offset + 16 - cut, offset + 16))
           /\ mPosition' = -cut
           /\ offset' = offset + BlockSize
           /\ pc' = Resume(offset + BlockSize, complete)
    /\ lanes' = {}
    /\ UNCHANGED <<buffer, blockSum, walk, skipData, index, result, parses>>

-----------------------------------------------------------------------------
(***************************************************************************)
(* processTrailer(): the bytes after the last full block, whose tags and   *)
(* field ends are looked up in one zero-padded 8-byte word.                *)
(***************************************************************************)
WordLane == 0 .. WordSize - 1
InWord(k) == IF k < Remaining THEN At(buffer, offset + k) ELSE 0

\* findByte(): subtraction borrows, so a lane holding `value` with its lowest
\* bit flipped is flagged too when the lane below it is.
FindByte(value, flipped) ==
    {k \in WordLane :
        \E j \in 0 .. k : /\ InWord(j) = value
                          /\ \A i \in j + 1 .. k : InWord(i) \in {value, flipped}}
TagEnds   == FindByte(TagEnd, TagEnd - 1)
FieldEnds == FindByte(FieldEnd, FieldEnd - 1)

\* countr_zero(flags) / 8.
FirstLane(found)  == IF found = {} THEN WordSize ELSE Least(found)
WithoutFirst(found) == found \ {FirstLane(found)}

Cursor(position, tagEnds, fieldEnds, fieldEnd) ==
    [position |-> position, tagEnds |-> tagEnds, fieldEnds |-> fieldEnds,
     fieldEnd |-> fieldEnd]

TrailerAfterSplitTag ==
    /\ pc = "trailer"
    /\ mTag # 0
    /\ mCount < Capacity
    /\ LET tagEnd   == FirstLane(TagEnds)
           fieldEnd == FirstLane(FieldEnds)
           digits   == Slice(buffer, offset, offset + Lower(tagEnd, Remaining))
           tag      == Joined(mTag, digits)
           closed   == [mFields EXCEPT ![last].length =
                           Cast16(offset + mPosition - 1 - mFields[last].position)]
       IN  /\ mFields' = Put(closed, mCount, tag, Cast16(offset + tagEnd + 1),
                             Cast16(fieldEnd - tagEnd - 1))
           /\ mTags' = [mTags EXCEPT ![mCount] = tag]
           /\ walk' = Cursor(fieldEnd + 1, TagEnds, FieldEnds, fieldEnd)
    /\ mCount' = mCount + 1
    /\ mTag' = 0
    /\ pc' = "walk"
    /\ UNCHANGED <<buffer, mPosition, offset, blockSum, lanes, skipData, index, result, parses>>

\* The slot counted for the next tag keeps whatever it held.
TrailerAfterSplitValue ==
    /\ pc = "trailer"
    /\ mTag = 0
    /\ FirstLane(FieldEnds) < FirstLane(TagEnds)
    /\ mCount < Capacity
    /\ LET fieldEnd == FirstLane(FieldEnds)
           rest     == WithoutFirst(FieldEnds)
       IN  /\ mFields' = [mFields EXCEPT ![last].length =
                             Cast16(offset - mFields[last].position + fieldEnd)]
           /\ walk' = Cursor(fieldEnd + 1, TagEnds, rest, FirstLane(rest))
    /\ mCount' = mCount + 1
    /\ pc' = "walk"
    /\ UNCHANGED <<buffer, mTags, mTag, mPosition, offset, blockSum, lanes, skipData, index,
                   result, parses>>

TrailerAtTag ==
    /\ pc = "trailer"
    /\ mTag = 0
    /\ FirstLane(FieldEnds) >= FirstLane(TagEnds)
    /\ walk' = Cursor(0, TagEnds, FieldEnds, FirstLane(FieldEnds))
    /\ pc' = "walk"
    /\ UNCHANGED <<buffer, mFields, mTags, mCount, mTag, mPosition, offset, blockSum, lanes,
                   skipData, index, result, parses>>

MoreInWord ==
    /\ walk.position + CheckSumFieldLen < Remaining
    /\ FirstLane(walk.tagEnds) >= walk.position

\* One iteration of the loop: the field at the cursor goes into the last slot,
\* and a slot is counted for the field after it.
WalkField ==
    /\ pc = "walk"
    /\ MoreInWord
    /\ mCount < Capacity
    /\ LET tagEnd == FirstLane(walk.tagEnds)
           digits == Slice(buffer, offset + walk.position, offset + tagEnd)
           tag    == Cast16(asciiToUint64(digits))
           start  == tagEnd + 1
           length == Cast16(walk.fieldEnd - start)
       IN  /\ mFields' = Put(mFields, last, tag, Cast16(offset + start), length)
           /\ mTags' = [mTags EXCEPT ![last] = tag]
           /\ walk' = Cursor(start + length + 1, WithoutFirst(walk.tagEnds),
                             WithoutFirst(walk.fieldEnds), FirstLane(walk.fieldEnds))
    /\ mCount' = mCount + 1
    /\ UNCHANGED <<buffer, pc, mTag, mPosition, offset, blockSum, lanes, skipData, index,
                   result, parses>>

\* Mutant: the CheckSum always goes into the last slot.
LastSlotTaken == FALSE

\* The last slot holds a token already, and is not the one counted for the next.
LastSlotUsed == mFields[last].length >= 1

\* Seven bytes at the cursor are taken for the CheckSum field.  Its tag goes
\* into m_fields only.
WalkCheckSum ==
    /\ pc = "walk"
    /\ ~MoreInWord
    /\ IF walk.position + CheckSumFieldLen <= Remaining
       THEN LET slot  == IF LastSlotUsed THEN mCount ELSE last
                start == offset + walk.position
                tag   == Cast16(10 * (At(buffer, start) - Zero) + At(buffer, start + 1) - Zero)
            IN  /\ slot < Capacity
                /\ mCount' = slot + 1
                /\ mFields' = Put(mFields, slot, tag, Cast16(start + CheckSumPrefixLen),
                                  CheckSumValueLength)
       ELSE UNCHANGED <<mFields, mCount>>
    /\ pc' = "check"
    /\ UNCHANGED <<buffer, mTags, mTag, mPosition, offset, blockSum, lanes, walk, skipData,
                   index, result, parses>>

-----------------------------------------------------------------------------
(***************************************************************************)
(* checkRequiredFields() and processCheckSum().                            *)
(***************************************************************************)
HasBits(b, mask) == \A k \in 0 .. 7 : (mask \div 2^k) % 2 = 1 => (b \div 2^k) % 2 = 1

\* CheckSumMask: the bits of "\x01" "10=" before the value, bit 0 of the byte after it.
HasCheckSumMask(position) ==
    /\ HasBits(At(buffer, position - 4), FieldEnd)
    /\ HasBits(At(buffer, position - 3), Zero + 1)
    /\ HasBits(At(buffer, position - 2), Zero)
    /\ HasBits(At(buffer, position - 1), TagEnd)
    /\ HasBits(At(buffer, position + 3), FieldEnd)

\* Mutant: the CheckSum field is recognised, its value never compared.
CheckSumTagOnly ==
    LET position == mFields[last].position
    IN  IF position < 4 \/ position + 4 > Length \/ ~HasCheckSumMask(position)
        THEN "InvalidCheckSumTag" ELSE "Success"

ProcessCheckSum ==
    LET position == mFields[last].position
        end      == position - 3
        scanEnd  == Lower(offset, Length)
        sum      == blockSum - Sum(end, scanEnd) + Sum(scanEnd, end)
    IN  IF position < 4 \/ position + 4 > Length THEN "InvalidCheckSumTag"
        ELSE IF ~HasCheckSumMask(position) THEN "InvalidCheckSumTag"
        ELSE IF asciiToUint64(Slice(buffer, position, position + 3)) # sum % 256
        THEN "InvalidCheckSum" ELSE "Success"

\* Mutant: the CheckSum's field need not end in the buffer.
CheckedUnended ==
    LET sumField    == mFields[last]
        body        == mFields[BodyLengthPosition]
        hasCheckSum == sumField.tag = CheckSumTag
        length      == NumberAt(body, Length)
        byteCount   == sumField.position - body.position - body.length - 4
    IN  IF body.position + body.length > Length THEN Returned(0, "InvalidBodyLength")
        ELSE IF hasCheckSum
        THEN Returned(sumField.position + sumField.length + 1,
                      IF byteCount # length THEN "InvalidBodyLength" ELSE ProcessCheckSum)
        ELSE IF byteCount < length THEN Returned(0, "MessageFragment")
        ELSE Returned(0, ProcessCheckSum)

CheckRequiredFields ==
    LET sumField    == mFields[last]
        body        == mFields[BodyLengthPosition]
        hasCheckSum == /\ sumField.tag = CheckSumTag
                       /\ sumField.position + sumField.length + 1 <= Length
        processed   == IF hasCheckSum THEN sumField.position + sumField.length + 1 ELSE 0
        length      == NumberAt(body, Length)
        byteCount   == sumField.position - body.position - body.length - 4
    IN  IF body.position + body.length > Length
        THEN Returned(processed, "InvalidBodyLength")
        ELSE IF hasCheckSum
        THEN Returned(processed,
               CASE body.tag # BodyLengthTag -> "InvalidBodyLengthTag"
                 [] body.tag = BodyLengthTag /\ byteCount # length -> "InvalidBodyLength"
                 [] OTHER ->
                      IF mFields[MessageTypePosition].tag # MessageTypeTag
                      THEN "InvalidMessageTypeTag"
                      ELSE IF mCount < RequiredFieldCount
                      THEN "RequiredFieldMissing" ELSE ProcessCheckSum)
        ELSE IF byteCount < length THEN Returned(0, "MessageFragment")
        ELSE Returned(0, ProcessCheckSum)

\* The scan is over: its status, a failed scan's last tag cleared, and in the
\* scan without data skipping the test for data length tags.
Check ==
    /\ pc = "check"
    /\ result' = CheckRequiredFields
    /\ mFields' = IF result'.status = "Success" THEN mFields
                  ELSE [mFields EXCEPT ![last].tag = 0]
    /\ pc' = IF skipData \/ \A i \in 0 .. last : mTags[i] \notin DOMAIN DataTags THEN "idle"
             ELSE IF result'.status = "Success" THEN "drop" ELSE "rescan"
    /\ index' = MessageTypePosition + 1
    /\ UNCHANGED <<buffer, mTags, mCount, mTag, mPosition, offset, blockSum, lanes, walk,
                   skipData, parses>>

-----------------------------------------------------------------------------
(***************************************************************************)
(* resolveDataFields(): dropDataPayloadTokens() slot by slot, or else      *)
(* rescanFromDataField().                                                  *)
(***************************************************************************)
NoDataTagAt(i) == mTags[i] \notin DOMAIN DataTags

DropDone ==
    /\ pc = "drop"
    /\ index + 2 >= mCount
    /\ pc' = "idle"
    /\ UNCHANGED <<buffer, mFields, mTags, mCount, mTag, mPosition, offset, blockSum, lanes,
                   walk, skipData, index, result, parses>>

DropNext ==
    /\ pc = "drop"
    /\ index + 2 < mCount
    /\ NoDataTagAt(index)
    /\ index' = index + 1
    /\ UNCHANGED <<buffer, pc, mFields, mTags, mCount, mTag, mPosition, offset, blockSum, lanes,
                   walk, skipData, result, parses>>

\* The SOH ending the payload of the data field after the length field at i.
PayloadLength(i) == NumberAt(mFields[i], Len(buffer))
PayloadEnd(i) == mFields[i + 1].position + PayloadLength(i)

LaidOutAsExpected(i) ==
    /\ mFields[i + 1].tag = DataTags[mTags[i]]
    /\ mFields[i].length # 0
    /\ mFields[i].position + mFields[i].length <= Len(buffer)
    /\ PayloadEnd(i) \in 0 .. mFields[last].position - 1
    /\ At(buffer, PayloadEnd(i)) = FieldEnd

\* Mutant: m_tags does not follow m_fields.
TagsKept(from, dropped) == mTags

\* A token whose value starts at most one past the payload's SOH was made from
\* payload bytes; the tokens behind those move down, in both arrays.
MadeFromPayload(j, i) == mFields[j].position <= PayloadEnd(i) + 1
Moved(a, from, dropped) ==
    [j \in Slot |-> IF j \in from .. last - dropped THEN a[j + dropped] ELSE a[j]]
TagsMoved(from, dropped) == Moved(mTags, from, dropped)

\* The tokens after the data field that start inside its payload are removed by
\* moving the ones behind them; the vacated slots keep their contents.
DropPayloadTokens ==
    /\ pc = "drop"
    /\ index + 2 < mCount
    /\ ~NoDataTagAt(index)
    /\ LaidOutAsExpected(index)
    /\ LET from    == index + 2
           next    == Least({j \in from .. mCount :
                                j = mCount \/ ~MadeFromPayload(j, index)})
           dropped == next - from
       IN  /\ mFields' = Moved([mFields EXCEPT ![index + 1].length =
                                   Cast16(PayloadLength(index))], from, dropped)
           /\ mTags' = TagsMoved(from, dropped)
           /\ mCount' = mCount - dropped
           /\ index' = from
    /\ UNCHANGED <<buffer, pc, mTag, mPosition, offset, blockSum, lanes, walk, skipData,
                   result, parses>>

DropFails ==
    /\ pc = "drop"
    /\ index + 2 < mCount
    /\ ~NoDataTagAt(index)
    /\ ~LaidOutAsExpected(index)
    /\ pc' = "rescan"
    /\ UNCHANGED <<buffer, mFields, mTags, mCount, mTag, mPosition, offset, blockSum, lanes,
                   walk, skipData, index, result, parses>>

\* The first data length tag behind the header's three fields, and the position
\* where its digits start; no position when the bytes before the value are not
\* "<SOH>digits=".
FirstDataSlot ==
    LET from == MessageTypePosition + 1
    IN  Least({i \in from .. Higher(from, mCount) : i >= mCount \/ ~NoDataTagAt(i)})
RescanStarts(i) ==
    LET value == mFields[i].position
    IN  {s \in mFields[i - 1].position + 1 .. value - 2 :
            /\ value <= Length
            /\ At(buffer, value - 1) = TagEnd
            /\ At(buffer, s - 1) = FieldEnd
            /\ \A p \in s .. value - 2 : IsDigitByte(At(buffer, p))}

RescanImpossible ==
    /\ pc = "rescan"
    /\ FirstDataSlot >= mCount \/ RescanStarts(FirstDataSlot) = {}
    /\ pc' = "idle"
    /\ UNCHANGED <<buffer, mFields, mTags, mCount, mTag, mPosition, offset, blockSum, lanes,
                   walk, skipData, index, result, parses>>

Rescan ==
    /\ pc = "rescan"
    /\ FirstDataSlot < mCount
    /\ \E start \in RescanStarts(FirstDataSlot) :
         /\ mCount' = FirstDataSlot
         /\ offset' = start
         /\ blockSum' = Sum(0, start)
         /\ pc' = Resume(start, FALSE)
    /\ mTag' = 0
    /\ mPosition' = 0
    /\ skipData' = TRUE
    /\ result' = NoResult
    /\ UNCHANGED <<buffer, mFields, mTags, lanes, walk, index, parses>>

-----------------------------------------------------------------------------
Init ==
    /\ buffer = <<>>
    /\ pc = "idle"
    /\ mFields = [i \in Slot |-> EmptyField]
    /\ mTags = [i \in Slot |-> 0]
    /\ mCount = 0
    /\ mTag = 0
    /\ mPosition = 0
    /\ offset = 0
    /\ blockSum = 0
    /\ lanes = {}
    /\ walk = Cursor(0, {}, {}, 0)
    /\ skipData = FALSE
    /\ index = 0
    /\ result = NoResult
    /\ parses = 0

Parse(b) == ParseShort(b) \/ ParseForeign(b) \/ ParseBegin(b)

\* The caller: one parse() at a time, of any buffer.
Call ==
    /\ pc = "idle"
    /\ parses < MaxParses
    /\ \E b \in Buffers : Parse(b)

\* The steps parse() takes once it has begun.
Step ==
    \/ LoadBlock \/ LoadBlockAfterSplitTag \/ TokenizeTag \/ EndBlock
    \/ TrailerAfterSplitTag \/ TrailerAfterSplitValue \/ TrailerAtTag
    \/ WalkField \/ WalkCheckSum
    \/ Check
    \/ DropDone \/ DropNext \/ DropPayloadTokens \/ DropFails
    \/ Rescan \/ RescanImpossible

Next == Step \/ Call

Spec == Init /\ [][Next]_vars

\* parse() runs to its return; that the caller calls again is not assumed.
FairSpec == Spec /\ WF_vars(Step)
=============================================================================
