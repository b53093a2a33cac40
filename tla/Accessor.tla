------------------------------ MODULE Accessor ------------------------------
(***************************************************************************)
(* Lookups over the message just parsed (detail/parser/FieldDecoder.hpp),  *)
(* and the data fields behind them (decoder/DataDecoder.hpp): tags are     *)
(* looked up in m_tags, values are cut out by m_fields.                    *)
(***************************************************************************)
EXTENDS PayloadDecoder

MaxUint32Digits == 10

\* Mutant: the tags after the last block of eight are not looked at.
IndicesInBlocks(tag) == {i \in 0 .. 8 * (mCount \div 8) - 1 : mTags[i] = tag}

\* simd::find() and find() over the message return the least of these.
Indices(tag) == {i \in 0 .. last : mTags[i] = tag}

\* What a field says it holds; bufferAt().
bufferAt(position, length) == Slice(buffer, position, position + length)
Value(i) == bufferAt(mFields[i].position, mFields[i].length)

Found(value) == [status |-> "found", value |-> value]
Unset        == [status |-> "Success", value |-> <<>>]
Error(status) == [status |-> status, value |-> <<>>]

\* parseUnsignedDigits(): of more than eight digits, the last eight are loaded at once.
Number(i) ==
    LET digits == Value(i)
        head   == Len(digits) - WordSize
    IN  IF head <= 0 THEN NumberAt(mFields[i], Len(buffer))
        ELSE asciiToUint64(SubSeq(digits, 1, head)) * 10^WordSize
             + SwarNumber(SubSeq(digits, head + 1, head + WordSize))

\* convertToUint32(): one load is looked at, and not at the upmost bit of a byte.
NumberError(i) ==
    LET digits == Value(i)
    IN  IF Len(digits) \notin 1 .. MaxUint32Digits THEN "InvalidLength"
        ELSE IF \E k \in 1 .. Lower(Len(digits), WordSize) : ~IsDigitByte(digits[k] % 128)
        THEN "InvalidValue"
        ELSE IF Number(i) >= Uint32 THEN "InvalidValue" ELSE "None"

\* DataDecoder::wrap() and get(): the payload has the length that the length field
\* says, wherever the token of its data field ends.
Data(lengthTag, dataTag) ==
    LET length == Least(Indices(lengthTag))
        start  == mFields[Least(Indices(dataTag))].position
    IN  IF Indices(lengthTag) = {} THEN Unset
        ELSE IF NumberError(length) # "None" THEN Error(NumberError(length))
        ELSE IF Indices(dataTag) = {} THEN Unset
        ELSE Found(bufferAt(start, Number(length)))
=============================================================================
