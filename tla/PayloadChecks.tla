---------------------------- MODULE PayloadChecks ----------------------------
(***************************************************************************)
(* Correctness of PayloadDecoder against the messages the buffers were made *)
(* from: the reference tokens come from a message's fields, the decoder    *)
(* sees its bytes.                                                         *)
(***************************************************************************)
EXTENDS Accessor, TokenizerAnswer

\* A message as the bytes a counterparty sends and the tokens a decoder must
\* find in them, both from its fields.
Coded(fields, body) ==
    [bytes |-> FieldsBytes(fields), tokens |-> RefTokens(fields), body |-> body]

CONSTANTS
    Bodies,     \* the fields, between BodyLength and CheckSum, of the messages sent
    Encoded     \* the same of those the library's own encoder wrote

Messages == {Coded(AllFields(ProtocolCode, body), body) : body \in Bodies}
            \union {Coded(PaddedFields(ProtocolCode, body), body) : body \in Encoded}

Answered == pc = "idle" /\ parses > 0
Accepted == Answered /\ result.status = "Success"
Scanning == pc \in {"block", "tags", "trailer", "walk", "check"}

\* fields(): the tokens produced by the last parse().
Tokens == [i \in 1 .. mCount |-> mFields[i - 1]]

\* The messages `bytes` begins with (at most one: BodyLength decides).
WholeIn(bytes)   == {m \in Messages : IsPrefix(m.bytes, bytes)}

-----------------------------------------------------------------------------
Walk == [position : Nat, tagEnds : SUBSET WordLane, fieldEnds : SUBSET WordLane,
         fieldEnd : 0 .. WordSize]

\* Types, and a scan never runs with an empty token array: m_fields[m_count - 1]
\* is read at every step of it (PayloadDecoder.hpp:505, 721, 426).  That m_count stays
\* within Capacity says nothing of the code, which has no bound (537).
TypeOK ==
    /\ buffer \in Seq(Byte)
    /\ pc \in {"idle", "block", "tags", "trailer", "walk", "check", "drop", "rescan"}
    /\ mFields \in [Slot -> Field]
    /\ mTags \in [Slot -> Uint16]
    /\ mCount \in 0 .. Capacity
    /\ pc # "idle" => mCount > 0
    /\ mTag \in Nat
    /\ mPosition \in -4 .. 0
    /\ offset \in Nat
    /\ blockSum \in Int
    /\ lanes \subseteq Lane
    /\ walk \in Walk
    /\ skipData \in BOOLEAN
    /\ index \in Nat
    /\ result.status \in Statuses \union {"None"} /\ result.processed \in Nat
    /\ parses \in 0 .. MaxParses

-----------------------------------------------------------------------------
(***************************************************************************)
(* Safety.                                                                 *)
(***************************************************************************)

\* The running byte sum covers exactly the bytes up to the scan offset, through
\* block loads, data payload skips that re-base it backwards or forwards, and
\* the restart of a rescan (PayloadDecoder.hpp:206, 381-394, 638-648).
SumExact ==
    /\ pc \in {"block", "trailer", "walk", "check"} =>
           blockSum = SumOf(Slice(buffer, 0, Lower(offset, Len(buffer))))
    /\ pc = "tags" => blockSum = Sum(0, offset + BlockSize)

\* The two doubling steps find exactly the digits that reach a '=' or a SOH over at
\* most four lanes of digits, wherever in the block they lie
\* (PayloadDecoder.hpp:214-228).
DigitsIn(from, to) == \A j \in from .. to : IsDigitByte(InLane(j))
EndsTag(k) == \E e \in Lane : e \in k + 1 .. k + 4 /\ InLane(e) = TagEnd /\ DigitsIn(k, e - 1)
StartsTag(k) == \E s \in Lane : s \in k - 4 .. k - 1 /\ InLane(s) = FieldEnd /\ DigitsIn(s + 1, k)
TagLanesExact ==
    LET first == IF offset = 0 THEN 1 ELSE 0
    IN  pc = "block" =>
            TagLanes = {k \in first .. BlockSize - 1 : EndsTag(k) \/ StartsTag(k)}

\* While a whole message is scanned, every token but the open one is already
\* final, wherever block boundaries cut its tag or its value; up to the first
\* data length field in the scan that does not skip payloads
\* (PayloadDecoder.hpp:506-541).
BeforeData(m, i) == skipData \/ \A j \in 1 .. i - 1 : m.tokens[j].tag \notin DOMAIN DataTags
ClosedTokensExact ==
    pc \in {"block", "tags"} =>
        \A m \in WholeIn(buffer) : \A i \in 1 .. mCount - 1 :
            i < Len(m.tokens) /\ BeforeData(m, i) => mFields[i - 1] = m.tokens[i]

\* A whole message at the start of the buffer is accepted with its own length,
\* which is where the caller resumes (PayloadDecoder.hpp:150-153).
WholeMessageAccepted ==
    Answered => \A m \in WholeIn(buffer) :
                    result = Returned(Len(m.bytes), "Success")

\* Every load stays inside the buffer: a block is whole, the trailer holds at
\* least a byte, and the digits of a trailer tag end before the buffer does,
\* whatever the bytes are (PayloadDecoder.hpp:203, 248, 759-762).
ReadsInBuffer ==
    /\ pc \in {"block", "tags"} => offset + BlockSize <= Len(buffer)
    /\ pc \in {"trailer", "walk"} => offset < Len(buffer)
    /\ pc = "walk" /\ MoreInWord => offset + FirstLane(walk.tagEnds) <= Len(buffer)

\* An answer never claims more bytes than it was given, and Success is a verdict on
\* the bytes, whatever they are: the three characters of the CheckSum are the sum of
\* every byte before its field, modulo 256, and when a whole message is reported,
\* MsgType follows BodyLength, and BodyLength, if it is a number of up to eight digits,
\* is the distance between its own field and the CheckSum's; dropping tokens made from payload bytes does not lose the field, nor
\* does a sum re-based over a payload drift (PayloadDecoder.hpp:423-470, 638-648, 666-709;
\* VerdictSound is in Wire).
AnswerSound ==
    /\ Answered => result.processed <= Length
    /\ Accepted => VerdictSound(buffer, result.processed, mFields[last],
                                mFields[BodyLengthPosition], mFields[MessageTypePosition])

\* m_tags names the same tags as m_fields, also after tokens made from a data
\* payload were dropped or a rescan replaced them; the CheckSum's slot aside
\* (PayloadDecoder.hpp:37-38, 327-331).
TagsParallel == Accepted => \A i \in 0 .. last - 1 : mTags[i] = mFields[i].tag

\* On an object used before, an accepted message still has its own tokens in
\* their places, BeginString's aside, and its CheckSum last; between them there is
\* at most one slot left from an earlier parse (PayloadDecoder.hpp:749, 779-782).
TokensInPlace ==
    Accepted => \A m \in WholeIn(buffer) :
        LET n == Len(m.tokens)
        IN  /\ mCount \in {n, n + 1}
            /\ Tokens[mCount] = m.tokens[n]
            /\ \A i \in 2 .. n - 1 : Tokens[i] = m.tokens[i]

\* The data fields of a message are read as the payloads it was made from, whatever
\* is in them, and a data field it does not have as not set: the lengths come from
\* one token, the start from another, and both tokens from tags that moved when
\* tokens made from payload bytes were dropped (DataDecoder.hpp:41-58).
PayloadIn(body, tag) ==
    LET fields == SelectSeq(body, LAMBDA f : f.tag = tag)
    IN  IF fields = <<>> THEN Unset ELSE Found(Head(fields).value)
DataExact ==
    Accepted => \A m \in WholeIn(buffer), tag \in DOMAIN DataTags :
        Data(tag, DataTags[tag]) = PayloadIn(m.body, DataTags[tag])

-----------------------------------------------------------------------------
(***************************************************************************)
(* The decoder as an implementation of Tokenizer.  A scan in progress is a *)
(* pending question; of a rejection only that it is one is promised.       *)
(***************************************************************************)
AnswerNow ==
    IF parses = 0 THEN Nothing
    ELSE IF pc # "idle" THEN Pending
    ELSE IF result.status = "Success" THEN Answer("Success", result.processed, Tokens)
    ELSE Rejection

\* A buffer that begins with a whole message gets that message's tokens and
\* length; any other buffer (truncated, damaged, foreign) is rejected.
Promised(b) ==
    IF WholeIn(b) = {} THEN {Rejection}
    ELSE {Answer("Success", Len(m.bytes), m.tokens) : m \in WholeIn(b)}

Promise == INSTANCE Tokenizer WITH Answers <- Promised, request <- buffer, answer <- AnswerNow

\* parse() answers every buffer, exactly as promised, however many steps the
\* scan takes and whatever the object was used for before
\* (PayloadDecoder.hpp:139-154).
Implements == Promise!Spec

\* Whatever the buffers hold, less is promised: a rejection, or the tokens of a message
\* that its own CheckSum, BodyLength and MsgType vouch for (VerdictSound).
TokenAt(a, i) == a.tokens[i + 1]
VouchedFor(b) ==
    {Rejection} \union
    {a \in [status : {"Success"}, processed : 0 .. Cast16(Len(b)), tokens : Seq(Field)] :
        /\ a.tokens # <<>>
        /\ a.processed > 0 => Len(a.tokens) > MessageTypePosition
        /\ VerdictSound(b, a.processed, Last(a.tokens), TokenAt(a, BodyLengthPosition),
                        TokenAt(a, MessageTypePosition))}

Vouch == INSTANCE Tokenizer WITH Answers <- VouchedFor, request <- buffer, answer <- AnswerNow

\* A call of parse() is answered once, at its return or at once, with an answer that
\* holds for the bytes of that call; nothing an object was used for before, and no
\* step of a scan, is ever taken for the answer (PayloadDecoder.hpp:139-154, 423-470).
Vouches == Vouch!Safety
=============================================================================
