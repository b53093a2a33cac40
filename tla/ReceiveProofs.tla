--------------------------- MODULE ReceiveProofs ---------------------------
(***************************************************************************)
(* Proofs about the receive loop for every stream, whatever its bytes, and *)
(* however the socket cuts it.                                             *)
(*                                                                         *)
(* The loop is composed with the payload decoder: its steps are steps of   *)
(* the decoder while parse() runs, and leave the decoder alone otherwise.  *)
(* The decoder's invariants are kept by any call with any bytes, so they   *)
(* are invariants of the loop as well (DecoderInv); the loop adds where it *)
(* is in the stream, and that the bytes parse() looks at are those at that *)
(* place (PlaceInv).                                                       *)
(***************************************************************************)
EXTENDS Receive, PayloadDecoderProofs

DecoderInv == ScanInv /\ SumInv /\ AnswerInv

PlaceInv ==
    /\ Stream(sent) \in Seq(Byte)
    /\ arrived \in Nat /\ consumed \in Nat /\ parses \in Nat
    /\ loop = "parsing" => parses > 0
    /\ HandledInArrived

-----------------------------------------------------------------------------
LEMMA StreamType == ASSUME NEW messages \in Streams PROVE Stream(messages) \in Seq(Byte)
<1> DEFINE R  == [bytes : Seq(Byte), verdict : [status : STRING, tag : Nat]]
           bs == [i \in DOMAIN messages |-> messages[i].bytes]
<1>1. messages \in Seq(R)
  BY StreamAssumption
<1>2. DOMAIN messages = 1 .. Len(messages) /\ Len(messages) \in Nat /\ \A i \in 1 .. Len(messages) : messages[i] \in R
  <2> HIDE DEF R
  <2> QED BY <1>1
<1>3. bs \in Seq(Seq(Byte))
  <2>1. \A i \in 1 .. Len(messages) : messages[i].bytes \in Seq(Byte)
    BY <1>2
  <2>2. bs \in [1 .. Len(messages) -> Seq(Byte)]
    BY <1>2, <2>1
  <2>3. \A S : \A n \in Nat : \A b \in [1 .. n -> S] : b \in Seq(S)
    OBVIOUS
  <2> HIDE DEF bs
  <2> QED BY <1>2, <2>2, <2>3, Zenon
<1> HIDE DEF bs
<1>4. <<>> \in Seq(Byte)
  OBVIOUS
<1>5. FlattenSeq(bs) \in Seq(Byte)
  BY <1>3, <1>4, FlattenAppend
<1> QED BY <1>5 DEF Stream, bs

\* The bytes at the loop's place.
LEMMA InputType ==
    ASSUME PlaceInv
    PROVE  input \in Seq(Byte) /\ Len(input) = arrived - consumed
<1> DEFINE s == Stream(sent)
<1>1. s \in Seq(Byte) /\ arrived \in Nat /\ consumed \in Nat /\ consumed <= arrived /\ arrived <= Len(s)
  BY DEF PlaceInv, HandledInArrived
<1> HIDE DEF s
<1>2. SubSeq(s, consumed + 1, arrived) \in Seq(Byte) /\ Len(SubSeq(s, consumed + 1, arrived)) = arrived - consumed
  BY <1>1
<1> QED BY <1>2 DEF input, Slice, s

-----------------------------------------------------------------------------
(***************************************************************************)
(* The decoder's invariants.                                               *)
(***************************************************************************)
LEMMA DecoderStep ==
    ASSUME DecoderInv, Step \/ Called
    PROVE  DecoderInv'
<1>1. ScanInv'
  BY ScanStep DEF DecoderInv
<1>2. SumInv'
  BY <1>1, SumStep DEF DecoderInv
<1>3. AnswerInv'
  BY <1>1, AnswerStep DEF DecoderInv
<1> QED BY <1>1, <1>2, <1>3 DEF DecoderInv

LEMMA DecoderRests == ASSUME DecoderInv, UNCHANGED vars PROVE DecoderInv'
<1>1. ScanInv'
  <2>1. UNCHANGED <<buffer, pc, mFields, mCount, mPosition, offset, lanes, walk, index>>
    BY DEF vars
  <2>2. Extents(mFields)'
    BY <2>1, ExtentsNext DEF DecoderInv, ScanInv
  <2>3. UNCHANGED Remaining
    BY <2>1 DEF Remaining
  <2> QED BY <2>1, <2>2, <2>3
          DEF DecoderInv, ScanInv, InBlocks, InTrailer, DropSlots, WalkInWord, InWordOnly
<1>2. SumInv'
  BY DEF DecoderInv, vars, SumInv, InLength, SumExact, Length, Sum
<1>3. AnswerInv'
  BY DEF DecoderInv, vars, AnswerInv, Justified, VerdictSound, CheckSumRight, Framed, Sum, Length, last
<1> QED BY <1>1, <1>2, <1>3 DEF DecoderInv

\* What each action of the loop is to the decoder.
LEMMA LoopAction ==
    ASSUME ReceiveNext, PlaceInv
    PROVE  \/ UNCHANGED vars
           \/ Step /\ loop = "parsing" /\ UNCHANGED loopVars
           \/ ParseInput /\ Called
<1>1. CASE Deliver \/ KeepFragment \/ Close \/ Consume
  BY <1>1 DEF Deliver, KeepFragment, Close, Consume
<1>2. CASE ParseInput
  BY <1>2, InputType DEF ParseInput, Called
<1>3. CASE Parsing
  BY <1>3 DEF Parsing
<1> QED BY <1>1, <1>2, <1>3 DEF ReceiveNext

-----------------------------------------------------------------------------
(***************************************************************************)
(* The loop's place.                                                       *)
(***************************************************************************)
LEMMA InputStays == ASSUME UNCHANGED <<sent, arrived, consumed>> PROVE UNCHANGED <<input, Stream(sent)>>
BY DEF input, Stream

LEMMA StepKeepsBuffer ==
    ASSUME Step
    PROVE  UNCHANGED <<buffer, parses>>
<1>1. CASE LoadBlock \/ LoadBlockAfterSplitTag \/ TokenizeTag \/ EndBlock
  BY <1>1, Zenon DEF LoadBlock, LoadBlockAfterSplitTag, TokenizeTag, EndBlock
<1>2. CASE TrailerAfterSplitTag \/ TrailerAfterSplitValue \/ TrailerAtTag
  BY <1>2, Zenon DEF TrailerAfterSplitTag, TrailerAfterSplitValue, TrailerAtTag
<1>3. CASE WalkField \/ WalkCheckSum \/ Check
  BY <1>3, Zenon DEF WalkField, WalkCheckSum, Check
<1>4. CASE DropDone \/ DropNext \/ DropPayloadTokens \/ DropFails \/ Rescan \/ RescanImpossible
  BY <1>4, Zenon DEF DropDone, DropNext, DropPayloadTokens, DropFails, Rescan, RescanImpossible
<1> QED BY <1>1, <1>2, <1>3, <1>4 DEF Step

\* An answer is about the bytes at the loop's place, and claims no more of them than
\* there are.
LEMMA AnswerAtPlace ==
    ASSUME DecoderInv, PlaceInv, Returning
    PROVE  /\ buffer = input /\ Justified
           /\ result.processed \in Nat /\ result.processed <= arrived - consumed
<1>1. buffer = input /\ parses > 0 /\ pc = "idle"
  BY DEF Returning, PlaceInv, HandledInArrived
<1>2. Justified
  BY <1>1 DEF DecoderInv, AnswerInv
<1>3. Len(buffer) = arrived - consumed /\ buffer \in Seq(Byte)
  BY <1>1, InputType
<1>4. Length \in Nat /\ Length <= Len(buffer)
  BY <1>3, LengthType
<1>5. result.processed \in Nat /\ result.processed <= Length /\ arrived \in Nat /\ consumed \in Nat
  BY <1>2 DEF Justified, PlaceInv
<1> QED BY <1>1, <1>2, <1>3, <1>4, <1>5

LEMMA PlaceInit == ReceiveInit => PlaceInv
<1>1. SUFFICES ASSUME ReceiveInit PROVE PlaceInv
  OBVIOUS
<1>2. Stream(sent) \in Seq(Byte)
  BY <1>1, StreamType DEF ReceiveInit
<1>3. arrived = 0 /\ consumed = 0 /\ parses = 0 /\ loop = "waiting"
  BY <1>1 DEF ReceiveInit, Init
<1>4. Len(Stream(sent)) \in Nat
  <2> DEFINE s == Stream(sent)
  <2>1. s \in Seq(Byte)
    BY <1>2
  <2> HIDE DEF s
  <2>2. Len(s) \in Nat
    BY <2>1
  <2> QED BY <2>2 DEF s
<1> QED BY <1>2, <1>3, <1>4 DEF PlaceInv, HandledInArrived

LEMMA PlaceStep ==
    ASSUME DecoderInv, PlaceInv, ReceiveNext
    PROVE  PlaceInv'
<1> DEFINE n == Len(Stream(sent))
<1>1. /\ Stream(sent) \in Seq(Byte)
      /\ arrived \in Nat /\ consumed \in Nat /\ parses \in Nat /\ n \in Nat
      /\ consumed <= arrived /\ arrived <= n
      /\ loop = "parsing" => buffer = input /\ parses > 0
  BY LenProperties DEF PlaceInv, HandledInArrived
<1>2. CASE Deliver
  <2>1. PICK m \in arrived + 1 .. n : arrived' = m
    BY <1>2 DEF Deliver
  <2>2. loop' = "receiving" /\ UNCHANGED <<sent, consumed, parses>>
    BY <1>2 DEF Deliver, vars
  <2>3. UNCHANGED Stream(sent)
    BY <2>2 DEF Stream
  <2>4. arrived' \in Nat /\ consumed' <= arrived' /\ arrived' <= n
    <3> HIDE DEF n
    <3> QED BY <1>1, <2>1, <2>2
  <2> QED BY <1>1, <2>2, <2>3, <2>4 DEF PlaceInv, HandledInArrived
<1>3. CASE ParseInput
  <2>1. loop' = "parsing" /\ UNCHANGED <<sent, arrived, consumed>> /\ Parse(input)
    BY <1>3 DEF ParseInput
  <2>2. buffer' = input /\ parses' = parses + 1
    BY <2>1, Zenon DEF Parse, ParseShort, ParseForeign, ParseBegin, ParseCall
  <2>3. UNCHANGED <<input, Stream(sent)>>
    BY <2>1, InputStays
  <2>4. parses' \in Nat /\ parses' > 0
    BY <1>1, <2>2
  <2>5. buffer' = input'
    BY <2>2, <2>3, Zenon
  <2> QED BY <1>1, <2>1, <2>3, <2>4, <2>5 DEF PlaceInv, HandledInArrived
<1>4. CASE Parsing
  <2>1. UNCHANGED <<sent, arrived, consumed, loop, buffer, parses>>
    BY <1>4, StepKeepsBuffer DEF Parsing, loopVars
  <2>2. UNCHANGED <<input, Stream(sent)>>
    BY <2>1, InputStays
  <2> QED BY <1>1, <2>1, <2>2 DEF PlaceInv, HandledInArrived
<1>5. CASE KeepFragment \/ Close
  <2>1. loop' # "parsing" /\ UNCHANGED <<sent, arrived, consumed, parses>>
    BY <1>5 DEF KeepFragment, Close, vars
  <2>2. UNCHANGED Stream(sent)
    BY <2>1 DEF Stream
  <2> QED BY <1>1, <2>1, <2>2 DEF PlaceInv, HandledInArrived
<1>6. CASE Consume
  <2>1. /\ Returning /\ consumed' = consumed + result.processed /\ loop' = AfterMessage
        /\ UNCHANGED <<sent, arrived, parses>>
    BY <1>6 DEF Consume, vars
  <2>2. result.processed \in Nat /\ result.processed <= arrived - consumed
    BY <2>1, AnswerAtPlace
  <2>3. loop' # "parsing"
    BY <2>1 DEF AfterMessage
  <2>4. UNCHANGED Stream(sent)
    BY <2>1 DEF Stream
  <2>5. consumed' \in Nat /\ consumed' <= arrived'
    BY <1>1, <2>1, <2>2
  <2> QED BY <1>1, <2>1, <2>3, <2>4, <2>5 DEF PlaceInv, HandledInArrived
<1> QED BY <1>2, <1>3, <1>4, <1>5, <1>6 DEF ReceiveNext

LEMMA PlaceRests == ASSUME PlaceInv, UNCHANGED receiveVars PROVE PlaceInv'
<1>1. UNCHANGED <<sent, arrived, consumed, loop, buffer, parses>>
  BY DEF receiveVars, vars, loopVars
<1>2. UNCHANGED <<input, Stream(sent)>>
  BY <1>1, InputStays
<1> QED BY <1>1, <1>2 DEF PlaceInv, HandledInArrived

\* Both invariants are kept together by every step of the loop.
THEOREM ReceiveInvHolds == ReceiveSpec => [](DecoderInv /\ PlaceInv)
<1>1. ReceiveInit => DecoderInv /\ PlaceInv
  <2>1. Init => SumInv /\ AnswerInv
    BY DEF Init, SumInv, InLength, SumExact, AnswerInv
  <2> QED BY <2>1, InitScan, PlaceInit DEF ReceiveInit, DecoderInv
<1>2. ASSUME DecoderInv, PlaceInv, [ReceiveNext]_receiveVars PROVE DecoderInv' /\ PlaceInv'
  <2>1. CASE ReceiveNext
    BY <1>2, <2>1, LoopAction, DecoderStep, DecoderRests, PlaceStep
  <2>2. CASE UNCHANGED receiveVars
    BY <1>2, <2>2, DecoderRests, PlaceRests DEF receiveVars
  <2> QED BY <1>2, <2>1, <2>2
<1> QED BY <1>1, <1>2, PTL DEF ReceiveSpec

\* Whatever is sent and however it is cut, the loop handles only bytes that have
\* arrived, and parse() looks at those at the loop's place
\* (readme.md:150-168; PayloadDecoder.hpp:423-435).
THEOREM HandlesWhatArrived == ReceiveSpec => []HandledInArrived
<1>1. PlaceInv => HandledInArrived
  BY DEF PlaceInv
<1> QED BY <1>1, ReceiveInvHolds, PTL

\* Whatever is sent, however it is cut and whatever the decoder was used for before, a
\* message that is handled as accepted is vouched for by the bytes at the loop's place:
\* CheckSum, MsgType, and BodyLength if it is a number of up to eight digits
\* (PayloadDecoder.hpp:423-470; readme.md:157-165).
THEOREM HandlesWhatIsVouchedFor == ReceiveSpec => OnlyVouchedHandled
<1>1. ASSUME DecoderInv, PlaceInv, [ReceiveNext]_receiveVars, consumed' # consumed,
             result.status = "Success"
      PROVE  VerdictSound(input, consumed' - consumed, mFields[last],
                          mFields[BodyLengthPosition], mFields[MessageTypePosition])
  <2>1. Consume
    BY <1>1, Zenon DEF ReceiveNext, receiveVars, loopVars, Deliver, ParseInput, Parsing, KeepFragment, Close
  <2>2. Returning /\ consumed' = consumed + result.processed
    BY <2>1 DEF Consume
  <2>3. buffer = input /\ Justified /\ result.processed \in Nat
    BY <1>1, <2>2, AnswerAtPlace
  <2>4. consumed' - consumed = result.processed
    BY <1>1, <2>2, <2>3 DEF PlaceInv
  <2>5. VerdictSound(buffer, result.processed, mFields[last], mFields[BodyLengthPosition],
                     mFields[MessageTypePosition])
    BY <1>1, <2>3 DEF Justified
  <2> QED BY <2>3, <2>4, <2>5
<1> QED BY <1>1, ReceiveInvHolds, PTL DEF ReceiveSpec, OnlyVouchedHandled
=============================================================================
