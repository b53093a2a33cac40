# simdfix in TLA+

TLA+ specifications of simdfix, a header-only C++ library that decodes and encodes FIX
tag=value messages with SIMD instructions, with TLC instances that check them and TLAPS
proofs about them. Paths below are relative to `src/main/cpp/org/limitless/simdfix/`
unless they name another directory of the repository.

## 1. The system

Everything in the library runs in the thread that calls it; no object has a lock or a
callback that re-enters it. What makes it hard is different: objects are **reused** for
every message of a session and keep parts of what earlier messages left in them; a
message is cut by **16-byte blocks** and by **socket reads** at any byte; and the
accessors of one message share **one scope stack** that application calls, in whatever
order they come, push and truncate.

| Component | State it keeps | Operations | Interacts with |
|---|---|---|---|
| `decoder/PayloadDecoder.hpp` | `m_fields`, `m_tags`, `m_count`, `m_tag`, `m_position`; over all messages | `parse(buffer)`, `parse(buffer, handler)`, `fields()` | the receive loop calls it; the handler, the resend encoder read its tokens |
| `detail/parser/FieldDecoder.hpp` | view of the tokens, `m_scopes`, `m_scopeDepth`, cached date | `wrap`, `find`, `findIndex`, scope operations, getters | shared by message, group and data decoders |
| `decoder/GroupDecoder.hpp` | count, repeat, delimiter, offset, next, depth | `wrap`, `hasNext`, `next`, `clear` | pushes and truncates the FieldDecoder's scopes |
| `decoder/MessageDecoder.hpp`, `TokenizedMessage.hpp`, generated code | last failed tag | `messageId`, `handle`, `validate`, `validateSession` | reads tokens through the FieldDecoder |
| `decoder/DataDecoder.hpp` | last result | `wrap`, `get` | FieldDecoder |
| `encoder/PayloadEncoder.hpp` | buffer, offset, header prefix | constructor, `wrap`, `wrapMessage`, `wrapHeader`, `encode` | hands the buffer to message encoders |
| `encoder/MessageEncoder.hpp`, `GroupEncoder.hpp`, `DataEncoder.hpp`, `detail/encoder/FieldEncoder.hpp` | offset, length, cached date prefix | setters, `count`, `next` | all write through one FieldEncoder |
| `encoder/ResendEncoder.hpp` | none of its own | `basicEncodeResend` | parses with a PayloadDecoder |
| `detail/simd/*`, `utils/Conversions.hpp` | checksum accumulator | blocks, search, numbers, calendar | everything above |
| `utils/FixedDecimal.hpp`, `utils/OptionalInt.hpp` | a mantissa, an integer with a null | arithmetic, order, normalisation | setters and getters of fields, applications |
| application (`readme.md:150-168`, `examples/quotes/main.cpp`) | unhandled input | the receive loop | `parse` |
| `src/generator/` | the data model of two specifications: enumerations, types, decoders in the order of the header, data fields | `parse`, `processEnums`, `processTypes`, `processFields`, `collectDataFields`, writing | writes the accessors, `validate()`, the handler, the table of data fields |

What would make each of them correct:

* **payload decoder** - a whole message gives exactly the tokens of its fields wherever
  blocks cut it; anything else is refused; the scan ends and stays in the buffer; nothing
  of an earlier message matters. The hard parts are tags and values split over blocks, the
  byte-at-a-time trailer, data fields whose payload contains SOH or `=`, and the byte sum
  that is kept while the scan jumps;
* **groups** - a group reads its own k-th entry, whatever other groups are read in
  between; the scopes in front of it are those of the entries it is in;
* **receive loop and validation** - each message of the stream is handled once, ends where
  it ends, and gets the verdict of its own fields;
* **encoders** - the buffer holds exactly the messages asked for, each with its own
  BodyLength and CheckSum, whatever was there before;
* **resend encoder** - the message its fields make with the retransmission's fields in;
* **dates and times** - exact by the calendar on every day, whatever the caches hold;
* **numbers** - what is set is what is got, at every length and with every limit; a text that stands for
  no number gives none; decimal products and quotients are right to a unit; null is never calculated with;
* **generator** - every field, group and data field declared in either file reaches the generated code,
  members before their owners, whatever the order of the nodes.

`PROJECT.json` lists the components with what is modelled of each, and the hazards, each
at its line.

## 2. The modules

| Module | Models | State and actions |
|---|---|---|
| `Wire` | bytes, fields, framing, digits; the reference tokenization | no state |
| `WireProofs` | lemmas: what the conversions return is a sequence, and how long; byte sums; digits read back | - |
| `Scans` | "the first match of a forward scan" | no state |
| `PayloadDecoder` | `BasicPayloadDecoder::parse` | the members of the object, and for the running call `pc`, `offset`, `blockSum`, `lanes`, `walk`, `skipData`, `index`; one action per load, tag, trailer step, check, dropped data field, rescan |
| `TokenizerAnswer`, `Tokenizer` | what a tokenizer promises: each question gets, in one step, an answer allowed for it | `Ask`, `Reply` |
| `PayloadChecks` | properties of the decoder; its refinements of `Tokenizer`: by the answers each message of an instance must get (`Implements`), and by those the bytes of any buffer vouch for (`Vouches`) | - |
| `PayloadDecoderProofs` | theorems about it: where the scan is; what its sums, its answers and its members are | - |
| `Accessor` | `findIndex`, `bufferAt`, `DataDecoder`, over the tokens of the message just parsed | no state of its own |
| `GroupDecoder` | scope stack, group decoders | `WrapMessage`, `Wrap(g)`, `NextEntry(g)`, `Clear(g)` |
| `GroupDecoderProofs` | theorems about it | - |
| `Encoder`, `EncoderProofs` | packing messages into a buffer; theorems | `Wrap`, `WrapMessage`, `WrapHeader`, setters, `Encode`, `Flush` |
| `Resend` | `basicEncodeResend`, **composed with** `PayloadDecoder` | `TooSmall`, `ParseOriginal`, `Parsing`, `Refuse`, `Rewrite` |
| `Receive`, `ReceiveProofs` | receive loop, handler and `validate()`, **composed with** `PayloadDecoder`; theorems | `Deliver`, `ParseInput`, `Parsing`, `KeepFragment`, `Close`, `Consume` |
| `Timestamps`, `TimestampsProofs` | dates and times with both caches; theorems | one encode and one read action per type, `Receive`, `Midnight` |
| `Numbers` | texts of integers, decimals and nullable integers | `SetUint32`, `SetInt32`, `SetDecimal`, `SetOptional...`, `ReceiveText`, `getUint32`, `getInt32`, `getFixedDecimal` |
| `Arithmetic`, `ArithmeticProofs` | `FixedDecimal`, `OptionalInt`; theorems | one action per operator |
| `Schema`, `SchemaProofs` | the generator's data model, node by node; theorems | `AddEnum`, `MergeEnum`, `AddMergedEnum`, `AddType`, `MergeType`, `AddRecord`, `RefuseNesting`, `Generate` |
| `MCPayload`, `MCGroup`, `MCEncoder`, `MCResend`, `MCReceive`, `MCTimestamps`, `MCNumbers`, `MCArithmetic`, `MCSchema` | values for the constants | - |
| `MCParts` | the last four side by side, in one run: they share no state, and one moves while the others rest | `part` |

How the models correspond to the code:

* *Payload decoder.* A step of the model is one turn of a loop of the code: a 16-byte block
  is loaded and its tag lanes computed (`LoadBlock`, `LoadBlockAfterSplitTag`), the tags are
  taken from it one at a time (`TokenizeTag`), the block ends (`EndBlock`), the trailer's
  eight bytes are loaded and walked. The SIMD registers are sets of lanes; the doubling
  shifts that find a tag's digits are computed as the code computes them, and
  `TagLanesExact` says what they must yield. Slots of `m_fields` are never cleared between
  calls, as in the code: `Capacity` is `MaxFields` and the few slots that show an overrun.
* *Groups.* Tokens are tags and the numbers of count fields. Behind the tokens of a message
  the arrays go on with what an earlier one left. `owner` and `live` are history, read by no
  action's guard: for which group a scope was pushed, and which groups were wrapped where they
  belong, in the message itself or in the entry their parent is at, and are still in that entry. Neither `wrap()`
  nor `next()` asks for that: an application may advance one group, wrap a group nested in its
  sibling, and go on with decoders whose entry, or message, is gone. All of it is in the model; what
  is promised, is promised of `live`, and is that no call on the others disturbs it. The one thing taken from the application is the documented loop: it calls
  `next()` while `hasNext()`. `WrapMessage` leaves the decoders as they were, which the code does too.
* *Encoder.* The buffer is bytes, so that the 64-byte copy of the header's prefix, longer than the
  header itself, really overwrites what is behind it. Checksum lanes wrap at `LaneModulus`.
* *Receive.* `parse(buffer, handler)` runs step by step; the verdict of the handler is
  computed where it returns. `sent` is what a counterparty sends with the verdict that each
  message must get, written down independently of the code.
* *Conversions.* `SwarNumber` is the load of eight bytes at once, with the borrows and carries between its lanes that bytes other
  than digits cause; `asciiToUint64` and `LoopNumber` are the loop over digits. A BodyLength or a payload's length takes whichever of the
  three the code does (`NumberAt`), in integers of `Uint64` values, and the end of a skip wraps at `Uint32`. TLC's integers are
  shorter than the code's: both are 2^28 in the runs, whose lengths are far below, and any number in the proofs.
* *Accessor.* `DataExact` asks, in the state where `parse` answers `Success`, what `DataDecoder` gives for
  every data field of the message: the payload's start is that of one token and its length the number in another.
* *Numbers.* A field is a text with the bytes that follow it in the buffer, because a getter loads eight
  bytes whatever the field's length. The sums of a load, its digit test and the moving of the bytes behind the
  dot are computed lane by lane; a multiplication that stands for a division by ten is taken to divide.
* *Arithmetic.* The width of the integers is `Root * Root`, the reciprocals are the powers of `Root` divided by
  `Scale` and rounded up, as in the code, and everything that is cast to a width wraps there. The proofs are for any
  width; TLC checks a small one.
* *Schema.* `todo` is the rest of the nodes in the order in which the code meets them, the session's file first, in each file enumerations
  and types as they stand in it, in one loop;
  `types` is what `m_types` holds, and `listed` what `m_records` holds, in order, because a generated class must stand behind those
  it uses; names are compared, never taken apart. What is assumed of the two files
  is what a usable pair has: nodes nested as in XML (`SpecificationAssumption`), no group of a component's name and no component with a
  data field of its own that others use (`MembersAssumption`; of either, the generated headers do not compile), and a session's
  file whose enumerations differ in their names and whose enumerators in their codes (`CodesAssumption`). TLC evaluates them in `Parts`
  and `EnumMerge`. Nothing is assumed of the application's enumerations, nor of the order of the nodes.
* *Timestamps.* The calendar is a definition of its own and does not share anything with the code's day
  arithmetic: `DayAfter` says which date follows which, `DayNumber` counts the days to a date by years, leap days and
  the lengths of months.

## 3. What is checked

Every run finishes in about three minutes or less on two cores.

| Run | Instance | What it shows |
|---|---|---|
| `Parse` | one parse by a fresh decoder, made by an application or by the resend encoder: 18 families of messages, each at 16 alignments; messages of the library's encoder with 8 endings; every truncation of seven messages; every byte of two replaced by SOH, `=` or a digit | `Implements` (the refinement, with termination), `Vouches` (the refinement by what a buffer's own bytes vouch for), `SumExact`, `TagLanesExact`, `ClosedTokensExact`, `ReadsInBuffer`, `AnswerSound`, `TagsParallel`, `DataExact`, `ResendExact` and types |
| `Reuse` | two parses by one object, all pairs of whole messages, messages with 20 bytes of the next, fragments, odd data fields | `WholeMessageAccepted`, `TokensInPlace` |
| `Groups` | three groups nested, scopes for two, a sibling; a correct message and one whose count is too large; every call in every order, on decoders left over too | `EntryExact`, `ScopesOwned`, `ScopesNested`, `LiveEnclosed`, `EnclosingEntriesKept` and types |
| `Encode` | three wraps, up to three body fields each, flushes between | `PackedExact`, `CompleteMessagesKept`, and that bodies stay in the buffer |
| `Receive` | three streams of four or five messages (good, damaged, unknown, missing or long fields, wrong session), cut anywhere into two reads | `WholeHandled`, `HandledInArrived`, `OnlyVouchedHandled`, `Drained` |
| `Parts` | *times*: ten days from each of 18 starts, moments today and yesterday, 14 fields of others. *numbers*: integers and decimals of every length, texts of up to eight bytes that matter. *calculations*: pairs of mantissas around every limit, all optional integers of four bits. *schema*: a session's file with each of 512 application files | `StampExact`, `ReadExact`, `CachesUnseen`; `NumbersKept`, `TextsExact`; `ShortProductsRight`, `QuotientsExact`, `NullFirst`, `QuotientsOfValues`; `FieldsAsDeclared`, `MembersFirst`, `DataFieldsKnown`, `SessionCodesKept` |

**Bounds, and why they are enough.** Everything that the tokenizer does differently depends
on where a field lies relative to a 16-byte boundary: sixteen lengths of the first long
field give every tail every alignment, and the tails hold tags of one to four digits, empty
values, values with `=`, and payloads that hold SOH, a tag, a CheckSum, digits, or more than
a block. What one parse leaves for another is the content of slots and an open tag; two
parses reach all of it, because a parse overwrites or keeps, and never adds to, what it found.
For groups, one level of nesting more than there are scopes and one sibling are the smallest
schema in which each operation of the stack happens at each depth. The run identifies states that differ only in
what neither an action nor a property reads before it is written again: slots of scopes given up, members of decoders that have
no entry left (`VIEW Seen`). In the encoder,
`LaneModulus` is 512 rather than 65536 so that lanes wrap within a message; three wraps are a
message behind another and one given up. Two reads put one fragment, cut anywhere, in front
of a whole message, on an object that handled others before; more reads would repeat that. The walks of ten days start at the
first day of the epoch, before each turn of a month in the leap year 2024, three times in a row in June, so that a month is walked through, and before the turns of
1999 and 2099 and the ends of February 2000, which has a leap day, and 2100, which has none. Two moments of a day,
its first and one with a different digit in every place, are enough, since the time of day is not cached. `Midnight` asks that a session writes and reads a timestamp on every day:
heartbeats do.

In `Numbers` a load is four bytes instead of eight, an unsigned integer one digit longer than a load, a decimal's
mantissa two, with two places instead of eight; so each getter still takes each of its ways, and the limits of
the integers stay as far from the powers of ten as in the code. In `Arithmetic` a mantissa has ten bits and a scale of ten: the limit of the
short product is the largest number whose square fits, as in the code, the reciprocal is rounded up, and products beyond
the limit overflow twice the width, which is the case in the code as well. `MaxGroupDepth` is 2 in `Schema`, with a group three deep.
The specifications have a group in the header, a component in a component, in a group and referenced before it is declared, data in
messages and groups, and names and codes that both files use.

**Kept out of the instances.** Length fields hold up to eight digits; text values hold no digit directly before `=`. A field behind a
data field is longer than the trailer. Section 6 says what the code does with some of these.

What concerns the dates is an assumption of `Timestamps`, so that the proofs use the same: a session's clock is right and its
days lie in 1970 to 9999 (`SessionAssumption`); what a counterparty sends (`Sendable`, `ForeignAssumption`) has digits and
separators where they belong, cut anywhere, with any month, day, hour, minute and second two digits can spell, but no
day behind the end of a month that has fewer than 31, and no year 0.

**Fairness.** `PayloadDecoder` assumes weak fairness of its own step: `parse` is an ordinary
call that runs until it returns, so `Implements` includes that it returns. `Receive` assumes weak
fairness of its next-state relation: the loop runs, and bytes that were sent arrive some day.
Safety-only runs assume none. No fairness is assumed about what an application chooses to do.

**Deadlock** is checked in the group runs. The others stop where their bound says (parses,
wraps, deliveries, days).

Each property has a mutant in `PROJECT.json`: a change of one definition, as a slip in the
code would make it, that TLC finds by that property.

## 4. Where the code departs from its documentation

Six runs expect a violation, each of one property that states a comment of the repository.

* `ShortTail`: a message whose last two fields are short, such that a tag is split over the end
  of the last full block, is answered `MessageFragment`: `processTrailer` does not move its
  cursors on after it joined the tag (`decoder/PayloadDecoder.hpp:737`).
* `StreamCut`: a message followed by some bytes of the next, or a message cut, can be answered
  with a fatal status rather than `MessageFragment`, because the last open token decides (438).
  The documented loop closes the session.
* `Desync`: on a used decoder, the trailer counts a slot that it does not clear (755). If a
  CheckSum token of the message before is in it, a fragment is answered `InvalidBodyLength`
  with its bytes consumed, and the loop goes on in the middle of a message. The same slot can hold a required
  field of the message before, and `validate()` accepts a message without it.
* `GroupSiblings`: getters search the scope at their group's depth, whoever pushed it, so of
  two interleaved sibling groups one reads the other's entry (`detail/parser/FieldDecoder.hpp:408`). For the same reason
  `legs.next(); hops.next(); legs.nested()` looks for the nested group in the hop, not in the leg, although `readme.md:171` says that
  it "is read from the current entry of its enclosing group"; it is then not in `live`.
* `DecimalProduct`: beyond the short product's limit, a product of decimals is multiplied by a reciprocal of
  70 bits and overflows 128 bits: in the library, 40 * 1 is -2.94967296. A negative product is
  two units off, because the sign added is that of an arithmetic shift (`utils/FixedDecimal.hpp:116`).
* `EnumMerge`: enumerators are merged by their names, not by their values as the readme says, so that an
  enumeration can have two enumerators of one code, for one-character codes two equal `case` labels
  (`src/generator/org/limitless/generator/simdfix/DataModel.hpp:307`).

`StreamCut`, `Desync` and `DecimalProduct` were confirmed by running the library on
the messages and numbers of the counterexamples. `WholeHandled` and `TokensInPlace` are what holds in spite of them: they say
exactly how much of the promise is left (with one stale slot at most, and with a message
that is not consumed only if less than a block of the next is behind it).

## 5. What is proved

**`GroupDecoderProofs`**, for every schema of groups, every set of messages, every
`MaxGroupDepth`, and any interleaving of calls, those on siblings and on decoders whose entry is gone included:

| Theorem | Statement |
|---|---|
| `Invariance` | `Spec => []GroupInv` |
| `TypeCorrect`, `OpenScopesOwned`, `LiveGroupsEnclosed`, `OpenScopesNested` | `TypeOK`, `ScopesOwned`, `LiveEnclosed`, `ScopesNested` are invariants |
| `EntriesExact` | `EntryExact`: after k calls of `next()` a group wrapped where it belongs reads its k-th entry |
| `EnclosingKept` | `Spec => EnclosingEntriesKept`, an action property |

The assumption is `GroupAssumption`: groups form a schema (`Parent`), count tags are not 0, and a
message has at least one token and does not end with a count field, because it ends with its CheckSum. TLC
evaluates it in the `Groups` run.

`GroupInv` is the conjunction `TypeOK /\ ScopesOwned /\ LiveEnclosed /\ ScopesNested`. None of the last three
is inductive alone. That `next()` pushes a scope behind the start of the enclosing one
(`ScopesNested`) follows from where the group said that its next entry starts (`LiveEnclosed`);
that a live group still sits in its enclosing entry after another group moved on, a live one or one that has no entry any more,
(`LiveEnclosed`) follows from whose entries the open scopes are (`ScopesOwned`); and that `wrap`
truncates no scope in front of the group's depth needs the types. The proof has a lemma
for what each call does in these terms (`WrapResult`, `NextEntryResult`, `ClearResult`), one for
each conjunct with a step per action, and `LeastOfNat` of `WireProofs` for the scans.

`EntryExact` is about groups whose scope is open. Since a call of an enclosing group, or of a sibling, truncates a scope that
its group may still replace by its next one, the invariant `EntryInv` is about every `live` group: the
entry it is in has as many starts up to it as `next()` was called, and the next one is the first behind it (`EntryFound`,
`NextFound`; `EntriesKnown`). The k-th match of a scan is the one with k matches up to it, so that no recursion is
needed: one call of `find` adds one element to a finite set (`NextStart`).

**`PayloadDecoderProofs`**, for every buffer of any length and with any bytes, every size of the arrays and any number of
parses by one object:

| Theorem | Statement |
|---|---|
| `ScanInvHolds` | `Spec => []ScanInv`, the inductive invariant |
| `LoadsStayInBuffer` | `ReadsInBuffer`: every block, the trailer's word and the digits of its tags are in the buffer |
| `DoublingExact` | `TagLanesExact`: two doubling steps find the digits of every tag end of every block |

`ReadsInBuffer` is not inductive: how far a skip over a payload moves the scan is computed from the position, the length
and the digits of the token just closed, and a token is closed with what an earlier step, or an earlier parse, left in its
slot. `ScanInv` adds that the last slot exists, what positions and lengths the slots hold, and where the cursors of the trailer's
word are. Nothing is assumed about tags: a stale token cannot lead a load out of the
buffer. The assumption is `DecoderAssumption`, evaluated in `Parse` and others. `DoublingExact` needs no invariant of its own beyond the lanes' ranges: it
shows that lanes shifted by one and then by two cover exactly the distances up to four.

It holds as well, from the same assumption and for the same buffers:

| Theorem | Statement |
|---|---|
| `SumAlwaysExact` | `SumExact`: the running sum is that of the bytes in front of the offset |
| `AnswersAreSound` | `AnswerSound`: no answer claims more than it was given; a success means that the CheckSum is the sum of the bytes before it and, when the message is consumed, that MsgType follows BodyLength, which is its length if it is a number of up to eight digits |
| `TypesHold` | `TypeOK`, with the array of tokens never empty during a scan |
| `VouchesForAnswers` | `Vouches`: the decoder implements `Tokenizer` with the answers that the bytes of a buffer vouch for |

`SumExact` needs `InLength`, that the scan stays in the part of the buffer which its length modulo 65536 covers
(`ScanInv` has it in the buffer only). A skip over a payload re-bases the sum by the difference of two sums (`SumOfSlice` of
`WireProofs`), forwards or back. `AnswerSound` is established where the checks pass; what takes the work is that the correction for
data fields then drops tokens from the array whose last one is the CheckSum's: it is never one of those dropped, since a tag
made from a payload ends before the payload does (`AnswerInv`). Nothing is assumed of the bytes, so the theorem holds of
messages of any origin; it says nothing of *which* tokens there are. Of a BodyLength that holds other bytes than digits, or more than
eight of them, it says nothing either, because the code does not look: `/:5` is read as 25604, and more than twenty digits wrap. For up to eight digits
it has to be shown that the number of a load at once is that of the digits (`NumberOfDigits`, from `SwarOfDigits` of `WireProofs`):
no lane borrows, and none carries into the next.

`VouchesForAnswers` puts this into an abstract specification: `Tokenizer`, whose every question gets, in one step, one of the
answers allowed for it, with `VouchedFor(buffer)` for the answers. Every step of a parse is shown to be a question, an answer or a stutter, so
that no state in the middle of a scan is ever taken for an answer, and none is answered twice. `Asked`, that a
running call was asked, joins the states of the two; that the answer given is vouched for comes from `AnswerInv` and `TypeInv`.

**`ReceiveProofs`**, for every stream of bytes (`StreamAssumption`), cut into any number of reads, and any table of decoders:

| Theorem | Statement |
|---|---|
| `ReceiveInvHolds` | `ReceiveSpec => [](DecoderInv /\ PlaceInv)` |
| `HandlesWhatArrived` | `HandledInArrived`: no byte is handled before it has arrived, and the bytes `parse()` looks at are those at the loop's place |
| `HandlesWhatIsVouchedFor` | `OnlyVouchedHandled`, an action property: bytes handled as an accepted message have, at the loop's place in the stream, the CheckSum, MsgType and (up to eight digits) BodyLength of one |

The loop calls the decoder with its unhandled bytes, which is one more buffer: the decoder's invariants (`DecoderInv`) are kept by the steps of `parse()`
for every buffer, and by the loop's since it does not touch the decoder. `PlaceInv` adds that while a call is running, `buffer` is the input and nothing arrives; a step of
the loop then consumes at most what the answer claims, which `AnswerSound` bounds by the buffer's length.

**`EncoderProofs`**: `EncoderInvHolds` and from it `MessagesNeverTouched` (`Spec => CompleteMessagesKept`): for every size of
the buffer, every identity that fits a header and all fields, a complete message stays byte by byte what it is until it is
sent. The invariant says that what is being written, the header's copy of 64 bytes, the body and at last the trailer, lies
behind the last complete message; the property alone is not inductive, since a body written where an earlier one was would
not show until the next write.

`AlwaysPacked` (`PackedExact`) says what those bytes are: each message its header with the BodyLength and MsgType of its own, its fields in
the order they were set, and a CheckSum that is the sum of all before it. `AlwaysTyped` (`TypeOK`) adds that bodies stay in the buffer. Both rest on
`PackedInv` (`PackedInvHolds`), which says what stands behind the complete messages at every moment, and on `CheckSumIsSum`:
the sum in eight lanes that wrap, read back as signed numbers, is the sum modulo 256. They assume, beyond `EncoderAssumption`,
that an application leaves room for what it sets (`RoomAssumption`): no setter of the code compares its position with the end of the
buffer, so without it the encoder writes behind it.

**`TimestampsProofs`**, for sessions of any length from any day of 1970 on, any moments and any fields that are `Sendable`:

| Theorem | Statement |
|---|---|
| `CodeDays` | `daysSince1970` of a date is `DayNumber` of it, for every date of the calendar |
| `CodeDate` | `writeDateOnly` of `DayNumber` of a date writes that date |
| `CacheInvHolds`, `CachesNeverSeen` | each cache is a function of its key; `CachesUnseen`, an action property |
| `StampsAreExact` | `StampExact`: what is written is the date and time of the calendar |
| `ReadsAreExact` | `ReadExact`: what is read is the time that was meant, or refused if it is none |

The calendar is proved in two halves that meet in years starting in March (`MarchDay`, `InEra`): the code counts 400-year eras, years with
the leap day last, and five months of 153 days; `DayNumber` counts leap days and months from January. That `yearOfEra` finds the year of
each of the 146097 days of an era is the hard part of `CodeDate`. `StampInv` adds to the caches that today's date is the one of today's
number (`DateInv`), which `DayAfter` keeps at midnight. `ReadInv` adds what a field that was not read yet will be read as (`FieldInv`), from the digits of
each of its parts: a slice of a written date or time spells a number (`TextSlice`, `SpelledNumber` of `WireProofs`), whichever characters
the decoder ignores between them.

**`ArithmeticProofs`**, for every width, scale and limit allowed by `ArithmeticAssumption` (even `Root`, a scale that does not divide the
range, a limit whose square fits): `ShortProductsAreRight`, `QuotientsAreExact`, `NullIsFirst`, `ValuesAreDivided`, all
from `CalculationInvHolds`. A quotient's numerator is scaled in 64 bits, and would wrap, up to `MaxSafeDiv` only; that this is where it
stops fitting is what `QuotientsAreExact` shows. That null is a value no quotient or remainder of values takes (`ValuesAreDivided`)
rests on which number it is: of the signed ones, the only one whose quotient by -1 does not fit. The heart of it are two lemmas about the upper half of a product with a rounded-up
reciprocal (`UpperHalf`, `UpperHalfOfNegative`), which bound the error by one unit because the square of
the limit is less than the range.

**`SchemaProofs`**, for every pair of specifications that satisfies the assumptions of `Schema` (section 2), of any size:

| Theorem | Statement |
|---|---|
| `SchemaInvHolds` | `SchemaSpec => []RunInv` |
| `MembersAlwaysFirst` | `MembersFirst`: a decoder stands behind those of its members |
| `DataFieldsAlwaysKnown` | `DataFieldsKnown`: the table has the data fields that the files declare, and no others |
| `CodesKept` | `SessionCodesKept`: a code of the session's is read as the session's enumerator, whatever is merged into it |

The order of the work comes first: `RecordOrderIs` shows that in the recursive order of the nodes a record stands behind the groups in it (`GroupsBefore`) and
that every record is in it. The order is a recursive function over the records of a file from which only those behind go in, so it exists by
the last record for which it would not (`OrdersExist`). `PlanInv` says how much of that order is done; `RecordsInv`, from which node each record of the
data model was made and which of them have a decoder; `MembersInv`, that the members of every record, components' included, are known: a
component that is used hands on members that were known when it was made, and one that comes too late is left out. `MembersFirst` alone is not inductive, for
components are not in the list whose order it speaks of. For `DataFieldsKnown`, a record's data fields are those of the very node it
was made from (`MadeFrom`). `CodesInv` says that whatever has the name of an enumeration of the session's starts with the session's entries;
an application cannot add an enumeration of such a name, since its nodes come behind all of the session's.

**Only model-checked**:

* Which tokens there are: `WholeMessageAccepted`, `TokensInPlace`, `ClosedTokensExact`, `DataExact`, and with them
  `ResendExact` and `WholeHandled`. They compare a scan with tokens made from a message's fields, and hold of messages as the instances have them
  (section 3): of each block, each tag that is cut and each payload that is skipped it would have to be said where in the fields of the message it
  lies, with those exceptions as hypotheses. `TagsParallel` is one of them: behind a value that is split over the last block the trailer counts a slot it
  does not clear (`Desync`), and what an earlier parse left there need not be parallel. `AnswerSound`, `Vouches` and `OnlyVouchedHandled` are the part of the promise
  that holds of every buffer and stream.
* The numbers' texts, `NumbersKept` and `TextsExact`: what a text stands for is a fold over its digits, a load's number a sum with carries from lane
  to lane, and `Decimal` spells numbers of a bounded length; a proof for the code's widths is an induction over the digits for each of
  the getters' ways. `SpelledNumber` is the case of one load.
* `FieldsAsDeclared`: it says what the files mean without the order in which they are read, and what they mean must be plain: no two
  components of one name, and no field whose type is the name of a group or message and of no component (the code would expand that as well). The instances are such.
* `Implements` and `Drained`, since they include liveness, which is beyond TLAPS, as is `ENABLED`.

The induction theorems of the library take an operator as a parameter, which none of the provers can instantiate. Where a proof goes over the
length of a sequence or an array, as for the sums and the encoder's fields, it takes the least index at which the statement would fail
(`LeastOfNat`), and the functions are written as functions over those indices (`PartialSums`); no module declares a `RECURSIVE` operator.

## 6. What is not modelled

* The getters and setters of enumerations, and the checks of their values in `validate()`: tables that the generator writes out
  case by case. 64-bit integers, which have a setter only.
* The bitwise operators of `OptionalInt`, `toDouble` and stream output of `FixedDecimal`, `Expected`: no state, and
  each a line that forwards to the language's own.
* The generator's text output, the lengths it computes and its encoders' classes; NEON (the same operations as the SSE code, on
  another target), the byte swap, tests, benchmarks, build scripts.
* `GroupEncoder::m_count`, which nothing reads.

Seen in the code and not the subject of a run, because the instances keep clear of it: `m_position` is not
reset by `parse`, so that after a fragment cut in a tag the next BeginString token is up to three bytes short
(`WholeHandled` admits the refusal that follows); a digit before `=` in a value makes a token
(`PayloadDecoder.hpp:231`); with FIX.4.4 and a two-digit BodyLength the tag of MsgType is lost (502); bytes other than
`10=` can pass the CheckSum tag's mask (681); a short field directly behind a skipped data field can take its slot (769);
`m_fields` is written at `m_count` without any look at `MaxFields` (537), a message of more fields going past its end, while the model stops at `Capacity`; a payload's length of ten digits wraps
the end of its skip (615, 635), so that the scan goes on in front of the length field, finds it again and does not end, which the instances' lengths keep clear of
(`Implements` shows that scans end for those);
BodyLength and the lengths of payloads are converted without a look at their bytes (437, 615); buffers of 65536 bytes and more are scanned modulo
65536 (199); required fields behind the first 128 tokens count as missing (`FixGenerator.cpp:1041`); the encoder writes
one character of MsgType and four digits of BodyLength (`PayloadEncoder.hpp:150-151`); February 30 is read as a
day of March, January and February of the year 0000 as days four thousand million years ahead (286), and days before 1970 are encoded wrongly (`Conversions.hpp:306`, `FieldEncoder.hpp:69`); the bytes
0xB0 to 0xB9 pass for digits (`Conversions.hpp:228`); `next()` hands out entries behind the enclosing scope
when a count is too large (`GroupDecoder.hpp:169`); a number's text is
looked at for digits in its first eight bytes only, and a negative decimal of nineteen digits is written with one character
more than its getter takes (`FieldDecoder.hpp:217`); a decimal of more digits than 64 bits hold wraps
(261); a component or type that is used before it is declared, a second record of one name, and a type
with neither primitive nor known base are left out, or read behind the end of a map, with a line of output at most
(`DataModel.hpp:200`); only groups that are nested in the file count towards `MaxGroupDepth`, not those that a component brings
along (232); a data field in a component gives a header that does not compile.

## 7. Plan

Order of work, the most important behaviour first; the first eleven are done.

1. Payload decoder, its abstract `Tokenizer`, refinement.
2. Groups, with their inductive invariant and proofs.
3. Encoder and resend encoder, the latter composed with the decoder.
4. Receive loop with handler and validation, composed with the decoder.
5. Dates and times with their caches.
6. `DataDecoder` over messages with several data fields.
7. Numbers on the wire, and the arithmetic behind them, with proofs.
8. The generator's data model.
9. Proofs: loads of the payload decoder, its doubling steps; the encoder's complete messages; the caches.
10. Proofs: the byte sums and answers of the payload decoder, and its types; the entries of groups; the bytes of the encoder;
    the calendar, and what is written and read of it.
11. Proofs: what the decoder answers implements `Tokenizer` (`Vouches`); the receive loop's place in the stream, and what it accepts; the
    generator's order of decoders, data fields and codes.
12. Proofs: that the numbers set are the numbers got (`NumbersKept`), for texts of any length.
13. An abstract receiver (messages handled in order, each once) that `Receive` implements on streams whose reads end with a message.

## 8. Running

    tlc -workers 2 -config Parse.cfg MCResend
    tlapm GroupDecoderProofs.tla

The runs, their modules and configurations are listed in `PROJECT.json`.
