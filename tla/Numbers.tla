------------------------------ MODULE Numbers ------------------------------
(***************************************************************************)
(* Numbers in and out of fields: what the setters of FieldEncoder write    *)
(* (detail/encoder/FieldEncoder.hpp), what the getters of FieldDecoder     *)
(* make of that and of what a counterparty wrote                           *)
(* (detail/parser/FieldDecoder.hpp), over utils/Conversions.hpp and the    *)
(* normalisation of FixedDecimal and OptionalInt.                          *)
(*                                                                         *)
(* The widths are parameters: the digits that are loaded at once, the      *)
(* ranges of the integers, the decimal places.  A decimal is its mantissa. *)
(***************************************************************************)
EXTENDS Wire

CONSTANTS
    Chunk,              \* 8: bytes of a uint64_t, the rest of them zeros if there are fewer
    Uint32Max, Int32Max, Int64Max,
    MaxUint32Digits,    \* 10
    MaxInt32Chars,      \* 11
    MaxDecimalChars,    \* 20
    Places,             \* 8: decimal places of a mantissa
    Uints, Ints, Decimals,  \* numbers the application sets
    Texts               \* [type, text]: fields a counterparty wrote

Hyphen == 45
Dot    == 46

\* What follows a value in the buffer: the CheckSum field at least.
Behind == <<FieldEnd, Zero + 1, Zero, TagEnd, Zero + 9>>

ASSUME NumbersAssumption ==
    /\ Chunk % 2 = 0 /\ Chunk <= 8
    /\ MaxUint32Digits = Len(Decimal(Uint32Max)) /\ MaxInt32Chars = Len(Decimal(Int32Max)) + 1
    /\ MaxDecimalChars = Len(Decimal(Int64Max)) + 1
    /\ Chunk < MaxUint32Digits /\ MaxUint32Digits <= 2 * Chunk /\ Chunk <= Len(Behind)
    /\ Uints \subseteq 0 .. Uint32Max /\ Ints \subseteq -Int32Max - 1 .. Int32Max
    /\ Decimals \subseteq -Int64Max .. Int64Max

VARIABLES
    written,    \* the field, and whose it is
    meant,      \* history: what it stands for
    gotten      \* what the getter made of it

numbers == <<written, meant, gotten>>

Number(n)   == [status |-> "number", number |-> n]
Refused(status) == [status |-> status, number |-> 0]
Absent      == Refused("Success")
Unread      == Refused("not read")

NotWritten == [by |-> "nobody", type |-> "none", text |-> <<>>]
FieldText(by, type, text) == [by |-> by, type |-> type, text |-> text]
Missing(type) == [by |-> "us", type |-> type, text |-> <<>>]

-----------------------------------------------------------------------------
(***************************************************************************)
(* The setters.                                                            *)
(***************************************************************************)
int32ToAscii(n) == IF n < 0 THEN <<Hyphen>> \o Decimal(-n) ELSE Decimal(n)

\* Mutant: the zeros between the dot and the digits are left out.
DottedWithoutZeros(digits) ==
    LET whole == Len(digits) - Places
    IN  IF whole > 0 THEN SubSeq(digits, 1, whole) \o <<Dot>> \o SubSeq(digits, whole + 1, Len(digits))
        ELSE <<Zero, Dot>> \o digits

\* The digits of a mantissa with the dot Places before their end.
Dotted(digits) ==
    LET whole == Len(digits) - Places
    IN  IF whole > 0 THEN SubSeq(digits, 1, whole) \o <<Dot>> \o SubSeq(digits, whole + 1, Len(digits))
        ELSE <<Zero, Dot>> \o Zeros(-whole) \o digits

fixedDecimalToAscii(mantissa) ==
    IF mantissa = 0 THEN <<Zero>>
    ELSE IF mantissa < 0 THEN <<Hyphen>> \o Dotted(Decimal(-mantissa))
    ELSE Dotted(Decimal(mantissa))

Set(type, number, text) ==
    /\ written = NotWritten
    /\ written' = FieldText("us", type, text)
    /\ meant' = Number(number)
    /\ UNCHANGED gotten

SetUint32  == \E n \in Uints : Set("uint32", n, Decimal(n))
SetInt32   == \E n \in Ints : Set("int32", n, int32ToAscii(n))
SetDecimal == \E m \in Decimals : Set("decimal", m, fixedDecimalToAscii(m))

\* OptionalInt::hasValue(): the largest unsigned and the least signed number are null.
HasNumber(type, n) == IF type = "uint32" THEN n # Uint32Max ELSE n # -Int32Max - 1

\* A null is not written at all.
SetOptional(type, n, text) ==
    /\ written = NotWritten
    /\ written' = IF HasNumber(type, n) THEN FieldText("us", type, text) ELSE Missing(type)
    /\ meant' = IF n = (IF type = "uint32" THEN Uint32Max ELSE -Int32Max - 1) THEN Absent
                ELSE Number(n)
    /\ UNCHANGED gotten

SetOptionalUint32 == \E n \in Uints : SetOptional("uint32", n, Decimal(n))
SetOptionalInt32  == \E n \in Ints : SetOptional("int32", n, int32ToAscii(n))

-----------------------------------------------------------------------------
(***************************************************************************)
(* The digits of a field.                                                  *)
(***************************************************************************)

\* One load of Chunk bytes is looked at, however many digits there are, and not at the
\* upmost bit of a byte.
isDigits(bytes, length) ==
    \A i \in 1 .. IF length < Chunk THEN length ELSE Chunk : IsDigitByte(bytes[i] % 128)

\* The digits' number, loaded at once if there are bytes enough, or one by one.
Parsed(bytes, length, padded) ==
    IF padded /\ length > 0 THEN SwarNumber(SubSeq(bytes, 1, IF length < Chunk THEN length ELSE Chunk))
    ELSE FoldLeft(LAMBDA n, b : 10 * n + (b - Zero), 0, SubSeq(bytes, 1, length))

Rest(bytes, from) == SubSeq(bytes, from + 1, Len(bytes))

\* Mutant: the leading digits keep their own weight.
DigitsUnscaled(bytes, length, padded) ==
    IF length <= Chunk THEN Parsed(bytes, length, padded)
    ELSE Parsed(bytes, length - Chunk, FALSE) + Parsed(Rest(bytes, length - Chunk), Chunk, TRUE)

\* More digits than a word holds: the last word's, and those before it.
parseUnsignedDigits(bytes, length, padded) ==
    IF length <= Chunk THEN Parsed(bytes, length, padded)
    ELSE Parsed(bytes, length - Chunk, FALSE) * 10^Chunk
         + Parsed(Rest(bytes, length - Chunk), Chunk, TRUE)

convertToUint32(bytes, length) ==
    LET number == parseUnsignedDigits(bytes, length, Len(bytes) >= Chunk)
    IN  IF length \notin 1 .. MaxUint32Digits THEN Refused("InvalidLength")
        ELSE IF ~isDigits(bytes, length) \/ number > Uint32Max THEN Refused("InvalidValue")
        ELSE Number(number)

convertToInt32(bytes, length) ==
    LET start     == IF bytes[1] = Hyphen THEN 1 ELSE 0
        digits    == Rest(bytes, start)
        magnitude == parseUnsignedDigits(digits, length - start, FALSE)
    IN  IF length \notin 1 .. MaxInt32Chars THEN Refused("InvalidLength")
        ELSE IF length = start \/ ~isDigits(digits, length - start) THEN Refused("InvalidValue")
        ELSE IF magnitude > Int32Max + start THEN Refused("InvalidValue")
        ELSE Number(IF start = 1 THEN -magnitude ELSE magnitude)

-----------------------------------------------------------------------------
(***************************************************************************)
(* Decimals.                                                               *)
(***************************************************************************)
\* int64_t wraps.
Int64(n) == ((n + Int64Max + 1) % (2 * Int64Max + 2)) - Int64Max - 1

\* FixedDecimal(mantissa, -places): scaled to Places, or cut off towards zero.
Normalized(mantissa, places) ==
    IF places <= Places THEN Int64(mantissa * 10^(Places - places))
    ELSE IF mantissa < 0 THEN -((-mantissa) \div 10^(places - Places))
    ELSE mantissa \div 10^(places - Places)

\* Where the dot is among the digits, from zero; behind them if there is none.
DotPosition(digits, length) ==
    LET dots == {i \in 1 .. length : digits[i] = Dot}
    IN  IF dots = {} THEN length ELSE CHOOSE i \in 0 .. length - 1 : i + 1 \in dots
                                          /\ \A j \in 1 .. i : j \notin dots

\* The word without the dot: what is behind it moves down by a byte.
WithoutDot(digits, dot) == SubSeq(digits, 1, dot) \o SubSeq(digits, dot + 2, Len(digits))

\* The mantissa and its places, one of three ways.
OneLoad(digits, length, dot) ==
    LET places == IF dot < length THEN length - dot - 1 ELSE 0
        count  == IF dot < length THEN length - 1 ELSE length
    IN  <<SwarNumber(SubSeq(WithoutDot(digits, dot), 1, count)), places>>
TwoLoads(digits, length, dot) ==
    LET places == length - dot - 1
        behind == Rest(digits, dot + 1)
    IN  <<Parsed(digits, dot, Len(digits) >= Chunk) * 10^places
          + Parsed(behind, places, Len(behind) >= Chunk), places>>
\* Every dot is passed over, and the last one counts the places.
OneByOne(digits, length) ==
    LET characters == SubSeq(digits, 1, length)
        others     == SelectSeq(characters, LAMBDA b : b # Dot)
        dots       == {i \in 1 .. length : digits[i] = Dot}
    IN  <<Parsed(others, Len(others), FALSE), IF dots = {} THEN 0 ELSE length - Max(dots)>>

Mantissa(digits, length, dot) ==
    IF length <= Chunk /\ Len(digits) >= Chunk THEN OneLoad(digits, length, dot)
    ELSE IF dot < length /\ dot <= Chunk /\ length - dot - 1 <= Chunk
    THEN TwoLoads(digits, length, dot)
    ELSE OneByOne(digits, length)

convertToFixedDecimal(bytes, length) ==
    LET start  == IF bytes[1] = Hyphen THEN 1 ELSE 0
        digits == Rest(bytes, start)
        size   == length - start
        dot    == DotPosition(digits, size)
        valid  == IF dot < size
                  THEN /\ dot > 0 /\ dot < size - 1
                       /\ isDigits(digits, dot)
                       /\ isDigits(Rest(digits, dot + 1), size - dot - 1)
                  ELSE isDigits(digits, size)
        parts  == Mantissa(digits, size, dot)
        number == Int64(parts[1])
    IN  IF length \notin 1 .. MaxDecimalChars THEN Refused("InvalidLength")
        ELSE IF size = 0 \/ ~valid THEN Refused("InvalidValue")
        ELSE Number(Normalized(IF start = 1 THEN -number ELSE number, parts[2]))

-----------------------------------------------------------------------------
(***************************************************************************)
(* The getters.                                                            *)
(***************************************************************************)
Get(type, number) ==
    /\ written.type = type
    /\ gotten = Unread
    /\ gotten' = IF written = Missing(type) THEN Absent ELSE number
    /\ UNCHANGED <<written, meant>>

bytesOf == written.text \o Behind
getUint32       == Get("uint32", convertToUint32(bytesOf, Len(written.text)))
getInt32        == Get("int32", convertToInt32(bytesOf, Len(written.text)))
getFixedDecimal == Get("decimal", convertToFixedDecimal(bytesOf, Len(written.text)))

\* A field somebody else wrote, empty ones among them.
ReceiveText ==
    /\ written = NotWritten
    /\ \E t \in Texts : written' = FieldText("them", t.type, t.text)
    /\ UNCHANGED <<meant, gotten>>

NumbersInit == written = NotWritten /\ meant = Absent /\ gotten = Unread

NumbersNext ==
    \/ SetUint32 \/ SetInt32 \/ SetDecimal \/ SetOptionalUint32 \/ SetOptionalInt32
    \/ ReceiveText
    \/ getUint32 \/ getInt32 \/ getFixedDecimal

NumbersSpec == NumbersInit /\ [][NumbersNext]_numbers

-----------------------------------------------------------------------------
(***************************************************************************)
(* What a text stands for, by its characters.                              *)
(***************************************************************************)
Whole(s) == FoldLeft(LAMBDA n, b : 10 * n + (b - Zero), 0, s)
AllDigits(s) == s # <<>> /\ \A i \in DOMAIN s : IsDigitByte(s[i])

\* A sign, digits, and perhaps a dot with digits on both sides of it.
Unsigned(s) == IF s # <<>> /\ s[1] = Hyphen THEN Tail(s) ELSE s
Dots(s)     == {i \in DOMAIN s : s[i] = Dot}
IsDecimalText(s) ==
    \/ AllDigits(s)
    \/ \E i \in Dots(s) : AllDigits(SubSeq(s, 1, i - 1)) /\ AllDigits(SubSeq(s, i + 1, Len(s)))

\* The first dot parts a text.
FirstDot(s)  == CHOOSE i \in Dots(s) : \A j \in Dots(s) : i <= j
BeforeDot(s) == IF Dots(s) = {} THEN s ELSE SubSeq(s, 1, FirstDot(s) - 1)
BehindDot(s) == IF Dots(s) = {} THEN <<>> ELSE SubSeq(s, FirstDot(s) + 1, Len(s))

\* The magnitude in units of 10^-Places, what is less than that cut off.
Magnitude(s) ==
    Whole(BeforeDot(s)) * 10^Places + Whole(SubSeq(BehindDot(s) \o Zeros(Places), 1, Places))

\* All its digits are one number of 64 bits, and so is its mantissa.
Fits64(s) == Whole(BeforeDot(s) \o BehindDot(s)) <= Int64Max /\ Magnitude(s) <= Int64Max

Negated(s, n) == IF Unsigned(s) = s THEN n ELSE -n

\* A byte that is no digit where none is found: behind the first Chunk, or by its
\* upmost bit.
Unnoticed(s) ==
    \E i \in DOMAIN s : ~IsDigitByte(s[i]) /\ (i > Chunk \/ IsDigitByte(s[i] % 128))

\* A decimal that was set keeps its value, but a text of more characters than the
\* getter takes.
TooLong == written.type = "decimal" /\ Len(written.text) > MaxDecimalChars

\* What an application sets is what the other side's getter gives, null included:
\* through the one load, the head and tail of longer numbers, the places of a decimal
\* and the null that is not written (FieldEncoder.hpp:155-214, 305-371;
\* FieldDecoder.hpp:116-313).
NumbersKept ==
    written.by = "us" /\ gotten # Unread =>
        gotten = IF TooLong THEN Refused("InvalidLength") ELSE meant

\* A text of a counterparty's gives the number it stands for if that fits, and none
\* if it stands for no number, as far as the bytes that are looked at tell
\* (FieldDecoder.hpp:142-313).
TextsExact ==
    LET s == written.text
    IN  written.by = "them" /\ gotten # Unread =>
        CASE written.type = "uint32" ->
               IF AllDigits(s) /\ Len(s) <= MaxUint32Digits /\ Whole(s) <= Uint32Max
               THEN gotten = Number(Whole(s))
               ELSE gotten.status # "number" \/ Unnoticed(s)
          [] written.type = "int32" ->
               IF AllDigits(Unsigned(s)) /\ Len(s) <= MaxInt32Chars
                  /\ Negated(s, Whole(Unsigned(s))) \in -Int32Max - 1 .. Int32Max
               THEN gotten = Number(Negated(s, Whole(Unsigned(s))))
               ELSE gotten.status # "number" \/ Unnoticed(Unsigned(s))
          [] written.type = "decimal" ->
               IF IsDecimalText(Unsigned(s)) /\ Len(s) <= MaxDecimalChars
               THEN Fits64(Unsigned(s)) => gotten = Number(Negated(s, Magnitude(Unsigned(s))))
               ELSE \/ gotten.status # "number"
                    \/ Unnoticed(BeforeDot(Unsigned(s))) \/ Unnoticed(BehindDot(Unsigned(s)))
=============================================================================
