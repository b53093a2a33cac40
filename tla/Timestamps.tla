----------------------------- MODULE Timestamps -----------------------------
(***************************************************************************)
(* UTC timestamps, dates and times of day in and out of a session that     *)
(* runs day after day: FieldEncoder::encodeTimestamp()                     *)
(* (detail/encoder/FieldEncoder.hpp) with its cached date prefix,          *)
(* FieldDecoder::cachedTimestamp() (detail/parser/FieldDecoder.hpp) with   *)
(* its cached day number, UTCDateOnly and UTCTimeOnly without them, and    *)
(* the calendar arithmetic of utils/Conversions.hpp under all.  The caches *)
(* live as long as their object, over any number of messages.              *)
(*                                                                         *)
(* A time is [days, ms], the days since 1970-01-01 and the milliseconds of *)
(* the day; the code's 64-bit milliseconds are days * MillisPerDay + ms.   *)
(* Encoded times are not before 1970.  A time of day is one of day 0, a    *)
(* date its midnight.                                                      *)
(***************************************************************************)
EXTENDS Wire

CONSTANTS
    Starts,     \* [days, date]: days the session may start on
    Walk,       \* bound: days the session runs
    Moments,    \* milliseconds of the day at which times are encoded
    Foreign     \* [type, date, clock, length]: what others write, and how much of it

NoTime == [days |-> -1, ms |-> 0]       \* -1
NoDate == <<>>                          \* the sentinel no date bytes equal

UTCTimestamp(bytes) == [type |-> "UTCTimestamp", value |-> bytes]
UTCDateOnly(bytes)  == [type |-> "UTCDateOnly", value |-> bytes]
UTCTimeOnly(bytes)  == [type |-> "UTCTimeOnly", value |-> bytes]
NoField             == [type |-> "none", value |-> <<>>]

VARIABLES
    start,      \* where the session started
    day,        \* today, and its date and yesterday's by the calendar
    date, yesterday,
    encoderDays, datePrefix,    \* m_cachedDayStartMillis, m_datePrefix
    dateWord, dateDays,         \* m_dateWord, m_dateDays
    field,      \* the last field encoded or received, until it is read
    ours,       \* history: the session encoded it
    time,       \* history: the time it stands for
    read        \* what the decoder made of it

encoderVars == <<encoderDays, datePrefix>>
decoderVars == <<dateWord, dateDays>>
vars == <<start, day, date, yesterday, encoderVars, decoderVars, field, ours, time, read>>

-----------------------------------------------------------------------------
(***************************************************************************)
(* The calendar, by which dates follow each other.                         *)
(***************************************************************************)
Date(y, m, d) == [year |-> y, month |-> m, day |-> d]

IsLeap(y) == y % 4 = 0 /\ (y % 100 # 0 \/ y % 400 = 0)
MonthLength(y, m) ==
    CASE m = 2 -> IF IsLeap(y) THEN 29 ELSE 28
      [] m \in {4, 6, 9, 11} -> 30
      [] OTHER -> 31

\* Every date there is, and the days from 1970-01-01 to it: those of the years before,
\* the leap days among them, and those of its year.
CalendarDate ==
    { d \in [year : Nat \ {0}, month : 1 .. 12, day : 1 .. 31] :
        d.day <= MonthLength(d.year, d.month) }
LeapsUpTo(y) == y \div 4 - y \div 100 + y \div 400
BeforeMonth == <<0, 31, 59, 90, 120, 151, 181, 212, 243, 273, 304, 334>>
DayOfYear(d) ==
    BeforeMonth[d.month] + d.day + IF d.month > 2 /\ IsLeap(d.year) THEN 1 ELSE 0
DayNumber(d) ==
    365 * (d.year - 1970) + LeapsUpTo(d.year - 1) - LeapsUpTo(1969) + DayOfYear(d) - 1

DayAfter(d) ==
    IF d.day < MonthLength(d.year, d.month) THEN [d EXCEPT !.day = @ + 1]
    ELSE IF d.month < 12 THEN Date(d.year, d.month + 1, 1)
    ELSE Date(d.year + 1, 1, 1)

\* YYYYMMDD, HH:MM:SS.sss, and the field of type `type` that says date d and time ms.
WrittenDate(d)  == Padded(d.year, 4) \o Padded(d.month, 2) \o Padded(d.day, 2)
WrittenTime(c)  ==
    Padded(c.hours, 2) \o <<58>> \o Padded(c.minutes, 2) \o <<58>>
    \o Padded(c.seconds, 2) \o <<46>> \o Padded(c.millis, 3)
Written(type, d, c) ==
    CASE type = "UTCTimestamp" -> WrittenDate(d) \o <<45>> \o WrittenTime(c)
      [] type = "UTCDateOnly"  -> WrittenDate(d)
      [] type = "UTCTimeOnly"  -> WrittenTime(c)

\* A time of day and the millisecond it is.
MillisPerDay == 86400000
Clock(ms) ==
    [hours |-> ms \div 3600000, minutes |-> (ms \div 60000) % 60,
     seconds |-> (ms \div 1000) % 60, millis |-> ms % 1000]
MillisOf(c) == ((c.hours * 60 + c.minutes) * 60 + c.seconds) * 1000 + c.millis

\* The clock is right on the day the session starts.  Times are those of years of four
\* digits, from 1970 on.
ASSUME SessionAssumption ==
    /\ \A s \in Starts :
         /\ s.date \in CalendarDate /\ s.days = DayNumber(s.date)
         /\ 0 <= s.days /\ s.days + Walk <= DayNumber(Date(9999, 12, 31))
    /\ Walk \in Nat
    /\ Moments \subseteq 0 .. MillisPerDay - 1

\* What others write is digits where they belong, of dates and times of day that need not
\* exist, cut anywhere: but no day behind the last of a month that has fewer than 31, as
\* the code does not look at the length of the month.
Sendable(f) ==
    /\ f.type \in {"UTCTimestamp", "UTCDateOnly", "UTCTimeOnly"}
    /\ f.date \in [year : Nat \ {0}, month : 0 .. 99, day : 0 .. 99] /\ f.date.year < 10000
    /\ f.date.month \in 1 .. 12 /\ f.date.day \in 1 .. 31 => f.date \in CalendarDate
    /\ f.clock \in [hours : 0 .. 99, minutes : 0 .. 99, seconds : 0 .. 99, millis : 0 .. 999]
    /\ f.length \in 0 .. Len(Written(f.type, f.date, f.clock))
ASSUME ForeignAssumption == \A f \in Foreign : Sendable(f)

ForeignField(f) ==
    [type |-> f.type, value |-> SubSeq(Written(f.type, f.date, f.clock), 1, f.length)]

\* The time it stands for, NoTime unless it is one: milliseconds may be left out.
ForeignTime(f) ==
    LET lengths == CASE f.type = "UTCTimestamp" -> [short |-> 17, long |-> 21]
                     [] f.type = "UTCDateOnly"  -> [short |-> 8, long |-> 8]
                     [] f.type = "UTCTimeOnly"  -> [short |-> 8, long |-> 12]
        dated   == f.date \in CalendarDate /\ f.date.year >= 1970
        timed   == f.clock.hours <= 23 /\ f.clock.minutes <= 59 /\ f.clock.seconds <= 59
        clock   == IF f.length = lengths.long THEN f.clock ELSE [f.clock EXCEPT !.millis = 0]
    IN  IF \/ f.length \notin {lengths.short, lengths.long}
           \/ f.type # "UTCTimeOnly" /\ ~dated
           \/ f.type # "UTCDateOnly" /\ ~timed
        THEN NoTime
        ELSE [days |-> IF f.type = "UTCTimeOnly" THEN 0 ELSE DayNumber(f.date),
              ms   |-> IF f.type = "UTCDateOnly" THEN 0 ELSE MillisOf(clock)]

-----------------------------------------------------------------------------
(***************************************************************************)
(* utils/Conversions.hpp.                                                  *)
(***************************************************************************)
UTCTimestampShortLength == 17
UTCTimeOnlyShortLength  == 8
UTCTimeOnlyLength       == 12
UTCDateOnlyLength       == 8

\* Years start in March, eras of 400 of them on 0000-03-01; 1970 starts DaysToEpoch later.
DaysInEra   == 146097
DaysToEpoch == 719468

\* January and February of the year 0 are left out: the code takes the era of the year
\* before it, a negative number, as an unsigned one.
daysSince1970(year, month, d) ==
    LET y   == IF month <= 2 THEN year - 1 ELSE year
        era == (IF y >= 0 THEN y ELSE y - 399) \div 400
        yoe == y - era * 400
        doy == (153 * (month + IF month > 2 THEN -3 ELSE 9) + 2) \div 5 + d - 1
        doe == yoe * 365 + yoe \div 4 - yoe \div 100 + doy
    IN  era * DaysInEra + doe - DaysToEpoch

\* -1 for a month or day that is none; the length of the month is not looked at.
dateToEpochDays(bytes) ==
    LET n     == asciiToUint64(SubSeq(bytes, 1, 8))
        month == (n \div 100) % 100
        d     == n % 100
    IN  IF month \in 1 .. 12 /\ d \in 1 .. 31
        THEN daysSince1970(n \div 10000, month, d) ELSE -1

\* The leap days are taken off first.
yearOfEra(doe) == (doe - doe \div 1460 + doe \div 36524 - doe \div (DaysInEra - 1)) \div 365

writeDateOnly(days) ==
    LET z     == days + DaysToEpoch
        era   == z \div DaysInEra
        doe   == z - era * DaysInEra
        yoe   == yearOfEra(doe)
        doy   == doe - (365 * yoe + yoe \div 4 - yoe \div 100)
        mp    == (5 * doy + 2) \div 153
        d     == doy - (153 * mp + 2) \div 5 + 1
        month == IF mp < 10 THEN mp + 3 ELSE mp - 9
        year  == yoe + era * 400 + IF month <= 2 THEN 1 ELSE 0
    IN  Padded(year, 4) \o Padded(month, 2) \o Padded(d, 2)

writeDatePrefix(days) == writeDateOnly(days) \o <<45>>

writeTimeOfDay(ms) ==
    Padded(ms \div 3600000, 2) \o <<58>> \o Padded(ms \div 60000 % 60, 2) \o <<58>>
    \o Padded(ms \div 1000 % 60, 2) \o <<46>> \o Padded(ms % 1000, 3)

dateOnlyToEpochUTC(bytes) ==
    IF Len(bytes) # UTCDateOnlyLength \/ dateToEpochDays(bytes) < 0 THEN NoTime
    ELSE [days |-> dateToEpochDays(bytes), ms |-> 0]

\* The separators are not looked at.
timeOnlyToMillis(bytes) ==
    LET hours == asciiToUint64(SubSeq(bytes, 1, 2))
        mins  == asciiToUint64(SubSeq(bytes, 4, 5))
        secs  == asciiToUint64(SubSeq(bytes, 7, 8))
        whole == (hours * 3600 + mins * 60 + secs) * 1000
    IN  IF \/ Len(bytes) \notin {UTCTimeOnlyShortLength, UTCTimeOnlyLength}
           \/ hours > 23 \/ mins > 59 \/ secs > 59
        THEN -1
        ELSE IF Len(bytes) = UTCTimeOnlyShortLength THEN whole
        ELSE whole + asciiToUint64(SubSeq(bytes, 10, 12))

\* The time of day behind the date.
timestampMillisFromDays(bytes, days) ==
    LET ms == timeOnlyToMillis(SubSeq(bytes, 10, Len(bytes)))
    IN  IF ms < 0 THEN NoTime ELSE [days |-> days, ms |-> ms]

-----------------------------------------------------------------------------
(***************************************************************************)
(* The session.                                                            *)
(***************************************************************************)
\* Mutant: a later time is taken for one of the cached day.
BeforeCachedDay(days) == encoderDays = -1 \/ days < encoderDays

\* millis is before or after the cached day.
OutsideCachedDay(days) == encoderDays = -1 \/ days # encoderDays

\* Today's times, and late ones of yesterday.
EncodeTimestamp ==
    /\ \E back \in {0, 1}, ms \in Moments :
         /\ day - back >= start.days
         /\ LET days == day - back
                prefix == IF OutsideCachedDay(days) THEN writeDatePrefix(days) ELSE datePrefix
            IN  /\ datePrefix' = prefix
                /\ encoderDays' = IF OutsideCachedDay(days) THEN days ELSE encoderDays
                /\ field' = UTCTimestamp(prefix \o writeTimeOfDay(ms))
                /\ time' = [days |-> days, ms |-> ms]
    /\ ours' = TRUE
    /\ read' = NoTime
    /\ UNCHANGED <<start, day, date, yesterday, decoderVars>>

EncodeUTCDateOnly ==
    /\ \E back \in {0, 1} :
         /\ day - back >= start.days
         /\ field' = UTCDateOnly(writeDateOnly(day - back))
         /\ time' = [days |-> day - back, ms |-> 0]
    /\ ours' = TRUE
    /\ read' = NoTime
    /\ UNCHANGED <<start, day, date, yesterday, encoderVars, decoderVars>>

EncodeUTCTimeOnly ==
    /\ \E ms \in Moments :
         /\ field' = UTCTimeOnly(writeTimeOfDay(ms))
         /\ time' = [days |-> 0, ms |-> ms]
    /\ ours' = TRUE
    /\ read' = NoTime
    /\ UNCHANGED <<start, day, date, yesterday, encoderVars, decoderVars>>

\* A field somebody else wrote.
Receive ==
    /\ \E f \in Foreign : field' = ForeignField(f) /\ time' = ForeignTime(f)
    /\ ours' = FALSE
    /\ read' = NoTime
    /\ UNCHANGED <<start, day, date, yesterday, encoderVars, decoderVars>>

\* Mutant: a date is cached before it is found to be none.
CachedUnchecked(bytes) ==
    LET word == SubSeq(bytes, 1, 8)
        days == IF word = dateWord THEN dateDays ELSE dateToEpochDays(bytes)
    IN  /\ dateWord' = word
        /\ dateDays' = IF days < 0 THEN dateDays ELSE days
        /\ read' = IF days < 0 THEN NoTime ELSE timestampMillisFromDays(bytes, days)

\* cachedTimestamp() of at least 17 bytes.
Cached(bytes) ==
    LET word == SubSeq(bytes, 1, 8)
        days == IF word = dateWord THEN dateDays ELSE dateToEpochDays(bytes)
    IN  /\ dateWord' = IF days < 0 THEN dateWord ELSE word
        /\ dateDays' = IF days < 0 THEN dateDays ELSE days
        /\ read' = IF days < 0 THEN NoTime ELSE timestampMillisFromDays(bytes, days)

CachedTimestamp ==
    /\ field.type = "UTCTimestamp"
    /\ IF Len(field.value) < UTCTimestampShortLength
       THEN read' = NoTime /\ UNCHANGED decoderVars
       ELSE Cached(field.value)
    /\ field' = NoField
    /\ UNCHANGED <<start, day, date, yesterday, encoderVars, ours, time>>

getUTCDateOnly ==
    /\ field.type = "UTCDateOnly"
    /\ read' = dateOnlyToEpochUTC(field.value)
    /\ field' = NoField
    /\ UNCHANGED <<start, day, date, yesterday, encoderVars, decoderVars, ours, time>>

getUTCTimeOnly ==
    /\ field.type = "UTCTimeOnly"
    /\ LET ms == timeOnlyToMillis(field.value)
       IN  read' = IF ms < 0 THEN NoTime ELSE [days |-> 0, ms |-> ms]
    /\ field' = NoField
    /\ UNCHANGED <<start, day, date, yesterday, encoderVars, decoderVars, ours, time>>

\* Midnight.  A session encodes and reads something every day: the heartbeats.
Midnight ==
    /\ day < start.days + Walk
    /\ field = NoField
    /\ encoderDays \in {day - 1, day}
    /\ dateDays \in {day - 1, day}
                    \union {ForeignTime(f).days : f \in {g \in Foreign : g.type = "UTCTimestamp"}}
    /\ day' = day + 1
    /\ yesterday' = date
    /\ date' = DayAfter(date)
    /\ ours' = FALSE /\ time' = NoTime /\ read' = NoTime
    /\ UNCHANGED <<start, encoderVars, decoderVars, field>>

Init ==
    /\ start \in Starts
    /\ day = start.days
    /\ date = start.date /\ yesterday = start.date
    /\ encoderDays = -1 /\ datePrefix = <<>>
    /\ dateWord = NoDate /\ dateDays = 0
    /\ field = NoField /\ ours = FALSE /\ time = NoTime /\ read = NoTime

Next ==
    \/ EncodeTimestamp \/ EncodeUTCDateOnly \/ EncodeUTCTimeOnly \/ Receive
    \/ CachedTimestamp \/ getUTCDateOnly \/ getUTCTimeOnly
    \/ Midnight

Spec == Init /\ [][Next]_vars

-----------------------------------------------------------------------------
\* A time is written with its own date by the calendar, on whichever day the
\* encoder wrote one before: over midnight, back over it, over leap days and the
\* turns of months, years and centuries (FieldEncoder.hpp:65-100).
StampExact ==
    ours /\ field # NoField =>
        field.value = Written(field.type, IF time.days = day THEN date ELSE yesterday,
                              Clock(time.ms))

\* A field is read as the time it stands for, and one that is none is refused,
\* whatever date was read or refused before it (FieldDecoder.hpp:655-775).
ReadExact == field = NoField => read = time

\* Nobody sees the caches: a timestamp is written and read as by objects without
\* them, whatever was written, read or refused on which days before
\* (FieldEncoder.hpp:65-100, FieldDecoder.hpp:742-775).
UncachedTimestamp(bytes) ==
    IF Len(bytes) < UTCTimestampShortLength \/ dateToEpochDays(bytes) < 0 THEN NoTime
    ELSE timestampMillisFromDays(bytes, dateToEpochDays(bytes))
CachesUnseen ==
    [][/\ ours' /\ field'.type = "UTCTimestamp" =>
             field'.value = writeDatePrefix(time'.days) \o writeTimeOfDay(time'.ms)
       /\ field.type = "UTCTimestamp" /\ field'.type = "none" =>
             read' = UncachedTimestamp(field.value)]_vars
=============================================================================
