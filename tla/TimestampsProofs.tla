-------------------------- MODULE TimestampsProofs --------------------------
(***************************************************************************)
(* Dates and times, for every day a session starts on, every number of     *)
(* days it runs, every time of day and every field it receives, in three   *)
(* steps.                                                                  *)
(*                                                                         *)
(* The calendar: the code's day arithmetic and its inverse agree with      *)
(* DayNumber, which counts years, leap days and months.                    *)
(*                                                                         *)
(* The caches change nothing: each holds what would be calculated anew.    *)
(* The bytes of a field need only be a sequence, so that the eight of a    *)
(* date are not the sentinel of an empty cache.                            *)
(*                                                                         *)
(* Stamps and readings: what is written is the date of the calendar, since *)
(* today's date is the one of its number and yesterday's the one before;   *)
(* and every part of a field, a date or a time of day, is read as the      *)
(* number its digits spell, so that a field not yet read already stands    *)
(* for the time it will be read as (FieldInv).                             *)
(***************************************************************************)
EXTENDS Timestamps, WireProofs

-----------------------------------------------------------------------------
(***************************************************************************)
(* The calendar.  A date is the day DayNumber() counts, the day after it   *)
(* the next one, and the code's arithmetic, in years that start in March   *)
(* and eras of 400 of them, says the same in both directions.              *)
(***************************************************************************)
\* What a year adds to the leap days.
LEMMA LeapCounted ==
    ASSUME NEW y \in Nat \ {0}
    PROVE  LeapsUpTo(y) = LeapsUpTo(y - 1) + IF IsLeap(y) THEN 1 ELSE 0
<1>1. y \div 4 = (y - 1) \div 4 + IF y % 4 = 0 THEN 1 ELSE 0
  OBVIOUS
<1>2. y \div 100 = (y - 1) \div 100 + IF y % 100 = 0 THEN 1 ELSE 0
  OBVIOUS
<1>3. y \div 400 = (y - 1) \div 400 + IF y % 400 = 0 THEN 1 ELSE 0
  OBVIOUS
<1>4. (y % 400 = 0 => y % 100 = 0) /\ (y % 100 = 0 => y % 4 = 0)
  OBVIOUS
<1>5. \A z \in Int : z \div 4 \in Int /\ z \div 100 \in Int /\ z \div 400 \in Int
  OBVIOUS
<1>6. y \in Int /\ y - 1 \in Int
  OBVIOUS
<1> DEFINE a == y \div 4
           b == y \div 100
           c == y \div 400
           a1 == (y - 1) \div 4
           b1 == (y - 1) \div 100
           c1 == (y - 1) \div 400
<1>7. a \in Int /\ b \in Int /\ c \in Int /\ a1 \in Int /\ b1 \in Int /\ c1 \in Int
  BY <1>5, <1>6
<1>8. LeapsUpTo(y) = a - b + c /\ LeapsUpTo(y - 1) = a1 - b1 + c1
  BY DEF LeapsUpTo
<1>9. /\ a = a1 + (IF y % 4 = 0 THEN 1 ELSE 0)
      /\ b = b1 + (IF y % 100 = 0 THEN 1 ELSE 0)
      /\ c = c1 + (IF y % 400 = 0 THEN 1 ELSE 0)
  BY <1>1, <1>2, <1>3
<1> HIDE DEF a, b, c, a1, b1, c1
<1> QED BY <1>4, <1>7, <1>8, <1>9 DEF IsLeap

LEMMA MonthLengths ==
    ASSUME NEW y, NEW m \in 1 .. 12
    PROVE  MonthLength(y, m) = CASE m = 2 -> IF IsLeap(y) THEN 29 ELSE 28
                                 [] m = 4 \/ m = 6 \/ m = 9 \/ m = 11 -> 30
                                 [] OTHER -> 31
BY DEF MonthLength

LEMMA LeapsType == ASSUME NEW y \in Int PROVE LeapsUpTo(y) \in Int
BY DEF LeapsUpTo

LEMMA BeforeMonths ==
  /\ BeforeMonth[1] = 0 /\ BeforeMonth[2] = 31 /\ BeforeMonth[3] = 59 /\ BeforeMonth[4] = 90
  /\ BeforeMonth[5] = 120 /\ BeforeMonth[6] = 151 /\ BeforeMonth[7] = 181 /\ BeforeMonth[8] = 212
  /\ BeforeMonth[9] = 243 /\ BeforeMonth[10] = 273 /\ BeforeMonth[11] = 304 /\ BeforeMonth[12] = 334
BY DEF BeforeMonth

\* Days are counted without a gap, over the ends of months and years.
LEMMA NextDay ==
    ASSUME NEW d \in CalendarDate
    PROVE  DayAfter(d) \in CalendarDate /\ DayNumber(DayAfter(d)) = DayNumber(d) + 1
<1> DEFINE y == d.year
           m == d.month
           n == d.day
           L == LeapsUpTo(y - 1)
<1>1. y \in Nat \ {0} /\ m \in 1 .. 12 /\ n \in 1 .. 31 /\ n <= MonthLength(y, m)
  BY DEF CalendarDate
<1>2. d = Date(y, m, n)
  BY DEF CalendarDate, Date
<1>3. \A a, b, c : Date(a, b, c).year = a /\ Date(a, b, c).month = b /\ Date(a, b, c).day = c
  BY DEF Date
<1>4. \A a \in Nat \ {0}, b \in 1 .. 12, c \in 1 .. 31 :
        c <= MonthLength(a, b) => Date(a, b, c) \in CalendarDate
  BY DEF Date, CalendarDate
<1>5. L \in Int
  BY <1>1, LeapsType
<1>6. y + 1 \in Nat \ {0} /\ (y + 1) - 1 = y
  BY <1>1
<1>7. LeapsUpTo(y) = L + IF IsLeap(y) THEN 1 ELSE 0
  BY <1>1, LeapCounted
<1>8. LeapsUpTo(1969) \in Int
  BY LeapsType
<1> HIDE DEF y, m, n, L
<1>9. CASE n < MonthLength(y, m)
  <2>1. DayAfter(d) = Date(y, m, n + 1)
    BY <1>2, <1>3, <1>9 DEF DayAfter, Date, y, m, n
  <2>2. MonthLength(y, m) <= 31 /\ MonthLength(y, m) \in Int
    BY <1>1, MonthLengths
  <2>3. Date(y, m, n + 1) \in CalendarDate
    <3>1. n + 1 \in 1 .. 31 /\ n + 1 <= MonthLength(y, m)
      BY <1>1, <1>9, <2>2
    <3> QED BY <1>1, <1>4, <3>1
  <2>4. BeforeMonth[m] \in Int
    BY <1>1, BeforeMonths
  <2>5. DayNumber(Date(y, m, n + 1)) = DayNumber(Date(y, m, n)) + 1
    BY <1>1, <1>3, <1>5, <1>8, <2>4 DEF DayNumber, DayOfYear, L
  <2> QED BY <1>2, <2>1, <2>3, <2>5
<1>10. CASE n = MonthLength(y, m) /\ m < 12
  <2>1. DayAfter(d) = Date(y, m + 1, 1)
    BY <1>1, <1>10 DEF DayAfter, Date, y, m, n
  <2>2. 1 <= MonthLength(y, m + 1)
    BY <1>1, <1>10, MonthLengths
  <2>3. Date(y, m + 1, 1) \in CalendarDate
    BY <1>1, <1>4, <1>10, <2>2
  <2>4. DayOfYear(Date(y, m + 1, 1)) = DayOfYear(Date(y, m, n)) + 1 /\ DayOfYear(Date(y, m, n)) \in Int
    <3>1. m \in 1 .. 11
      BY <1>1, <1>10
    <3>2. MonthLength(y, m) = CASE m = 2 -> IF IsLeap(y) THEN 29 ELSE 28
                                 [] m = 4 \/ m = 6 \/ m = 9 \/ m = 11 -> 30
                                 [] OTHER -> 31
      BY <1>1, MonthLengths
    <3>3. BeforeMonth[m + 1] + (IF m + 1 > 2 /\ IsLeap(y) THEN 1 ELSE 0) + 1
             = BeforeMonth[m] + (IF m > 2 /\ IsLeap(y) THEN 1 ELSE 0) + n + 1
          /\ BeforeMonth[m] \in Int /\ BeforeMonth[m + 1] \in Int
      BY <1>1, <1>10, <3>1, <3>2, BeforeMonths
    <3> QED BY <1>1, <1>3, <3>1, <3>3 DEF DayOfYear
  <2>5. DayNumber(Date(y, m + 1, 1)) = DayNumber(Date(y, m, n)) + 1
    BY <1>1, <1>3, <1>5, <1>8, <2>4 DEF DayNumber, L
  <2> QED BY <1>2, <2>1, <2>3, <2>5
<1>11. CASE n = MonthLength(y, m) /\ m = 12
  <2>1. DayAfter(d) = Date(y + 1, 1, 1)
    BY <1>1, <1>11 DEF DayAfter, Date, y, m, n
  <2>2. 1 <= MonthLength(y + 1, 1)
    BY MonthLengths
  <2>3. Date(y + 1, 1, 1) \in CalendarDate
    BY <1>6, <1>4, <2>2
  <2>4. n = 31
    BY <1>1, <1>11, MonthLengths
  <2>5. DayOfYear(Date(y, 12, 31)) = 365 + IF IsLeap(y) THEN 1 ELSE 0
    BY <1>3, BeforeMonths DEF DayOfYear
  <2>6. DayOfYear(Date(y + 1, 1, 1)) = 1
    BY <1>3, BeforeMonths DEF DayOfYear
  <2>7. DayNumber(Date(y + 1, 1, 1)) = 365 * (y + 1 - 1970) + LeapsUpTo(y) - LeapsUpTo(1969)
    BY <1>1, <1>3, <1>6, <1>7, <1>5, <1>8, <2>6 DEF DayNumber
  <2>8. DayNumber(Date(y, 12, 31)) = 365 * (y - 1970) + L - LeapsUpTo(1969) + 365 + (IF IsLeap(y) THEN 1 ELSE 0) - 1
    BY <1>1, <1>3, <1>5, <1>8, <2>5 DEF DayNumber, L
  <2>9. DayNumber(Date(y + 1, 1, 1)) = DayNumber(Date(y, 12, 31)) + 1
    BY <1>1, <1>5, <1>8, <1>7, <2>7, <2>8
  <2> QED BY <1>2, <1>11, <2>1, <2>3, <2>4, <2>9
<1>12. MonthLength(y, m) \in Int
  BY <1>1, MonthLengths
<1> QED BY <1>1, <1>9, <1>10, <1>11, <1>12

\* The year, month and day of the year of a date when years start in March.
MarchYear(d)  == IF d.month <= 2 THEN d.year - 1 ELSE d.year
MarchMonth(d) == d.month + IF d.month > 2 THEN -3 ELSE 9
MarchDay(d)   == (153 * MarchMonth(d) + 2) \div 5 + d.day - 1

LEMMA MarchMonths ==
    ASSUME NEW d \in CalendarDate
    PROVE  /\ MarchYear(d) \in Nat /\ MarchMonth(d) \in 0 .. 11 /\ MarchDay(d) \in 0 .. 365
           /\ d.month = IF MarchMonth(d) < 10 THEN MarchMonth(d) + 3 ELSE MarchMonth(d) - 9
           /\ d.year = MarchYear(d) + IF d.month <= 2 THEN 1 ELSE 0
           /\ (5 * MarchDay(d) + 2) \div 153 = MarchMonth(d)
           /\ MarchDay(d) = 365 => IsLeap(MarchYear(d) + 1)
<1> DEFINE y == d.year
           m == d.month
           n == d.day
           mm == m + IF m > 2 THEN -3 ELSE 9
           md == (153 * mm + 2) \div 5 + n - 1
<1>1. y \in Nat \ {0} /\ m \in 1 .. 12 /\ n \in 1 .. 31 /\ n <= MonthLength(y, m)
  BY DEF CalendarDate
<1>2. MonthLength(y, m) = CASE m = 2 -> IF IsLeap(y) THEN 29 ELSE 28
                                 [] m = 4 \/ m = 6 \/ m = 9 \/ m = 11 -> 30
                                 [] OTHER -> 31
  BY <1>1, MonthLengths
<1>3. MarchMonth(d) = mm /\ MarchDay(d) = md /\ MarchYear(d) = IF m <= 2 THEN y - 1 ELSE y
  BY DEF MarchMonth, MarchDay, MarchYear
<1> HIDE DEF y, m, n
<1>4. mm \in 0 .. 11 /\ m = IF mm < 10 THEN mm + 3 ELSE mm - 9
  BY <1>1
<1>5. md \in 0 .. 365 /\ (md = 365 => m = 2 /\ IsLeap(y)) /\ (5 * md + 2) \div 153 = mm
  BY <1>1, <1>2, SMTT(60)
<1>6. MarchYear(d) \in Nat /\ y = MarchYear(d) + (IF m <= 2 THEN 1 ELSE 0)
  BY <1>1, <1>3
<1>7. MarchDay(d) = 365 => MarchYear(d) + 1 = y /\ IsLeap(y)
  BY <1>1, <1>3, <1>5, <1>6
<1> HIDE DEF mm, md
<1> QED BY <1>3, <1>4, <1>5, <1>6, <1>7 DEF y, m

LEMMA MarchDays ==
    ASSUME NEW d \in CalendarDate
    PROVE  DayNumber(d) = 365 * MarchYear(d) + LeapsUpTo(MarchYear(d)) + MarchDay(d) - DaysToEpoch
<1> DEFINE y == d.year
           m == d.month
           n == d.day
           L == LeapsUpTo(y - 1)
           leap == IF IsLeap(y) THEN 1 ELSE 0
           mm == m + IF m > 2 THEN -3 ELSE 9
<1>1. y \in Nat \ {0} /\ m \in 1 .. 12 /\ n \in 1 .. 31
  BY DEF CalendarDate
<1>2. L \in Int /\ LeapsUpTo(y) = L + leap /\ LeapsUpTo(1969) = 477
  <2>1. LeapsUpTo(1969) = 477
    BY SMT DEF LeapsUpTo
  <2> QED BY <1>1, <2>1, LeapsType, LeapCounted
<1>3. MarchDay(d) = (153 * mm + 2) \div 5 + n - 1 /\ MarchYear(d) = IF m <= 2 THEN y - 1 ELSE y
  BY DEF MarchMonth, MarchDay, MarchYear
<1>4. DayNumber(d) = 365 * (y - 1970) + L - 477 + BeforeMonth[m] + n + (IF m > 2 THEN leap ELSE 0) - 1
  <2>1. DayOfYear(d) = BeforeMonth[m] + n + (IF m > 2 THEN leap ELSE 0)
    BY DEF DayOfYear
  <2>2. BeforeMonth[m] \in Int
    BY <1>1, BeforeMonths
  <2> HIDE DEF m, n, y
  <2>3. DayNumber(d) = 365 * (y - 1970) + L - LeapsUpTo(1969) + DayOfYear(d) - 1
    BY DEF DayNumber, y
  <2> QED BY <1>1, <1>2, <2>1, <2>2, <2>3
<1>5. leap \in Int
  OBVIOUS
<1> HIDE DEF y, m, n, leap, L
<1>6. CASE m <= 2
  <2>1. BeforeMonth[m] + 306 = (153 * mm + 2) \div 5 /\ BeforeMonth[m] \in Int
    BY <1>1, <1>6, BeforeMonths
  <2>2. LeapsUpTo(y - 1) = L
    BY DEF L
  <2> HIDE DEF mm
  <2> QED BY <1>1, <1>2, <1>3, <1>4, <1>6, <2>1, <2>2, SMT DEF DaysToEpoch
<1>7. CASE m > 2
  <2> DEFINE b == BeforeMonth[m]
             k == (153 * mm + 2) \div 5
             u == LeapsUpTo(y)
  <2>1. b = k + 59 /\ b \in Int /\ k \in Int
    BY <1>1, <1>7, BeforeMonths
  <2>2. u = L + leap /\ MarchYear(d) = y /\ MarchDay(d) = k + n - 1
    BY <1>1, <1>2, <1>3, <1>7
  <2>3. DayNumber(d) = 365 * (y - 1970) + L - 477 + b + n + leap - 1
    BY <1>4, <1>7
  <2> HIDE DEF b, k, u
  <2>5. DayNumber(d) = 365 * y + u + (k + n - 1) - DaysToEpoch
    BY <1>1, <1>2, <1>5, <2>1, <2>2, <2>3, SMT DEF DaysToEpoch
  <2> QED BY <1>1, <2>1, <2>2, <2>5, SMT DEF u
<1> QED BY <1>1, <1>6, <1>7

\* Years of an era.
\* Year y is year yoe of an era; the days to day doy of it.
InEra(y, era, yoe) ==
    /\ era \in Nat /\ yoe \in 0 .. 399 /\ y = 400 * era + yoe
    /\ LeapsUpTo(y) = 97 * era + yoe \div 4 - yoe \div 100
DaysIn(era, yoe, doy) ==
    era * DaysInEra + (yoe * 365 + yoe \div 4 - yoe \div 100 + doy) - DaysToEpoch

LEMMA EraYears ==
    ASSUME NEW y \in Nat
    PROVE  \E era, yoe : InEra(y, era, yoe)
<1> DEFINE era == y \div 400
           yoe == y - era * 400
<1>1. era \in Nat /\ yoe \in 0 .. 399
  OBVIOUS
<1>2. y = 400 * era + yoe
  BY <1>1
<1>3. y \div 400 = era
  OBVIOUS
<1> HIDE DEF era, yoe
<1>4. y \div 4 = 100 * era + yoe \div 4
  BY <1>1, <1>2
<1>5. y \div 100 = 4 * era + yoe \div 100
  BY <1>1, <1>2
<1>6. yoe \div 4 \in Int /\ yoe \div 100 \in Int
  BY <1>1
<1>7. LeapsUpTo(y) = 97 * era + yoe \div 4 - yoe \div 100
  BY <1>1, <1>3, <1>4, <1>5, <1>6 DEF LeapsUpTo
<1>8. InEra(y, era, yoe)
  BY <1>1, <1>2, <1>7 DEF InEra
<1> QED BY <1>8

LEMMA DaysFromParts ==
    ASSUME NEW d \in CalendarDate, NEW era, NEW yoe, InEra(MarchYear(d), era, yoe)
    PROVE  daysSince1970(d.year, d.month, d.day) = DaysIn(era, yoe, MarchDay(d))
<1> DEFINE y == IF d.month <= 2 THEN d.year - 1 ELSE d.year
           e == (IF y >= 0 THEN y ELSE y - 399) \div 400
           z == y - e * 400
           doy == (153 * (d.month + IF d.month > 2 THEN -3 ELSE 9) + 2) \div 5 + d.day - 1
<1>1. daysSince1970(d.year, d.month, d.day) = DaysIn(e, z, doy)
  BY SMT DEF daysSince1970, DaysIn, DaysToEpoch
<1>2. doy = MarchDay(d) /\ y = MarchYear(d)
  BY DEF MarchDay, MarchMonth, MarchYear
<1> HIDE DEF y, doy
<1>3. era \in Nat /\ yoe \in 0 .. 399 /\ y = 400 * era + yoe
  BY <1>2 DEF InEra
<1> HIDE DEF e
<1>4. e = era
  BY <1>3 DEF e
<1> HIDE DEF z
<1>5. z = yoe
  BY <1>3, <1>4 DEF z
<1> QED BY <1>1, <1>2, <1>4, <1>5, Zenon

LEMMA MarchDaysIn ==
    ASSUME NEW d \in CalendarDate, NEW era, NEW yoe, InEra(MarchYear(d), era, yoe)
    PROVE  DayNumber(d) = DaysIn(era, yoe, MarchDay(d)) /\ DayNumber(d) \in Int
<1> DEFINE y == MarchYear(d)
           doy == MarchDay(d)
           u == LeapsUpTo(y)
<1>1. doy \in 0 .. 365
  BY MarchMonths
<1>2. DayNumber(d) = 365 * y + u + doy - DaysToEpoch
  BY MarchDays, SMT
<1>3. era \in Nat /\ yoe \in 0 .. 399 /\ y = 400 * era + yoe /\ u = 97 * era + yoe \div 4 - yoe \div 100
  BY DEF InEra
<1>4. yoe \div 4 \in Int /\ yoe \div 100 \in Int
  BY <1>3
<1> HIDE DEF y, doy, u
<1>5. DayNumber(d) = DaysIn(era, yoe, doy) /\ DayNumber(d) \in Int
  BY <1>1, <1>2, <1>3, <1>4, SMT DEF DaysToEpoch, DaysIn, DaysInEra
<1> QED BY <1>5, Zenon DEF doy

\* daysSince1970() counts the days of the calendar (Conversions.hpp:268-291).
THEOREM CodeDays ==
    ASSUME NEW d \in CalendarDate
    PROVE  daysSince1970(d.year, d.month, d.day) = DayNumber(d)
<1>1. MarchYear(d) \in Nat
  BY MarchMonths
<1>2. PICK era, yoe : InEra(MarchYear(d), era, yoe)
  BY <1>1, EraYears, Zenon
<1> QED BY <1>2, DaysFromParts, MarchDaysIn, Zenon

\* A day of an era without the leap days before it; day doy of year r of the four-year
\* cycle q of century c.
YearDays(doe) == doe - doe \div 1460 + doe \div 36524 - doe \div (DaysInEra - 1)
CycleDay(c, q, r, doy) == 36524 * c + 1461 * q + 365 * r + doy

InCentury(c, q, r, doy) ==
    /\ c \in 0 .. 3 /\ q \in 0 .. 24 /\ r \in 0 .. 3 /\ doy \in 0 .. 365
    /\ doy = 365 => r = 3 /\ (q # 24 \/ c = 3)
OfEra(doe) == doe \in Int /\ 0 <= doe /\ doe < DaysInEra
OfYear(n, yoe) == n \in Int /\ 365 * yoe <= n /\ n < 365 * yoe + 365

LEMMA DayOfEra ==
    ASSUME NEW c, NEW q, NEW r, NEW doy, InCentury(c, q, r, doy)
    PROVE  OfEra(CycleDay(c, q, r, doy))
BY SMT DEF CycleDay, DaysInEra, InCentury, OfEra

LEMMA YearOfEra ==
    ASSUME NEW c, NEW q, NEW r, NEW doy, InCentury(c, q, r, doy)
    PROVE  OfYear(YearDays(CycleDay(c, q, r, doy)), 100 * c + 4 * q + r)
<1> DEFINE doe == CycleDay(c, q, r, doy)
           n   == YearDays(doe)
<1>0. /\ c \in 0 .. 3 /\ q \in 0 .. 24 /\ r \in 0 .. 3 /\ doy \in 0 .. 365
      /\ doy = 365 => r = 3 /\ (q # 24 \/ c = 3)
  BY DEF InCentury
<1>1. doe = 36524 * c + 1461 * q + 365 * r + doy /\ doe \in Int
  BY <1>0, SMT DEF CycleDay
<1> HIDE DEF doe
<1>2. n = doe - doe \div 1460 + doe \div 36524 - doe \div 146096 /\ n \in Int
  BY <1>1, SMT DEF YearDays, DaysInEra
<1> HIDE DEF n
<1>3. 365 * (100 * c + 4 * q + r) <= n /\ n < 365 * (100 * c + 4 * q + r) + 365
  BY <1>0, <1>1, <1>2, SMTT(60)
<1>4. OfYear(n, 100 * c + 4 * q + r)
  BY <1>2, <1>3, SMT DEF OfYear
<1> QED BY <1>4, Zenon DEF n, doe

\* What writeDateOnly() calculates on the way.
DaysBefore(yoe) == 365 * yoe + yoe \div 4 - yoe \div 100
MonthOf(doy) == (5 * doy + 2) \div 153
DateIn(era, yoe, doy, mp) ==
    LET month == IF mp < 10 THEN mp + 3 ELSE mp - 9
    IN  Padded(yoe + era * 400 + IF month <= 2 THEN 1 ELSE 0, 4)
        \o Padded(month, 2) \o Padded(doy - (153 * mp + 2) \div 5 + 1, 2)

\* Year yoe of an era is year r of the four-year cycle q of century c.
InCycle(yoe, c, q, r) ==
    /\ c \in 0 .. 3 /\ q \in 0 .. 24 /\ r \in 0 .. 3 /\ yoe = 100 * c + 4 * q + r
    /\ \A doy \in 0 .. 365 : CycleDay(c, q, r, doy) = DaysBefore(yoe) + doy

IsMarchDay(yoe, doy) ==
    yoe \in 0 .. 399 /\ doy \in 0 .. 365 /\ (doy = 365 => IsLeap(yoe + 1))

LEMMA YearParts ==
    ASSUME NEW yoe \in 0 .. 399
    PROVE  \E c, q, r : InCycle(yoe, c, q, r)
<1> DEFINE c == yoe \div 100
           q == (yoe % 100) \div 4
           r == yoe % 4
<1>1. c \in 0 .. 3 /\ q \in 0 .. 24 /\ r \in 0 .. 3 /\ yoe = 100 * c + 4 * q + r
  OBVIOUS
<1>2. yoe \div 4 = 25 * c + q /\ yoe \div 100 = c
  OBVIOUS
<1> HIDE DEF c, q, r
<1>3. \A doy \in 0 .. 365 : CycleDay(c, q, r, doy) = DaysBefore(yoe) + doy
  BY <1>1, <1>2, SMT DEF DaysBefore, CycleDay
<1>4. InCycle(yoe, c, q, r)
  BY <1>1, <1>3 DEF InCycle
<1> QED BY <1>4

LEMMA LastDay ==
    ASSUME NEW c \in 0 .. 3, NEW q \in 0 .. 24, NEW r \in 0 .. 3,
           IsLeap(100 * c + 4 * q + r + 1)
    PROVE  r = 3 /\ (q # 24 \/ c = 3)
BY SMT DEF IsLeap

LEMMA EraDays ==
    ASSUME NEW yoe, NEW doy, IsMarchDay(yoe, doy)
    PROVE  LET doe == DaysBefore(yoe) + doy
           IN  /\ doe \in Int /\ 0 <= doe /\ doe < DaysInEra
               /\ yearOfEra(doe) = yoe /\ doe - DaysBefore(yoe) = doy
<1> DEFINE doe == DaysBefore(yoe) + doy
           n == YearDays(doe)
<1>1. yoe \in 0 .. 399 /\ doy \in 0 .. 365 /\ (doy = 365 => IsLeap(yoe + 1))
  BY DEF IsMarchDay
<1>2. PICK c, q, r : InCycle(yoe, c, q, r)
  BY <1>1, YearParts
<1>3. /\ c \in 0 .. 3 /\ q \in 0 .. 24 /\ r \in 0 .. 3 /\ yoe = 100 * c + 4 * q + r
      /\ CycleDay(c, q, r, doy) = doe
  BY <1>1, <1>2 DEF InCycle
<1>4. DaysBefore(yoe) \in Int
  BY <1>1, SMT DEF DaysBefore
<1>5. InCentury(c, q, r, doy)
  BY <1>1, <1>3, LastDay DEF InCentury
<1> HIDE DEF n, doe
<1>6. OfEra(doe)
  BY <1>3, <1>5, DayOfEra
<1>7. OfYear(n, yoe)
  BY <1>3, <1>5, YearOfEra DEF n
<1>8. yearOfEra(doe) = n \div 365
  BY SMT DEF yearOfEra, YearDays, n
<1>9. n \div 365 = yoe
  BY <1>1, <1>7, SMT DEF OfYear
<1>10. doe - DaysBefore(yoe) = doy
  BY <1>1, <1>4, SMT DEF doe
<1> QED BY <1>6, <1>8, <1>9, <1>10, Zenon DEF doe, OfEra

LEMMA DateFromParts ==
    ASSUME NEW era \in Nat, NEW yoe, NEW doy, IsMarchDay(yoe, doy)
    PROVE  writeDateOnly(DaysIn(era, yoe, doy)) = DateIn(era, yoe, doy, MonthOf(doy))
<1> DEFINE days  == DaysIn(era, yoe, doy)
           z     == days + DaysToEpoch
           e     == z \div DaysInEra
           doe   == z - e * DaysInEra
           ye    == yearOfEra(doe)
           dy    == doe - DaysBefore(ye)
           doe0  == DaysBefore(yoe) + doy
<1>1. writeDateOnly(days) = DateIn(e, ye, dy, MonthOf(dy))
  BY Zenon DEF writeDateOnly, DateIn, MonthOf, DaysBefore
<1>2. /\ doe0 \in Int /\ 0 <= doe0 /\ doe0 < DaysInEra
      /\ yearOfEra(doe0) = yoe /\ doe0 - DaysBefore(yoe) = doy
  BY EraDays, Zenon
<1>3. z = DaysInEra * era + doe0 /\ z \in Int
  BY <1>2, SMT DEF IsMarchDay, DaysIn, DaysBefore, DaysToEpoch, DaysInEra
<1> HIDE DEF z, doe0, dy, ye, doe, e
<1>4. e = era
  BY <1>2, <1>3, SMT DEF e, DaysInEra
<1>5. doe = doe0
  BY <1>2, <1>3, <1>4, SMT DEF doe, DaysInEra
<1>6. ye = yoe
  BY <1>2, <1>5, Zenon DEF ye
<1>7. dy = doy
  BY <1>2, <1>5, <1>6, Zenon DEF dy
<1> QED BY <1>1, <1>4, <1>6, <1>7, Zenon

\* writeDateOnly() writes the date of the calendar, the inverse of CodeDays
\* (Conversions.hpp:696-716).
THEOREM CodeDate ==
    ASSUME NEW d \in CalendarDate
    PROVE  writeDateOnly(DayNumber(d)) = WrittenDate(d)
<1> DEFINE y == MarchYear(d)
           doy == MarchDay(d)
           mp == MarchMonth(d)
<1>1. /\ y \in Nat /\ mp \in 0 .. 11 /\ doy \in 0 .. 365 /\ (doy = 365 => IsLeap(y + 1))
      /\ d.month = IF mp < 10 THEN mp + 3 ELSE mp - 9
      /\ d.year = y + IF d.month <= 2 THEN 1 ELSE 0
      /\ MonthOf(doy) = mp
  BY MarchMonths DEF MonthOf
<1>2. PICK era, yoe : InEra(y, era, yoe)
  BY <1>1, EraYears, Zenon
<1>3. d.day = doy - (153 * mp + 2) \div 5 + 1
  <2>1. d.day \in Int
    BY DEF CalendarDate
  <2>2. (153 * mp + 2) \div 5 \in Int
    BY <1>1
  <2> QED BY <2>1, <2>2 DEF MarchDay
<1>4. DayNumber(d) = DaysIn(era, yoe, doy)
  BY <1>2, MarchDaysIn, Zenon
<1> HIDE DEF y, doy, mp
<1>5. era \in Nat /\ yoe \in 0 .. 399 /\ y = 400 * era + yoe
  BY <1>2 DEF InEra
<1>6. doy = 365 => IsLeap(yoe + 1)
  <2>1. (y + 1) % 4 = (yoe + 1) % 4
    BY <1>5
  <2>2. (y + 1) % 100 = (yoe + 1) % 100
    BY <1>5
  <2>3. (y + 1) % 400 = (yoe + 1) % 400
    BY <1>5
  <2> QED BY <1>1, <2>1, <2>2, <2>3 DEF IsLeap
<1>7. d.year = yoe + era * 400 + (IF d.month <= 2 THEN 1 ELSE 0)
  BY <1>1, <1>5
<1>8. writeDateOnly(DaysIn(era, yoe, doy)) = DateIn(era, yoe, doy, MonthOf(doy))
  <2>1. IsMarchDay(yoe, doy)
    BY <1>1, <1>5, <1>6 DEF IsMarchDay
  <2> QED BY <1>5, <2>1, DateFromParts
<1>9. DateIn(era, yoe, doy, mp) =
        Padded(yoe + era * 400 + IF d.month <= 2 THEN 1 ELSE 0, 4)
        \o Padded(d.month, 2) \o Padded(doy - (153 * mp + 2) \div 5 + 1, 2)
  BY <1>1, SMT DEF DateIn
<1>10. MonthOf(doy) = mp
  BY <1>1
<1> QED BY <1>3, <1>4, <1>7, <1>8, <1>9, <1>10, ZenonT(40) DEF WrittenDate

-----------------------------------------------------------------------------
(***************************************************************************)
(* The caches.                                                             *)
(***************************************************************************)
\* What dateToEpochDays() makes of the eight bytes it looks at.
DaysOf(word) ==
    LET n     == asciiToUint64(word)
        month == (n \div 100) % 100
        d     == n % 100
    IN  IF month \in 1 .. 12 /\ d \in 1 .. 31
        THEN daysSince1970(n \div 10000, month, d) ELSE -1

CacheInv ==
    /\ encoderDays # -1 => datePrefix = writeDatePrefix(encoderDays)
    /\ dateWord # NoDate => dateDays = DaysOf(dateWord)
    /\ field.type = "UTCTimestamp" => IsSequence(field.value)

-----------------------------------------------------------------------------
LEMMA WrittenSequences ==
    ASSUME NEW days, NEW ms
    PROVE  IsSequence(writeDatePrefix(days)) /\ IsSequence(writeTimeOfDay(ms))
<1>1. \A n : IsSequence(Padded(n, 2)) /\ IsSequence(Padded(n, 3)) /\ IsSequence(Padded(n, 4))
  BY PaddedSequence
<1>2. \A y, m, d : IsSequence(Padded(y, 4) \o Padded(m, 2) \o Padded(d, 2))
  BY <1>1, JoinedSequences
<1>3. IsSequence(writeDatePrefix(days))
  <2>1. IsSequence(writeDateOnly(days))
    BY <1>2 DEF writeDateOnly
  <2> QED BY <2>1, OneSequence, JoinedSequences DEF writeDatePrefix
<1>4. IsSequence(writeTimeOfDay(ms))
  <2>1. \A h, m, sec, n :
          IsSequence(Padded(h, 2) \o <<58>> \o Padded(m, 2) \o <<58>> \o Padded(sec, 2)
                     \o <<46>> \o Padded(n, 3))
    BY <1>1, OneSequence, JoinedSequences
  <2> QED BY <2>1 DEF writeTimeOfDay
<1> QED BY <1>3, <1>4

LEMMA WrittenSequence ==
    ASSUME NEW d, NEW c
    PROVE  IsSequence(WrittenDate(d)) /\ IsSequence(WrittenTime(c))
<1>1. \A n : IsSequence(Padded(n, 2)) /\ IsSequence(Padded(n, 3)) /\ IsSequence(Padded(n, 4))
  BY PaddedSequence
<1>2. IsSequence(WrittenDate(d))
  BY <1>1, JoinedSequences DEF WrittenDate
<1>3. IsSequence(WrittenTime(c))
  BY <1>1, OneSequence, JoinedSequences DEF WrittenTime
<1> QED BY <1>2, <1>3

LEMMA ForeignTyped ==
    ASSUME NEW f \in Foreign
    PROVE  f.type \in {"UTCTimestamp", "UTCDateOnly", "UTCTimeOnly"}
<1>1. Sendable(f)
  BY ForeignAssumption
<1> QED BY <1>1 DEF Sendable

LEMMA ForeignSequence ==
    ASSUME NEW f \in Foreign
    PROVE  IsSequence(SubSeq(Written(f.type, f.date, f.clock), 1, f.length))
<1>1. /\ f.type \in {"UTCTimestamp", "UTCDateOnly", "UTCTimeOnly"}
      /\ f.length \in 0 .. Len(Written(f.type, f.date, f.clock))
  <2>1. Sendable(f)
    BY ForeignAssumption
  <2> QED BY <2>1 DEF Sendable
<1>2. IsSequence(Written(f.type, f.date, f.clock))
  <2>1. IsSequence(WrittenDate(f.date) \o <<45>> \o WrittenTime(f.clock))
    BY WrittenSequence, OneSequence, JoinedSequences
  <2> QED BY <1>1, <2>1, WrittenSequence DEF Written
<1> DEFINE text == Written(f.type, f.date, f.clock)
           n    == f.length
<1>3. IsSequence(text) /\ n \in 0 .. Len(text)
  BY <1>1, <1>2
<1> HIDE DEF text, n
<1>4. PICK S : text \in Seq(S)
  BY <1>3 DEF IsSequence
<1>5. SubSeq(text, 1, n) \in Seq(S)
  BY <1>3, <1>4
<1>6. IsSequence(SubSeq(text, 1, n))
  BY <1>5 DEF IsSequence
<1> QED BY <1>6 DEF text, n

\* A timestamp's date is no sentinel.
LEMMA DateNotSentinel ==
    ASSUME NEW bytes, IsSequence(bytes), Len(bytes) >= UTCTimestampShortLength
    PROVE  SubSeq(bytes, 1, 8) # NoDate
BY DEF IsSequence, UTCTimestampShortLength, NoDate

LEMMA DaysOfWord == ASSUME NEW bytes PROVE dateToEpochDays(bytes) = DaysOf(SubSeq(bytes, 1, 8))
BY DEF dateToEpochDays, DaysOf

-----------------------------------------------------------------------------
\* The cached prefix is the one that would be written.
LEMMA EncodeUncached ==
    ASSUME CacheInv, EncodeTimestamp
    PROVE  /\ field'.value = writeDatePrefix(time'.days) \o writeTimeOfDay(time'.ms)
           /\ CacheInv'
<1>1. PICK back \in {0, 1}, ms \in Moments :
        LET days == day - back
            prefix == IF OutsideCachedDay(days) THEN writeDatePrefix(days) ELSE datePrefix
        IN  /\ datePrefix' = prefix
            /\ encoderDays' = IF OutsideCachedDay(days) THEN days ELSE encoderDays
            /\ field' = UTCTimestamp(prefix \o writeTimeOfDay(ms))
            /\ time' = [days |-> days, ms |-> ms]
  BY DEF EncodeTimestamp
<1> DEFINE days == day - back
<1>2. datePrefix' = writeDatePrefix(days) /\ encoderDays' = days
  <2>1. CASE OutsideCachedDay(days)
    BY <1>1, <2>1
  <2>2. CASE ~OutsideCachedDay(days)
    BY <1>1, <2>2 DEF OutsideCachedDay, CacheInv
  <2> QED BY <2>1, <2>2
<1>3. /\ field' = UTCTimestamp(datePrefix' \o writeTimeOfDay(ms))
      /\ time' = [days |-> days, ms |-> ms]
  BY <1>1
<1> HIDE DEF days
<1>4. field'.value = writeDatePrefix(days) \o writeTimeOfDay(ms)
  BY <1>2, <1>3 DEF UTCTimestamp
<1>5. IsSequence(field'.value)
  BY <1>4, WrittenSequences, JoinedSequences
<1>6. UNCHANGED <<dateWord, dateDays>>
  BY DEF EncodeTimestamp, decoderVars
<1>7. CacheInv'
  BY <1>2, <1>5, <1>6 DEF CacheInv, IsSequence
<1> QED BY <1>3, <1>4, <1>7

\* The cached days are those of the date.
LEMMA ReadUncached ==
    ASSUME CacheInv, CachedTimestamp
    PROVE  read' = UncachedTimestamp(field.value) /\ CacheInv'
<1> DEFINE bytes == field.value
           word  == SubSeq(bytes, 1, 8)
           days  == IF word = dateWord THEN dateDays ELSE dateToEpochDays(bytes)
<1>1. IsSequence(bytes) /\ field' = NoField /\ UNCHANGED <<encoderDays, datePrefix>>
  BY DEF CacheInv, CachedTimestamp, encoderVars
<1>2. field'.type # "UTCTimestamp"
  BY <1>1 DEF NoField
<1>3. CASE Len(bytes) < UTCTimestampShortLength
  <2>1. read' = NoTime /\ UNCHANGED <<dateWord, dateDays>>
    BY <1>3 DEF CachedTimestamp, decoderVars
  <2>2. read' = UncachedTimestamp(bytes)
    BY <1>3, <2>1 DEF UncachedTimestamp
  <2>3. CacheInv'
    BY <1>1, <1>2, <2>1 DEF CacheInv
  <2> QED BY <2>2, <2>3
<1>4. CASE ~(Len(bytes) < UTCTimestampShortLength)
  <2>1. Cached(bytes)
    BY <1>4 DEF CachedTimestamp
  <2>2. word # NoDate
    <3>1. Len(bytes) \in Nat
      BY <1>1 DEF IsSequence
    <3>2. Len(bytes) >= UTCTimestampShortLength
      BY <1>4, <3>1 DEF UTCTimestampShortLength
    <3> QED BY <1>1, <3>2, DateNotSentinel
  <2>3. days = DaysOf(word) /\ dateToEpochDays(bytes) = DaysOf(word)
    BY <2>2, DaysOfWord DEF CacheInv
  <2>4. /\ dateWord' = IF days < 0 THEN dateWord ELSE word
        /\ dateDays' = IF days < 0 THEN dateDays ELSE days
        /\ read' = IF days < 0 THEN NoTime ELSE timestampMillisFromDays(bytes, days)
    BY <2>1 DEF Cached
  <2> HIDE DEF days, word, bytes
  <2>5. read' = UncachedTimestamp(bytes)
    BY <1>4, <2>3, <2>4 DEF UncachedTimestamp
  <2>6. dateWord' # NoDate => dateDays' = DaysOf(dateWord')
    BY <2>3, <2>4 DEF CacheInv
  <2>7. CacheInv'
    BY <1>1, <1>2, <2>6 DEF CacheInv
  <2> QED BY <2>5, <2>7 DEF bytes
<1> QED BY <1>3, <1>4

\* No other step touches a cache.
LEMMA OthersKeepCaches ==
    ASSUME CacheInv,
           \/ EncodeUTCDateOnly \/ EncodeUTCTimeOnly \/ Receive
           \/ getUTCDateOnly \/ getUTCTimeOnly \/ Midnight
    PROVE  CacheInv'
<1>1. UNCHANGED <<encoderDays, datePrefix, dateWord, dateDays>>
  BY DEF EncodeUTCDateOnly, EncodeUTCTimeOnly, Receive, getUTCDateOnly, getUTCTimeOnly, Midnight,
         encoderVars, decoderVars
<1>2. field'.type = "UTCTimestamp" => IsSequence(field'.value)
  <2>1. CASE EncodeUTCDateOnly \/ EncodeUTCTimeOnly
    BY <2>1 DEF EncodeUTCDateOnly, EncodeUTCTimeOnly, UTCDateOnly, UTCTimeOnly
  <2>2. CASE Receive
    <3>1. PICK f \in Foreign : field' = ForeignField(f)
      BY <2>2 DEF Receive
    <3> QED BY <3>1, ForeignSequence DEF ForeignField
  <2>3. CASE getUTCDateOnly \/ getUTCTimeOnly
    BY <2>3 DEF getUTCDateOnly, getUTCTimeOnly, NoField
  <2>4. CASE Midnight
    BY <2>4 DEF Midnight, CacheInv
  <2> QED BY <2>1, <2>2, <2>3, <2>4
<1> QED BY <1>1, <1>2 DEF CacheInv, IsSequence

LEMMA CacheKept ==
    ASSUME CacheInv, [Next]_vars
    PROVE  CacheInv'
<1>1. CASE UNCHANGED vars
  BY <1>1 DEF vars, encoderVars, decoderVars, CacheInv
<1>2. CASE Next
  BY <1>2, EncodeUncached, ReadUncached, OthersKeepCaches DEF Next
<1> QED BY <1>1, <1>2

\* Whatever is encoded and received, the encoder's cached prefix is the date of its cached
\* day, and the decoder's cached day the one its cached word stands for
\* (FieldEncoder.hpp:65-77, FieldDecoder.hpp:755-770).
THEOREM CacheInvHolds == Spec => []CacheInv
<1>1. Init => CacheInv
  BY DEF Init, CacheInv, NoDate, NoField
<1>2. ASSUME CacheInv, [Next]_vars PROVE CacheInv'
  BY <1>2, CacheKept
<1> QED BY <1>1, <1>2, PTL DEF Spec

\* Timestamps are written and read as without the caches, in sessions of any length,
\* with any times and any fields received (FieldEncoder.hpp:65-100,
\* FieldDecoder.hpp:742-775).
THEOREM CachesNeverSeen == Spec => CachesUnseen
<1> DEFINE Uncached ==
      /\ ours' /\ field'.type = "UTCTimestamp" =>
             field'.value = writeDatePrefix(time'.days) \o writeTimeOfDay(time'.ms)
      /\ field.type = "UTCTimestamp" /\ field'.type = "none" =>
             read' = UncachedTimestamp(field.value)
<1>1. ASSUME CacheInv, [Next]_vars PROVE [Uncached]_vars
  <2>1. CASE EncodeTimestamp
    <3>1. field'.type = "UTCTimestamp"
      BY <2>1 DEF EncodeTimestamp, UTCTimestamp
    <3> QED BY <1>1, <2>1, <3>1, EncodeUncached
  <2>2. CASE CachedTimestamp
    <3>1. field'.type = "none"
      BY <2>2 DEF CachedTimestamp, NoField
    <3> QED BY <1>1, <2>2, <3>1, ReadUncached
  <2>3. CASE EncodeUTCDateOnly \/ EncodeUTCTimeOnly \/ Receive
    <3>1. ~ours' \/ field'.type \in {"UTCDateOnly", "UTCTimeOnly"}
      BY <2>3 DEF EncodeUTCDateOnly, EncodeUTCTimeOnly, Receive, UTCDateOnly, UTCTimeOnly
    <3>2. ~(field.type = "UTCTimestamp" /\ field'.type = "none")
      BY <2>3, ForeignTyped
         DEF EncodeUTCDateOnly, EncodeUTCTimeOnly, Receive, UTCDateOnly, UTCTimeOnly, ForeignField
    <3> QED BY <3>1, <3>2
  <2>4. CASE getUTCDateOnly \/ getUTCTimeOnly \/ Midnight
    <3>1. field'.type = "none" /\ field.type # "UTCTimestamp"
      BY <2>4 DEF getUTCDateOnly, getUTCTimeOnly, Midnight, NoField
    <3> QED BY <3>1
  <2>5. CASE UNCHANGED vars
    BY <2>5
  <2> QED BY <1>1, <2>1, <2>2, <2>3, <2>4, <2>5 DEF Next
<1>2. [][Uncached]_vars => CachesUnseen
  BY DEF CachesUnseen
<1> HIDE DEF Uncached
<1> QED BY <1>1, <1>2, CacheInvHolds, PTL DEF Spec

-----------------------------------------------------------------------------
(***************************************************************************)
(* What the session writes.                                                *)
(***************************************************************************)
DateInv ==
    /\ start \in Starts /\ day \in Int /\ start.days \in Int /\ start.days <= day
    /\ date \in CalendarDate /\ day = DayNumber(date)
    /\ day > start.days => yesterday \in CalendarDate /\ day - 1 = DayNumber(yesterday)

StampInv == CacheInv /\ DateInv /\ StampExact

LEMMA NumberIsInt == ASSUME NEW d \in CalendarDate PROVE DayNumber(d) \in Int
<1>1. MarchYear(d) \in Nat
  BY MarchMonths
<1>2. PICK era, yoe : InEra(MarchYear(d), era, yoe)
  BY <1>1, EraYears, Zenon
<1> QED BY <1>2, MarchDaysIn, Zenon

LEMMA StampInvInit == Init => StampInv
<1> SUFFICES ASSUME Init PROVE StampInv
  OBVIOUS
<1>1. start \in Starts /\ day = start.days /\ date = start.date /\ ~ours
  BY DEF Init
<1>2. date \in CalendarDate /\ day = DayNumber(date)
  BY <1>1, SessionAssumption
<1>3. day \in Int
  BY <1>2, NumberIsInt
<1>4. DateInv
  BY <1>1, <1>2, <1>3 DEF DateInv
<1>5. StampExact
  BY <1>1 DEF StampExact
<1>6. CacheInv
  BY DEF Init, CacheInv, NoDate, NoField
<1> QED BY <1>4, <1>5, <1>6 DEF StampInv

\* The date of a day the session may write, today or yesterday.
LEMMA WrittenDays ==
    ASSUME DateInv, NEW back \in {0, 1}, day - back >= start.days
    PROVE  writeDateOnly(day - back) = WrittenDate(IF day - back = day THEN date ELSE yesterday)
<1>1. CASE back = 0
  <2>1. day - back = day /\ date \in CalendarDate /\ day = DayNumber(date)
    BY <1>1 DEF DateInv
  <2> QED BY <2>1, CodeDate
<1>2. CASE back = 1
  <2>1. day > start.days /\ day - back # day /\ day - back = day - 1
    BY <1>2 DEF DateInv
  <2>2. yesterday \in CalendarDate /\ day - 1 = DayNumber(yesterday)
    BY <2>1 DEF DateInv
  <2> QED BY <2>1, <2>2, CodeDate
<1> QED BY <1>1, <1>2

LEMMA TimesWritten == ASSUME NEW ms PROVE writeTimeOfDay(ms) = WrittenTime(Clock(ms))
<1>1. /\ Clock(ms).hours = ms \div 3600000 /\ Clock(ms).minutes = ms \div 60000 % 60
      /\ Clock(ms).seconds = ms \div 1000 % 60 /\ Clock(ms).millis = ms % 1000
  BY SMT DEF Clock
<1> QED BY <1>1, SMT DEF writeTimeOfDay, WrittenTime

LEMMA TimestampStamped ==
    ASSUME StampInv, EncodeTimestamp
    PROVE  StampExact'
<1>1. CacheInv /\ DateInv
  BY DEF StampInv
<1>2. PICK back \in {0, 1}, ms \in Moments :
        /\ day - back >= start.days
        /\ time' = [days |-> day - back, ms |-> ms]
        /\ field'.type = "UTCTimestamp"
  BY DEF EncodeTimestamp, UTCTimestamp
<1>3. field'.value = writeDatePrefix(day - back) \o writeTimeOfDay(ms)
  <2>1. time'.days = day - back /\ time'.ms = ms
    BY <1>2
  <2> QED BY <1>1, <2>1, EncodeUncached
<1>4. UNCHANGED <<day, date, yesterday>>
  BY DEF EncodeTimestamp
<1> DEFINE of == IF time'.days = day' THEN date' ELSE yesterday'
<1>5. writeDateOnly(day - back) = WrittenDate(of)
  <2>1. time'.days = day - back
    BY <1>2
  <2> QED BY <1>1, <1>2, <1>4, <2>1, WrittenDays
<1>6. field'.value = WrittenDate(of) \o <<45>> \o WrittenTime(Clock(time'.ms))
  BY <1>2, <1>3, <1>5, TimesWritten DEF writeDatePrefix
<1>7. field'.value = Written(field'.type, of, Clock(time'.ms))
  BY <1>2, <1>6 DEF Written
<1> QED BY <1>7 DEF StampExact

LEMMA DateStamped ==
    ASSUME StampInv, EncodeUTCDateOnly
    PROVE  StampExact'
<1>1. DateInv
  BY DEF StampInv
<1>2. PICK back \in {0, 1} :
        /\ day - back >= start.days
        /\ field' = UTCDateOnly(writeDateOnly(day - back))
        /\ time' = [days |-> day - back, ms |-> 0]
  BY DEF EncodeUTCDateOnly
<1>3. UNCHANGED <<day, date, yesterday>>
  BY DEF EncodeUTCDateOnly
<1> DEFINE of == IF time'.days = day' THEN date' ELSE yesterday'
<1>4. time'.days = day - back
  BY <1>2
<1>5. writeDateOnly(day - back) = WrittenDate(of)
  BY <1>1, <1>2, <1>3, <1>4, WrittenDays
<1>6. field'.type = "UTCDateOnly" /\ field'.value = WrittenDate(of)
  BY <1>2, <1>5 DEF UTCDateOnly
<1>7. field'.value = Written(field'.type, of, Clock(time'.ms))
  BY <1>6 DEF Written
<1> QED BY <1>7 DEF StampExact

LEMMA TimeStamped ==
    ASSUME EncodeUTCTimeOnly
    PROVE  StampExact'
<1>1. PICK ms \in Moments :
        /\ field' = UTCTimeOnly(writeTimeOfDay(ms))
        /\ time' = [days |-> 0, ms |-> ms]
  BY DEF EncodeUTCTimeOnly
<1> DEFINE of == IF time'.days = day' THEN date' ELSE yesterday'
<1>2. field'.type = "UTCTimeOnly" /\ field'.value = WrittenTime(Clock(time'.ms))
  BY <1>1, TimesWritten DEF UTCTimeOnly
<1>3. field'.value = Written(field'.type, of, Clock(time'.ms))
  BY <1>2 DEF Written
<1> QED BY <1>3 DEF StampExact

LEMMA StampKept ==
    ASSUME StampInv, [Next]_vars
    PROVE  StampExact'
<1>1. CASE EncodeTimestamp
  BY <1>1, TimestampStamped
<1>2. CASE EncodeUTCDateOnly
  BY <1>2, DateStamped
<1>3. CASE EncodeUTCTimeOnly
  BY <1>3, TimeStamped
<1>4. CASE Receive \/ Midnight
  BY <1>4 DEF Receive, Midnight, StampExact
<1>5. CASE CachedTimestamp \/ getUTCDateOnly \/ getUTCTimeOnly
  BY <1>5 DEF CachedTimestamp, getUTCDateOnly, getUTCTimeOnly, StampExact
<1>6. CASE UNCHANGED vars
  BY <1>6 DEF vars, StampInv, StampExact
<1> QED BY <1>1, <1>2, <1>3, <1>4, <1>5, <1>6 DEF Next

LEMMA DateKept ==
    ASSUME DateInv, [Next]_vars
    PROVE  DateInv'
<1>1. CASE Midnight
  <2>1. /\ start' = start /\ day' = day + 1 /\ yesterday' = date /\ date' = DayAfter(date)
    BY <1>1 DEF Midnight
  <2>2. date' \in CalendarDate /\ DayNumber(date') = DayNumber(date) + 1
    BY <2>1, NextDay DEF DateInv
  <2> QED BY <2>1, <2>2 DEF DateInv
<1>2. CASE UNCHANGED <<start, day, date, yesterday>>
  BY <1>2 DEF DateInv
<1>3. Midnight \/ UNCHANGED <<start, day, date, yesterday>>
  BY DEF Next, vars, EncodeTimestamp, EncodeUTCDateOnly, EncodeUTCTimeOnly, Receive,
         CachedTimestamp, getUTCDateOnly, getUTCTimeOnly
<1> QED BY <1>1, <1>2, <1>3

\* However many days a session runs and from whichever on, every time it writes is
\* written with its own date, by the calendar (FieldEncoder.hpp:65-100,
\* Conversions.hpp:662-716).
THEOREM StampsAreExact == Spec => []StampExact
<1>1. ASSUME StampInv, [Next]_vars PROVE StampInv'
  BY <1>1, StampKept, DateKept, CacheKept DEF StampInv
<1>2. StampInv => StampExact
  BY DEF StampInv
<1> QED BY StampInvInit, <1>1, <1>2, PTL DEF Spec

-----------------------------------------------------------------------------
(***************************************************************************)
(* What the session reads.  A text of digits is read as the date and time it*)
(* was written from, as far as it goes, so that every field that can be sent*)
(* is read as the time it stands for; what the session writes can be sent. *)
(***************************************************************************)
\* Where a date has its digits.
LEMMA DateBytes ==
    ASSUME NEW d, d.year \in Int, d.month \in Int, d.day \in Int
    PROVE  LET s == WrittenDate(d) IN
           /\ s \in Seq(Byte) /\ Len(s) = 8
           /\ s[1] = DigitByte(d.year, 4) /\ s[2] = DigitByte(d.year, 3)
           /\ s[3] = DigitByte(d.year, 2) /\ s[4] = DigitByte(d.year, 1)
           /\ s[5] = DigitByte(d.month, 2) /\ s[6] = DigitByte(d.month, 1)
           /\ s[7] = DigitByte(d.day, 2) /\ s[8] = DigitByte(d.day, 1)
<1> DEFINE y == Padded(d.year, 4)
           m == Padded(d.month, 2)
           n == Padded(d.day, 2)
           ym == y \o m
           s == ym \o n
<1>1. /\ y \in Seq(Byte) /\ Len(y) = 4
      /\ y[1] = DigitByte(d.year, 4) /\ y[2] = DigitByte(d.year, 3)
      /\ y[3] = DigitByte(d.year, 2) /\ y[4] = DigitByte(d.year, 1)
  BY PaddedDigits
<1>2. /\ m \in Seq(Byte) /\ Len(m) = 2
      /\ m[1] = DigitByte(d.month, 2) /\ m[2] = DigitByte(d.month, 1)
  BY PaddedDigits
<1>3. /\ n \in Seq(Byte) /\ Len(n) = 2
      /\ n[1] = DigitByte(d.day, 2) /\ n[2] = DigitByte(d.day, 1)
  BY PaddedDigits
<1>4. WrittenDate(d) = s
  BY DEF WrittenDate
<1> HIDE DEF y, m, n
<1>5. Join(ym, y, 4, m, 2)
  BY <1>1, <1>2, JoinOf, Zenon
<1> HIDE DEF ym
<1>6. /\ ym \in Seq(Byte) /\ Len(ym) = 6
      /\ ym[1] = y[1] /\ ym[2] = y[2] /\ ym[3] = y[3] /\ ym[4] = y[4]
      /\ ym[5] = m[1] /\ ym[6] = m[2]
  BY <1>5, SMT DEF Join
<1>7. Join(s, ym, 6, n, 2)
  BY <1>3, <1>6, JoinOf, Zenon
<1> HIDE DEF s
<1>8. /\ s \in Seq(Byte) /\ Len(s) = 8
      /\ s[1] = ym[1] /\ s[2] = ym[2] /\ s[3] = ym[3] /\ s[4] = ym[4]
      /\ s[5] = ym[5] /\ s[6] = ym[6] /\ s[7] = n[1] /\ s[8] = n[2]
  BY <1>7, SMT DEF Join
<1> QED BY <1>1, <1>2, <1>3, <1>4, <1>6, <1>8, Zenon

LEMMA DigitOf == \A n : /\ DigitByte(n, 1) = Zero + ((n \div 1) % 10)
                        /\ DigitByte(n, 2) = Zero + ((n \div 10) % 10)
                        /\ DigitByte(n, 3) = Zero + ((n \div 100) % 10)
                        /\ DigitByte(n, 4) = Zero + ((n \div 1000) % 10)
                        /\ DigitByte(n, 5) = Zero + ((n \div 10000) % 10)
                        /\ DigitByte(n, 6) = Zero + ((n \div 100000) % 10)
                        /\ DigitByte(n, 7) = Zero + ((n \div 1000000) % 10)
                        /\ DigitByte(n, 8) = Zero + ((n \div 10000000) % 10)
BY Weights, SMT DEF DigitByte

\* A date as a number, and what can be read as one.
Digits(y, m, d) == y \in Nat /\ m \in 0 .. 99 /\ d \in 0 .. 99 /\ y < 10000
DateNumber(y, m, d) == 10000 * y + 100 * m + d

\* n has the digits of the date.
DigitsOf(n, y, m, d) ==
    /\ n \in Nat /\ n < 10 * Weight[8]
    /\ DigitByte(n, 1) = DigitByte(d, 1) /\ DigitByte(n, 2) = DigitByte(d, 2)
    /\ DigitByte(n, 3) = DigitByte(m, 1) /\ DigitByte(n, 4) = DigitByte(m, 2)
    /\ DigitByte(n, 5) = DigitByte(y, 1) /\ DigitByte(n, 6) = DigitByte(y, 2)
    /\ DigitByte(n, 7) = DigitByte(y, 3) /\ DigitByte(n, 8) = DigitByte(y, 4)

LEMMA DateDigits ==
    ASSUME NEW y, NEW m, NEW d, Digits(y, m, d)
    PROVE  DigitsOf(DateNumber(y, m, d), y, m, d)
<1> DEFINE n == DateNumber(y, m, d)
<1>a. y \in Nat /\ m \in 0 .. 99 /\ d \in 0 .. 99 /\ y < 10000
  BY DEF Digits
<1>b. n = 10000 * y + 100 * m + d
  BY DEF DateNumber
<1> HIDE DEF n
<1>c. n \in Nat /\ n < 100000000 /\ n \in Int
  BY <1>a, <1>b, SMT
<1>d. n < 10 * Weight[8]
  BY <1>c, Weights, SMT
<1> USE <1>a, <1>b, <1>c
<1>1. n \div 10000 = y
  BY SMT
<1>2. n \div 100 = 100 * y + m
  BY SMT
<1>3. (n \div 1) % 10 = (d \div 1) % 10
  BY SMT
<1>4. (n \div 10) % 10 = (d \div 10) % 10
  <2>1. n \div 10 = 10 * (100 * y + m) + d \div 10
    BY SMT
  <2> QED BY <2>1, SMT
<1>5. (n \div 100) % 10 = (m \div 1) % 10
  BY <1>2, SMT
<1>6. (n \div 1000) % 10 = (m \div 10) % 10
  <2>1. n \div 1000 = 10 * y + m \div 10
    BY SMT
  <2> QED BY <2>1, SMT
<1>7. (n \div 10000) % 10 = (y \div 1) % 10
  BY <1>1, SMT
<1>8. (n \div 100000) % 10 = (y \div 10) % 10
  <2> DEFINE q == y \div 10
             k == 10000 * (y % 10) + 100 * m + d
  <2>1. n = 100000 * q + k /\ q \in Int /\ k \in Nat /\ k < 100000
    BY SMT
  <2> HIDE DEF q, k
  <2>2. n \div 100000 = q
    BY <2>1, SMT
  <2> QED BY <2>2, SMT DEF q
<1>9. (n \div 1000000) % 10 = (y \div 100) % 10
  <2> DEFINE q == y \div 100
             k == 10000 * (y % 100) + 100 * m + d
  <2>1. n = 1000000 * q + k /\ q \in Int /\ k \in Nat /\ k < 1000000
    BY SMT
  <2> HIDE DEF q, k
  <2>2. n \div 1000000 = q
    BY <2>1, SMT
  <2> QED BY <2>2, SMT DEF q
<1>10. (n \div 10000000) % 10 = (y \div 1000) % 10
  <2> DEFINE q == y \div 1000
             k == 10000 * (y % 1000) + 100 * m + d
  <2>1. n = 10000000 * q + k /\ q \in Int /\ k \in Nat /\ k < 10000000
    BY SMT
  <2> HIDE DEF q, k
  <2>2. n \div 10000000 = q
    BY <2>1, SMT
  <2> QED BY <2>2, SMT DEF q
<1>11. /\ DigitByte(n, 1) = DigitByte(d, 1) /\ DigitByte(n, 2) = DigitByte(d, 2)
       /\ DigitByte(n, 3) = DigitByte(m, 1) /\ DigitByte(n, 4) = DigitByte(m, 2)
       /\ DigitByte(n, 5) = DigitByte(y, 1) /\ DigitByte(n, 6) = DigitByte(y, 2)
       /\ DigitByte(n, 7) = DigitByte(y, 3) /\ DigitByte(n, 8) = DigitByte(y, 4)
  BY <1>3, <1>4, <1>5, <1>6, <1>7, <1>8, <1>9, <1>10, DigitOf, SMTT(20)
<1>12. n \in Nat
  BY <1>c
<1> HIDE <1>a, <1>b, <1>c
<1>13. DigitsOf(n, y, m, d)
  BY <1>d, <1>11, <1>12, Zenon DEF DigitsOf
<1> QED BY <1>13 DEF n

\* Two, three and eight digits in a text.
Two(p, a, n)   == p[a + 1] = DigitByte(n, 2) /\ p[a + 2] = DigitByte(n, 1)
Three(p, a, n) == p[a + 1] = DigitByte(n, 3) /\ p[a + 2] = DigitByte(n, 2) /\ p[a + 3] = DigitByte(n, 1)

LEMMA TwoRead ==
    ASSUME NEW p \in Seq(Byte), NEW a \in Nat, a + 2 <= Len(p), NEW n \in Nat, n < 10 * Weight[2], Two(p, a, n)
    PROVE  asciiToUint64(SubSeq(p, a + 1, a + 2)) = n
<1> DEFINE s == SubSeq(p, a + 1, a + 2)
<1>1. s \in Seq(Byte) /\ Len(s) = 2 /\ \A i \in 1 .. 2 : s[i] = p[a + i]
  <2>1. 2 \in Nat
    OBVIOUS
  <2> QED BY <2>1, TextSlice, Zenon
<1> HIDE DEF s
<1>2. s[1] = DigitByte(n, 2) /\ s[2] = DigitByte(n, 1)
  BY <1>1 DEF Two
<1>3. \A i \in 1 .. 2 : s[2 + 1 - i] = DigitByte(n, i)
  BY <1>2
<1>4. Spells(s, n, 2)
  BY <1>1, <1>3 DEF Spells
<1>5. n \in Nat /\ n < 10 * Weight[2] /\ 2 \in 1 .. 8
  BY Weights
<1>6. asciiToUint64(s) = n
  BY <1>4, <1>5, SpelledNumber, Zenon
<1> QED BY <1>6 DEF s

LEMMA ThreeRead ==
    ASSUME NEW p \in Seq(Byte), NEW a \in Nat, a + 3 <= Len(p), NEW n \in Nat, n < 10 * Weight[3], Three(p, a, n)
    PROVE  asciiToUint64(SubSeq(p, a + 1, a + 3)) = n
<1> DEFINE s == SubSeq(p, a + 1, a + 3)
<1>1. s \in Seq(Byte) /\ Len(s) = 3 /\ \A i \in 1 .. 3 : s[i] = p[a + i]
  <2>1. 3 \in Nat
    OBVIOUS
  <2> QED BY <2>1, TextSlice, Zenon
<1> HIDE DEF s
<1>2. s[1] = DigitByte(n, 3) /\ s[2] = DigitByte(n, 2) /\ s[3] = DigitByte(n, 1)
  BY <1>1 DEF Three
<1>3. \A i \in 1 .. 3 : s[3 + 1 - i] = DigitByte(n, i)
  BY <1>2
<1>4. Spells(s, n, 3)
  BY <1>1, <1>3 DEF Spells
<1>5. n \in Nat /\ n < 10 * Weight[3] /\ 3 \in 1 .. 8
  BY Weights
<1>6. asciiToUint64(s) = n
  BY <1>4, <1>5, SpelledNumber, Zenon
<1> QED BY <1>6 DEF s

\* A date in a text, from its first byte on.
DateAt(p, d) ==
    /\ p[1] = DigitByte(d.year, 4) /\ p[2] = DigitByte(d.year, 3)
    /\ p[3] = DigitByte(d.year, 2) /\ p[4] = DigitByte(d.year, 1)
    /\ p[5] = DigitByte(d.month, 2) /\ p[6] = DigitByte(d.month, 1)
    /\ p[7] = DigitByte(d.day, 2) /\ p[8] = DigitByte(d.day, 1)

LEMMA EightRead ==
    ASSUME NEW s \in Seq(Byte), Len(s) = 8, NEW d, Digits(d.year, d.month, d.day), DateAt(s, d)
    PROVE  asciiToUint64(s) = DateNumber(d.year, d.month, d.day)
<1>1. PICK n : n = DateNumber(d.year, d.month, d.day)
  BY Zenon
<1>2. /\ n \in Nat /\ n < 10 * Weight[8]
      /\ s[8] = DigitByte(n, 1) /\ s[7] = DigitByte(n, 2) /\ s[6] = DigitByte(n, 3)
      /\ s[5] = DigitByte(n, 4) /\ s[4] = DigitByte(n, 5) /\ s[3] = DigitByte(n, 6)
      /\ s[2] = DigitByte(n, 7) /\ s[1] = DigitByte(n, 8)
  <2>1. DigitsOf(n, d.year, d.month, d.day)
    BY <1>1, DateDigits, Zenon
  <2> QED BY <2>1, Zenon DEF DateAt, DigitsOf
<1>3. \A i \in 1 .. 8 : s[8 + 1 - i] = DigitByte(n, i)
  BY <1>2, SMT
<1>4. Spells(s, n, 8)
  BY <1>3, Zenon DEF Spells
<1>5. 8 \in 1 .. 8
  BY SMT
<1>6. asciiToUint64(s) = n
  BY <1>2, <1>4, <1>5, SpelledNumber, Zenon
<1> QED BY <1>1, <1>6, Zenon

\* A time of day in a text, behind its first a bytes, the milliseconds if there are so many.
TimeAt(p, a, c) ==
    /\ Two(p, a, c.hours) /\ Two(p, a + 3, c.minutes) /\ Two(p, a + 6, c.seconds)
    /\ Len(p) >= a + 12 => Three(p, a + 9, c.millis)
ClockFields == [hours : 0 .. 99, minutes : 0 .. 99, seconds : 0 .. 99, millis : 0 .. 999]

LEMMA TimeBytes ==
    ASSUME NEW c \in ClockFields
    PROVE  LET t == WrittenTime(c) IN t \in Seq(Byte) /\ Len(t) = 12 /\ TimeAt(t, 0, c)
<1> DEFINE h  == Padded(c.hours, 2)
           m  == Padded(c.minutes, 2)
           s  == Padded(c.seconds, 2)
           k  == Padded(c.millis, 3)
           t1 == h \o <<58>>
           t2 == t1 \o m
           t3 == t2 \o <<58>>
           t4 == t3 \o s
           t5 == t4 \o <<46>>
           t6 == t5 \o k
<1>1. WrittenTime(c) = t6
  BY DEF WrittenTime
<1>2. c.hours \in Int /\ c.minutes \in Int /\ c.seconds \in Int /\ c.millis \in Int
  BY DEF ClockFields
<1>3. /\ h \in Seq(Byte) /\ Len(h) = 2 /\ Two(h, 0, c.hours)
      /\ m \in Seq(Byte) /\ Len(m) = 2 /\ Two(m, 0, c.minutes)
      /\ s \in Seq(Byte) /\ Len(s) = 2 /\ Two(s, 0, c.seconds)
      /\ k \in Seq(Byte) /\ Len(k) = 3 /\ Three(k, 0, c.millis)
  <2>1. 0 + 1 = 1 /\ 0 + 2 = 2 /\ 0 + 3 = 3
    OBVIOUS
  <2> QED BY <1>2, <2>1, PaddedDigits, Zenon DEF Two, Three
<1>4. /\ <<58>> \in Seq(Byte) /\ Len(<<58>>) = 1 /\ <<46>> \in Seq(Byte) /\ Len(<<46>>) = 1
  <2>1. 58 \in Byte /\ 46 \in Byte
    BY DEF Byte
  <2> QED BY <2>1
<1> HIDE DEF h, m, s, k
<1>5. Join(t1, h, 2, <<58>>, 1)
  BY <1>3, <1>4, JoinOf, Zenon
<1> HIDE DEF t1
<1>6. t1 \in Seq(Byte) /\ Len(t1) = 3 /\ t1[1] = h[1] /\ t1[2] = h[2]
  BY <1>5, SMT DEF Join
<1>7. Join(t2, t1, 3, m, 2)
  BY <1>3, <1>6, JoinOf, Zenon
<1> HIDE DEF t2
<1>8. /\ t2 \in Seq(Byte) /\ Len(t2) = 5
      /\ t2[1] = h[1] /\ t2[2] = h[2] /\ t2[4] = m[1] /\ t2[5] = m[2]
  BY <1>6, <1>7, SMT DEF Join
<1>9. Join(t3, t2, 5, <<58>>, 1)
  BY <1>4, <1>8, JoinOf, Zenon
<1> HIDE DEF t3
<1>10. /\ t3 \in Seq(Byte) /\ Len(t3) = 6
       /\ t3[1] = h[1] /\ t3[2] = h[2] /\ t3[4] = m[1] /\ t3[5] = m[2]
  BY <1>8, <1>9, SMT DEF Join
<1>11. Join(t4, t3, 6, s, 2)
  BY <1>3, <1>10, JoinOf, Zenon
<1> HIDE DEF t4
<1>12. /\ t4 \in Seq(Byte) /\ Len(t4) = 8
       /\ t4[1] = h[1] /\ t4[2] = h[2] /\ t4[4] = m[1] /\ t4[5] = m[2]
       /\ t4[7] = s[1] /\ t4[8] = s[2]
  BY <1>10, <1>11, SMT DEF Join
<1>13. Join(t5, t4, 8, <<46>>, 1)
  BY <1>4, <1>12, JoinOf, Zenon
<1> HIDE DEF t5
<1>14. /\ t5 \in Seq(Byte) /\ Len(t5) = 9
       /\ t5[1] = h[1] /\ t5[2] = h[2] /\ t5[4] = m[1] /\ t5[5] = m[2]
       /\ t5[7] = s[1] /\ t5[8] = s[2]
  BY <1>12, <1>13, SMT DEF Join
<1>15. Join(t6, t5, 9, k, 3)
  BY <1>3, <1>14, JoinOf, Zenon
<1> HIDE DEF t6
<1>16. /\ t6 \in Seq(Byte) /\ Len(t6) = 12
       /\ t6[1] = h[1] /\ t6[2] = h[2] /\ t6[4] = m[1] /\ t6[5] = m[2]
       /\ t6[7] = s[1] /\ t6[8] = s[2]
       /\ t6[10] = k[1] /\ t6[11] = k[2] /\ t6[12] = k[3]
  BY <1>14, <1>15, SMT DEF Join
<1>17. TimeAt(t6, 0, c)
  <2>1. /\ 0 + 1 = 1 /\ 0 + 2 = 2 /\ 0 + 3 = 3
        /\ (0 + 3) + 1 = 4 /\ (0 + 3) + 2 = 5 /\ (0 + 6) + 1 = 7 /\ (0 + 6) + 2 = 8
        /\ (0 + 9) + 1 = 10 /\ (0 + 9) + 2 = 11 /\ (0 + 9) + 3 = 12
    OBVIOUS
  <2>2. /\ Two(t6, 0, c.hours) /\ Two(t6, 0 + 3, c.minutes) /\ Two(t6, 0 + 6, c.seconds)
        /\ Three(t6, 0 + 9, c.millis)
    BY <1>3, <1>16, <2>1, Zenon DEF Two, Three
  <2> QED BY <2>2, Zenon DEF TimeAt
<1> QED BY <1>1, <1>16, <1>17, Zenon

\* The time of day a text of eight or twelve bytes is read as.
ReadTime(c, n) ==
    IF n \notin {8, 12} \/ c.hours > 23 \/ c.minutes > 59 \/ c.seconds > 59 THEN -1
    ELSE MillisOf(IF n = 12 THEN c ELSE [c EXCEPT !.millis = 0])

LEMMA ClockTyped ==
    ASSUME NEW c \in ClockFields
    PROVE  /\ c.hours \in Nat /\ c.minutes \in Nat /\ c.seconds \in Nat /\ c.millis \in Nat
           /\ c.hours < 10 * Weight[2] /\ c.minutes < 10 * Weight[2]
           /\ c.seconds < 10 * Weight[2] /\ c.millis < 10 * Weight[3]
<1>1. /\ c.hours \in 0 .. 99 /\ c.minutes \in 0 .. 99 /\ c.seconds \in 0 .. 99
      /\ c.millis \in 0 .. 999
  BY DEF ClockFields
<1>2. \A n \in 0 .. 99 : n \in Nat /\ n < 10 * Weight[2]
  BY Weights
<1>3. \A n \in 0 .. 999 : n \in Nat /\ n < 10 * Weight[3]
  BY Weights
<1>4. c.hours \in Nat /\ c.hours < 10 * Weight[2]
  BY <1>1, <1>2
<1>5. c.minutes \in Nat /\ c.minutes < 10 * Weight[2]
  BY <1>1, <1>2
<1>6. c.seconds \in Nat /\ c.seconds < 10 * Weight[2]
  BY <1>1, <1>2
<1>7. c.millis \in Nat /\ c.millis < 10 * Weight[3]
  BY <1>1, <1>3
<1> QED BY <1>4, <1>5, <1>6, <1>7, Zenon

\* The milliseconds of a time without its own.
Whole(c) == (c.hours * 3600 + c.minutes * 60 + c.seconds) * 1000

LEMMA MillisParts ==
    ASSUME NEW c \in ClockFields
    PROVE  MillisOf(c) = Whole(c) + c.millis /\ MillisOf([c EXCEPT !.millis = 0]) = Whole(c)
<1>1. MillisOf(c) = Whole(c) + c.millis
  BY ClockTyped DEF MillisOf, Whole
<1>2. MillisOf([c EXCEPT !.millis = 0]) = Whole(c)
  <2> DEFINE z == [c EXCEPT !.millis = 0]
  <2>1. z.hours = c.hours /\ z.minutes = c.minutes /\ z.seconds = c.seconds /\ z.millis = 0
    BY DEF ClockFields
  <2> HIDE DEF z
  <2>2. MillisOf(z) = Whole(c)
    BY ClockTyped, <2>1 DEF MillisOf, Whole
  <2> QED BY <2>2 DEF z
<1> QED BY <1>1, <1>2

LEMMA TimeRead ==
    ASSUME NEW c \in ClockFields, NEW t \in Seq(Byte), Len(t) \in {8, 12} => TimeAt(t, 0, c)
    PROVE  timeOnlyToMillis(t) = ReadTime(c, Len(t))
<1>1. CASE Len(t) \notin {8, 12}
  BY <1>1 DEF timeOnlyToMillis, ReadTime, UTCTimeOnlyShortLength, UTCTimeOnlyLength
<1>2. CASE Len(t) \in {8, 12}
  <2>1. /\ c.hours \in Nat /\ c.minutes \in Nat /\ c.seconds \in Nat /\ c.millis \in Nat
        /\ c.hours < 10 * Weight[2] /\ c.minutes < 10 * Weight[2]
        /\ c.seconds < 10 * Weight[2] /\ c.millis < 10 * Weight[3]
    BY ClockTyped, Zenon
  <2>a. /\ Two(t, 0, c.hours) /\ Two(t, 3, c.minutes) /\ Two(t, 6, c.seconds)
        /\ Len(t) >= 12 => Three(t, 9, c.millis)
    <3>1. TimeAt(t, 0, c)
      BY <1>2, Zenon
    <3>2. 0 + 3 = 3 /\ 0 + 6 = 6 /\ 0 + 9 = 9 /\ 0 + 12 = 12
      OBVIOUS
    <3> QED BY <3>1, <3>2, Zenon DEF TimeAt
  <2>b. PICK n : n = Len(t)
    OBVIOUS
  <2>c. n \in {8, 12} /\ n \in Nat
    BY <1>2, <2>b
  <2>2. asciiToUint64(SubSeq(t, 1, 2)) = c.hours
    <3>1. 0 + 2 <= Len(t) /\ 0 \in Nat
      BY <2>b, <2>c
    <3>2. asciiToUint64(SubSeq(t, 0 + 1, 0 + 2)) = c.hours
      BY <2>1, <2>a, <3>1, TwoRead, Zenon
    <3> QED BY <3>2, SMT
  <2>3. asciiToUint64(SubSeq(t, 4, 5)) = c.minutes
    <3>1. 3 + 2 <= Len(t) /\ 3 \in Nat
      BY <2>b, <2>c
    <3>2. asciiToUint64(SubSeq(t, 3 + 1, 3 + 2)) = c.minutes
      BY <2>1, <2>a, <3>1, TwoRead, Zenon
    <3> QED BY <3>2, SMT
  <2>4. asciiToUint64(SubSeq(t, 7, 8)) = c.seconds
    <3>1. 6 + 2 <= Len(t) /\ 6 \in Nat
      BY <2>b, <2>c
    <3>2. asciiToUint64(SubSeq(t, 6 + 1, 6 + 2)) = c.seconds
      BY <2>1, <2>a, <3>1, TwoRead, Zenon
    <3> QED BY <3>2, SMT
  <2>5. Len(t) = 12 => asciiToUint64(SubSeq(t, 10, 12)) = c.millis
    <3> SUFFICES ASSUME Len(t) = 12 PROVE asciiToUint64(SubSeq(t, 10, 12)) = c.millis
      OBVIOUS
    <3>0. n = 12
      BY <2>b
    <3>a. Three(t, 9, c.millis)
      <4>1. 12 >= 12
        OBVIOUS
      <4> QED BY <2>a, <4>1, Zenon
    <3>1. 9 + 3 <= Len(t) /\ 9 \in Nat
      BY <2>b, <2>c, <3>0
    <3>2. asciiToUint64(SubSeq(t, 9 + 1, 9 + 3)) = c.millis
      BY <2>1, <3>a, <3>1, ThreeRead, Zenon
    <3> QED BY <3>2, SMT
  <2>6. timeOnlyToMillis(t) =
          IF c.hours > 23 \/ c.minutes > 59 \/ c.seconds > 59 THEN -1
          ELSE IF n = 8 THEN Whole(c) ELSE Whole(c) + c.millis
    <3>1. CASE n = 8
      BY <2>b, <2>2, <2>3, <2>4, <3>1
         DEF timeOnlyToMillis, UTCTimeOnlyShortLength, UTCTimeOnlyLength, Whole
    <3>2. CASE n = 12
      BY <2>b, <2>2, <2>3, <2>4, <2>5, <3>2
         DEF timeOnlyToMillis, UTCTimeOnlyShortLength, UTCTimeOnlyLength, Whole
    <3> QED BY <2>c, <3>1, <3>2
  <2>7. timeOnlyToMillis(t) = ReadTime(c, n)
    <3>1. CASE n = 8
      <4>1. n \in {8, 12} /\ n # 12
        BY <3>1
      <4> QED BY <2>6, <3>1, <4>1, MillisParts, Zenon DEF ReadTime
    <3>2. CASE n = 12
      <4>1. n \in {8, 12} /\ n # 8
        BY <3>2
      <4> QED BY <2>6, <3>2, <4>1, MillisParts, Zenon DEF ReadTime
    <3> QED BY <2>c, <3>1, <3>2
  <2> QED BY <2>7, <2>b
<1> QED BY <1>1, <1>2

LEMMA DateNumberParts ==
    ASSUME NEW y, NEW m, NEW d, Digits(y, m, d), NEW n, n = DateNumber(y, m, d)
    PROVE  n \div 10000 = y /\ (n \div 100) % 100 = m /\ n % 100 = d
<1>1. y \in Nat /\ m \in 0 .. 99 /\ d \in 0 .. 99
  BY DEF Digits
<1>2. n = 10000 * y + 100 * m + d
  BY DEF DateNumber
<1>3. n \div 10000 = y
  BY <1>1, <1>2, SMT
<1>4. n \div 100 = 100 * y + m
  BY <1>1, <1>2, SMT
<1>5. (n \div 100) % 100 = m
  BY <1>1, <1>4, SMT
<1>6. n % 100 = d
  <2>1. n = 100 * (100 * y + m) + d
    BY <1>1, <1>2, SMT
  <2> QED BY <1>1, <2>1, SMT
<1> QED BY <1>3, <1>5, <1>6

\* The days a text is read as; -1 for a month or day that is none.
CodeDaysOf(y, m, d) == IF m \in 1 .. 12 /\ d \in 1 .. 31 THEN daysSince1970(y, m, d) ELSE -1

LEMMA DateRead ==
    ASSUME NEW p \in Seq(Byte), 8 <= Len(p), NEW d, Digits(d.year, d.month, d.day), DateAt(p, d)
    PROVE  dateToEpochDays(p) = CodeDaysOf(d.year, d.month, d.day)
<1> DEFINE s == SubSeq(p, 1, 8)
           n == asciiToUint64(s)
<1>1. s \in Seq(Byte) /\ Len(s) = 8 /\ \A i \in 1 .. 8 : s[i] = p[i]
  <2>1. 0 + 8 <= Len(p) /\ 0 \in Nat /\ 8 \in Nat /\ 0 + 1 = 1 /\ 0 + 8 = 8
    OBVIOUS
  <2>2. /\ SubSeq(p, 0 + 1, 0 + 8) \in Seq(Byte) /\ Len(SubSeq(p, 0 + 1, 0 + 8)) = 8
        /\ \A i \in 1 .. 8 : SubSeq(p, 0 + 1, 0 + 8)[i] = p[0 + i]
    BY <2>1, TextSlice, Zenon
  <2> QED BY <2>2, SMT
<1>2. n = DateNumber(d.year, d.month, d.day)
  <2> HIDE DEF s
  <2>1. /\ s[1] = p[1] /\ s[2] = p[2] /\ s[3] = p[3] /\ s[4] = p[4]
        /\ s[5] = p[5] /\ s[6] = p[6] /\ s[7] = p[7] /\ s[8] = p[8]
    BY <1>1
  <2>2. DateAt(s, d)
    BY <2>1, Zenon DEF DateAt
  <2> QED BY <1>1, <2>2, EightRead, Zenon
<1>3. /\ dateToEpochDays(p) =
           IF (n \div 100) % 100 \in 1 .. 12 /\ n % 100 \in 1 .. 31
           THEN daysSince1970(n \div 10000, (n \div 100) % 100, n % 100) ELSE -1
  BY SMT DEF dateToEpochDays
<1> HIDE DEF n
<1>4. n \div 10000 = d.year /\ (n \div 100) % 100 = d.month /\ n % 100 = d.day
  BY <1>2, DateNumberParts, SMT
<1> QED BY <1>3, <1>4, SMT DEF CodeDaysOf

\* Later years have no fewer leap days before them.
LEMMA LeapsGrow ==
    ASSUME NEW a \in Nat, NEW b \in Nat, a <= b
    PROVE  LeapsUpTo(a) <= LeapsUpTo(b)
<1> DEFINE a4   == a \div 4
           a100 == a \div 100
           a400 == a \div 400
           b4   == b \div 4
           b100 == b \div 100
           b400 == b \div 400
<1>1. a4 \in Int /\ a100 \in Int /\ a400 \in Int /\ b4 \in Int /\ b100 \in Int /\ b400 \in Int
  OBVIOUS
<1>2. 25 * a100 <= a4 /\ a4 <= 25 * a100 + 24
  OBVIOUS
<1>3. 25 * b100 <= b4 /\ b4 <= 25 * b100 + 24
  OBVIOUS
<1>4. a4 <= b4
  OBVIOUS
<1>5. a100 <= b100
  OBVIOUS
<1>6. a400 <= b400
  OBVIOUS
<1>7. LeapsUpTo(a) = a4 - a100 + a400 /\ LeapsUpTo(b) = b4 - b100 + b400
  BY DEF LeapsUpTo
<1> HIDE DEF a4, a100, a400, b4, b100, b400
<1>8. a4 - a100 <= b4 - b100
  <2>1. CASE a100 = b100
    BY <1>1, <1>4, <2>1
  <2>2. CASE a100 < b100
    BY <1>1, <1>2, <1>3, <2>2
  <2> QED BY <1>1, <1>5, <2>1, <2>2
<1> QED BY <1>1, <1>6, <1>7, <1>8

LEMMA DayOfYearBounds ==
    ASSUME NEW d \in CalendarDate
    PROVE  /\ DayOfYear(d) \in 1 .. 366
           /\ ~IsLeap(d.year) => DayOfYear(d) \in 1 .. 365
<1>1. d.year \in Nat \ {0} /\ d.month \in 1 .. 12 /\ d.day \in 1 .. 31
      /\ d.day <= MonthLength(d.year, d.month)
  BY DEF CalendarDate
<1> DEFINE m == d.month
           L == IsLeap(d.year)
           b == BeforeMonth[m]
<1>2. DayOfYear(d) = b + d.day + IF m > 2 /\ L THEN 1 ELSE 0
  BY DEF DayOfYear
<1>3. MonthLength(d.year, m) = CASE m = 2 -> IF L THEN 29 ELSE 28
                                 [] m = 4 \/ m = 6 \/ m = 9 \/ m = 11 -> 30
                                 [] OTHER -> 31
  BY <1>1, MonthLengths
<1> DEFINE k == d.day
<1>4. k \in 1 .. 31 /\ k <= MonthLength(d.year, m) /\ m \in 1 .. 12
  BY <1>1
<1> HIDE DEF k, m, L, b
<1>5. b \in 0 .. 334 /\ (m <= 11 => b <= 304) /\ (m <= 2 => b <= 31)
  BY <1>4, BeforeMonths DEF b
<1>6. DayOfYear(d) = b + k + IF m > 2 /\ L THEN 1 ELSE 0
  BY <1>2 DEF k
<1> QED BY <1>4, <1>5, <1>6 DEF L

LEMMA DayNumberParts ==
    ASSUME NEW d \in CalendarDate
    PROVE  /\ d.year \in Nat \ {0} /\ LeapsUpTo(d.year - 1) \in Int
           /\ DayNumber(d) = 365 * (d.year - 1970) + LeapsUpTo(d.year - 1) - 477 + DayOfYear(d) - 1
<1>1. d.year \in Nat \ {0}
  BY DEF CalendarDate
<1>2. LeapsUpTo(d.year - 1) \in Int
  BY <1>1, LeapsType
<1>3. LeapsUpTo(1969) = 477
  <2>1. 1969 \div 4 = 492 /\ 1969 \div 100 = 19 /\ 1969 \div 400 = 4
    BY SMT
  <2> QED BY <2>1, SMT DEF LeapsUpTo
<1> QED BY <1>1, <1>2, <1>3, SMT DEF DayNumber

\* Days are counted from 1970 on.
LEMMA FromEpoch ==
    ASSUME NEW d \in CalendarDate
    PROVE  d.year >= 1970 <=> DayNumber(d) >= 0
<1> DEFINE y == d.year
           l == LeapsUpTo(y - 1)
           k == DayOfYear(d)
<1>1. y \in Nat \ {0} /\ l \in Int /\ DayNumber(d) = 365 * (y - 1970) + l - 477 + k - 1
  BY DayNumberParts
<1>2. k \in 1 .. 366 /\ (~IsLeap(y) => k \in 1 .. 365)
  BY DayOfYearBounds
<1>3. LeapsUpTo(1968) = 477 /\ LeapsUpTo(1969) = 477
  <2>1. /\ 1969 \div 4 = 492 /\ 1969 \div 100 = 19 /\ 1969 \div 400 = 4
        /\ 1968 \div 4 = 492 /\ 1968 \div 100 = 19 /\ 1968 \div 400 = 4
    BY SMT
  <2> QED BY <2>1, SMT DEF LeapsUpTo
<1>4. y >= 1970 => l >= 477
  <2>1. y >= 1970 => 1969 <= y - 1 /\ y - 1 \in Nat /\ 1969 \in Nat
    BY <1>1, SMT
  <2> QED BY <2>1, <1>3, LeapsGrow, SMT
<1>5. y <= 1969 => l <= 477
  <2>1. y <= 1969 => y - 1 <= 1968 /\ y - 1 \in Nat /\ 1968 \in Nat
    BY <1>1, SMT
  <2> QED BY <2>1, <1>3, LeapsGrow, SMT
<1>6. y = 1969 => ~IsLeap(y)
  <2>1. 1969 % 4 = 1
    BY SMT
  <2> QED BY <2>1, SMT DEF IsLeap
<1> HIDE DEF y, l, k
<1>7. y >= 1970 => DayNumber(d) >= 0
  BY <1>1, <1>2, <1>4, SMT
<1>8. y = 1969 => ~(DayNumber(d) >= 0)
  BY <1>1, <1>2, <1>5, <1>6, SMT
<1>9. y <= 1968 => ~(DayNumber(d) >= 0)
  BY <1>1, <1>2, <1>5, SMT
<1>10. y >= 1970 \/ y = 1969 \/ y <= 1968
  BY <1>1, SMT
<1> QED BY <1>1, <1>7, <1>8, <1>9, <1>10, SMT DEF y

LEMMA LastSpelledDate ==
    /\ Date(9999, 12, 31) \in CalendarDate
    /\ Date(9999, 12, 31).year = 9999 /\ DayOfYear(Date(9999, 12, 31)) = 365
<1> DEFINE d == Date(9999, 12, 31)
<1>1. d.year = 9999 /\ d.month = 12 /\ d.day = 31
  BY SMT DEF Date
<1>2. MonthLength(9999, 12) = 31
  BY MonthLengths, SMT
<1>3. d \in [year : Nat \ {0}, month : 1 .. 12, day : 1 .. 31]
  BY SMT DEF Date
<1>4. ~IsLeap(9999)
  <2>1. 9999 % 4 = 3
    BY SMT
  <2> QED BY <2>1, SMT DEF IsLeap
<1> HIDE DEF d
<1>5. d \in CalendarDate
  BY <1>1, <1>2, <1>3, SMT DEF CalendarDate
<1>6. DayOfYear(d) = 365
  BY <1>1, <1>4, BeforeMonths, SMT DEF DayOfYear
<1> QED BY <1>1, <1>5, <1>6 DEF d

LEMMA FourDigits ==
    ASSUME NEW d \in CalendarDate, DayNumber(d) <= DayNumber(Date(9999, 12, 31))
    PROVE  d.year < 10000
<1> DEFINE y == d.year
           l == LeapsUpTo(y - 1)
           k == DayOfYear(d)
           last == LeapsUpTo(9999 - 1)
<1>1. y \in Nat \ {0} /\ l \in Int /\ DayNumber(d) = 365 * (y - 1970) + l - 477 + k - 1
  BY DayNumberParts
<1>2. k \in 1 .. 366
  BY DayOfYearBounds
<1>3. last \in Int /\ DayNumber(Date(9999, 12, 31)) = 365 * (9999 - 1970) + last - 477 + 365 - 1
  BY LastSpelledDate, DayNumberParts, SMT
<1>4. y >= 10000 => last <= l
  <2>1. y >= 10000 => 9999 - 1 <= y - 1 /\ y - 1 \in Nat /\ 9999 - 1 \in Nat
    BY <1>1, SMT
  <2> QED BY <2>1, LeapsGrow, SMT
<1> HIDE DEF y, l, k, last
<1>5. ~(y >= 10000)
  BY <1>1, <1>2, <1>3, <1>4, SMT
<1> QED BY <1>1, <1>5, SMT DEF y

\* A date that can be sent is read as the day it is, or as none.
SendableDate(d) ==
    /\ d \in [year : Nat \ {0}, month : 0 .. 99, day : 0 .. 99] /\ d.year < 10000
    /\ d.month \in 1 .. 12 /\ d.day \in 1 .. 31 => d \in CalendarDate

LEMMA SentDays ==
    ASSUME NEW d, SendableDate(d)
    PROVE  CodeDaysOf(d.year, d.month, d.day) = IF d \in CalendarDate THEN DayNumber(d) ELSE -1
<1>1. CASE d \in CalendarDate
  <2>1. d.month \in 1 .. 12 /\ d.day \in 1 .. 31
    BY <1>1 DEF CalendarDate
  <2> QED BY <1>1, <2>1, CodeDays, Zenon DEF CodeDaysOf
<1>2. CASE d \notin CalendarDate
  <2>1. ~(d.month \in 1 .. 12 /\ d.day \in 1 .. 31)
    BY <1>2 DEF SendableDate
  <2> QED BY <1>2, <2>1, Zenon DEF CodeDaysOf
<1> QED BY <1>1, <1>2

LEMMA DateText ==
    ASSUME NEW d, SendableDate(d)
    PROVE  /\ WrittenDate(d) \in Seq(Byte) /\ Len(WrittenDate(d)) = 8 /\ DateAt(WrittenDate(d), d)
           /\ Digits(d.year, d.month, d.day)
<1>1. /\ d.year \in Nat /\ d.month \in 0 .. 99 /\ d.day \in 0 .. 99 /\ d.year < 10000
  BY DEF SendableDate
<1>2. d.year \in Int /\ d.month \in Int /\ d.day \in Int
  BY <1>1
<1>3. Digits(d.year, d.month, d.day)
  BY <1>1, SMT DEF Digits
<1> HIDE <1>1
<1> QED BY <1>2, <1>3, DateBytes, Zenon DEF DateAt

LEMMA TimestampText ==
    ASSUME NEW d, SendableDate(d), NEW c \in ClockFields
    PROVE  LET t == WrittenDate(d) \o <<45>> \o WrittenTime(c) IN
           t \in Seq(Byte) /\ Len(t) = 21 /\ DateAt(t, d) /\ TimeAt(t, 9, c)
<1> DEFINE w == WrittenDate(d)
           k == WrittenTime(c)
           u == w \o <<45>>
           t == u \o k
<1>1. w \in Seq(Byte) /\ Len(w) = 8 /\ DateAt(w, d)
  BY DateText, Zenon
<1>2. k \in Seq(Byte) /\ Len(k) = 12 /\ TimeAt(k, 0, c)
  BY TimeBytes, Zenon
<1>3. <<45>> \in Seq(Byte) /\ Len(<<45>>) = 1
  <2>1. 45 \in Byte
    BY DEF Byte
  <2> QED BY <2>1
<1> HIDE DEF w, k
<1>4. Join(u, w, 8, <<45>>, 1)
  BY <1>1, <1>3, JoinOf, Zenon
<1> HIDE DEF u
<1>5. /\ u \in Seq(Byte) /\ Len(u) = 9
      /\ u[1] = w[1] /\ u[2] = w[2] /\ u[3] = w[3] /\ u[4] = w[4]
      /\ u[5] = w[5] /\ u[6] = w[6] /\ u[7] = w[7] /\ u[8] = w[8]
  BY <1>4, SMT DEF Join
<1>6. Join(t, u, 9, k, 12)
  BY <1>2, <1>5, JoinOf, Zenon
<1> HIDE DEF t
<1>7. /\ t \in Seq(Byte) /\ Len(t) = 21
      /\ t[1] = u[1] /\ t[2] = u[2] /\ t[3] = u[3] /\ t[4] = u[4]
      /\ t[5] = u[5] /\ t[6] = u[6] /\ t[7] = u[7] /\ t[8] = u[8]
      /\ t[9 + 1] = k[1] /\ t[9 + 2] = k[2] /\ t[9 + 4] = k[4] /\ t[9 + 5] = k[5]
      /\ t[9 + 7] = k[7] /\ t[9 + 8] = k[8]
      /\ t[9 + 10] = k[10] /\ t[9 + 11] = k[11] /\ t[9 + 12] = k[12]
  BY <1>6, SMT DEF Join
<1>8. DateAt(t, d)
  BY <1>1, <1>5, <1>7, Zenon DEF DateAt
<1>9. TimeAt(t, 9, c)
  <2>1. /\ Two(k, 0, c.hours) /\ Two(k, 0 + 3, c.minutes) /\ Two(k, 0 + 6, c.seconds)
        /\ Three(k, 0 + 9, c.millis)
    <3>1. Len(k) >= 0 + 12
      BY <1>2
    <3> QED BY <1>2, <3>1, Zenon DEF TimeAt
  <2>2. /\ 0 + 1 = 1 /\ 0 + 2 = 2
        /\ (0 + 3) + 1 = 4 /\ (0 + 3) + 2 = 5 /\ (0 + 6) + 1 = 7 /\ (0 + 6) + 2 = 8
        /\ (0 + 9) + 1 = 10 /\ (0 + 9) + 2 = 11 /\ (0 + 9) + 3 = 12
    OBVIOUS
  <2>3. /\ (9 + 3) + 1 = 9 + 4 /\ (9 + 3) + 2 = 9 + 5 /\ (9 + 6) + 1 = 9 + 7 /\ (9 + 6) + 2 = 9 + 8
        /\ (9 + 9) + 1 = 9 + 10 /\ (9 + 9) + 2 = 9 + 11 /\ (9 + 9) + 3 = 9 + 12
    OBVIOUS
  <2>4. /\ Two(t, 9, c.hours) /\ Two(t, 9 + 3, c.minutes) /\ Two(t, 9 + 6, c.seconds)
        /\ Three(t, 9 + 9, c.millis)
    BY <1>7, <2>1, <2>2, <2>3, Zenon DEF Two, Three
  <2> QED BY <2>4, Zenon DEF TimeAt
<1> QED BY <1>7, <1>8, <1>9 DEF t, u, w, k

\* A text cut behind its date, or behind its time with or without milliseconds.
LEMMA CutDate ==
    ASSUME NEW t, NEW p, NEW d, NEW n \in Nat, DateAt(t, d), 8 <= n,
           \A i \in 1 .. n : p[i] = t[i]
    PROVE  DateAt(p, d)
<1>1. /\ p[1] = t[1] /\ p[2] = t[2] /\ p[3] = t[3] /\ p[4] = t[4]
      /\ p[5] = t[5] /\ p[6] = t[6] /\ p[7] = t[7] /\ p[8] = t[8]
  OBVIOUS
<1> QED BY <1>1, Zenon DEF DateAt

\* p is a text from its byte a + 1 to its byte a + n, and t that text.
FullTime(t, a, c) == TimeAt(t, a, c) /\ Len(t) >= a + 12
OfLength(p, n)    == Len(p) = n
EndsTime(n, b)    == n \in {b + 8, b + 12}
CopiesTime(p, b, n, t, a) == \A i \in 1 .. 12 : b + i <= n => p[b + i] = t[a + i]

LEMMA CutTime ==
    ASSUME NEW t, NEW p, NEW a \in Nat, NEW c, NEW b \in Nat, FullTime(t, a, c),
           NEW n, EndsTime(n, b), OfLength(p, n), CopiesTime(p, b, n, t, a)
    PROVE  TimeAt(p, b, c)
<1>a. n \in {b + 8, b + 12} /\ \A i \in 1 .. 12 : b + i <= n => p[b + i] = t[a + i]
  BY DEF EndsTime, CopiesTime
<1>1. /\ p[b + 1] = t[a + 1] /\ p[b + 2] = t[a + 2] /\ p[b + 4] = t[a + 4]
      /\ p[b + 5] = t[a + 5] /\ p[b + 7] = t[a + 7] /\ p[b + 8] = t[a + 8]
  <2>1. \A i \in 1 .. 8 : p[b + i] = t[a + i]
    <3>1. ASSUME NEW i \in 1 .. 8 PROVE p[b + i] = t[a + i]
      <4>1. i \in 1 .. 12 /\ b + i <= n
        BY <1>a
      <4> QED BY <1>a, <4>1, Zenon
    <3> QED BY <3>1
  <2>2. /\ 1 \in 1 .. 8 /\ 2 \in 1 .. 8 /\ 4 \in 1 .. 8 /\ 5 \in 1 .. 8 /\ 7 \in 1 .. 8
        /\ 8 \in 1 .. 8
    OBVIOUS
  <2> QED BY <2>1, <2>2, Zenon
<1>2. n >= b + 12 =>
        /\ p[b + 10] = t[a + 10] /\ p[b + 11] = t[a + 11] /\ p[b + 12] = t[a + 12]
  BY <1>a
<1>3. /\ Two(t, a, c.hours) /\ Two(t, a + 3, c.minutes) /\ Two(t, a + 6, c.seconds)
      /\ Three(t, a + 9, c.millis)
  BY Zenon DEF FullTime, TimeAt
<1>4. \A x \in Nat : /\ (x + 3) + 1 = x + 4 /\ (x + 3) + 2 = x + 5
                     /\ (x + 6) + 1 = x + 7 /\ (x + 6) + 2 = x + 8
                     /\ (x + 9) + 1 = x + 10 /\ (x + 9) + 2 = x + 11 /\ (x + 9) + 3 = x + 12
  OBVIOUS
<1>5. Two(p, b, c.hours) /\ Two(p, b + 3, c.minutes) /\ Two(p, b + 6, c.seconds)
  BY <1>1, <1>3, <1>4, Zenon DEF Two
<1>6. n >= b + 12 => Three(p, b + 9, c.millis)
  BY <1>2, <1>3, <1>4, Zenon DEF Three
<1> QED BY <1>5, <1>6, Zenon DEF TimeAt, OfLength

LEMMA SentParts ==
    ASSUME NEW f, Sendable(f)
    PROVE  /\ SendableDate(f.date) /\ f.clock \in ClockFields
           /\ f.type \in {"UTCTimestamp", "UTCDateOnly", "UTCTimeOnly"}
           /\ f.length \in 0 .. Len(Written(f.type, f.date, f.clock))
<1>1. SendableDate(f.date)
  BY SMT DEF Sendable, SendableDate
<1>2. f.clock \in ClockFields
  BY SMT DEF Sendable, ClockFields
<1>3. f.type \in {"UTCTimestamp", "UTCDateOnly", "UTCTimeOnly"}
  BY SMT DEF Sendable
<1>4. f.length \in 0 .. Len(Written(f.type, f.date, f.clock))
  BY SMT DEF Sendable
<1> QED BY <1>1, <1>2, <1>3, <1>4

Dated(d) == d \in CalendarDate /\ d.year >= 1970
Timed(c) == c.hours <= 23 /\ c.minutes <= 59 /\ c.seconds <= 59
Shown(c, whole) == MillisOf(IF whole THEN c ELSE [c EXCEPT !.millis = 0])

LEMMA ForeignTimes ==
    ASSUME NEW f
    PROVE  /\ f.type = "UTCTimestamp" =>
                ForeignTime(f) =
                    IF f.length \notin {17, 21} \/ ~Dated(f.date) \/ ~Timed(f.clock) THEN NoTime
                    ELSE [days |-> DayNumber(f.date), ms |-> Shown(f.clock, f.length = 21)]
           /\ f.type = "UTCDateOnly" =>
                ForeignTime(f) =
                    IF f.length # 8 \/ ~Dated(f.date) THEN NoTime
                    ELSE [days |-> DayNumber(f.date), ms |-> 0]
           /\ f.type = "UTCTimeOnly" =>
                ForeignTime(f) =
                    IF f.length \notin {8, 12} \/ ~Timed(f.clock) THEN NoTime
                    ELSE [days |-> 0, ms |-> Shown(f.clock, f.length = 12)]
BY DEF ForeignTime, Dated, Timed, Shown

LEMMA TimesKnown ==
    ASSUME NEW c \in ClockFields, NEW n
    PROVE  /\ ReadTime(c, n) = IF n \notin {8, 12} \/ ~Timed(c) THEN -1 ELSE Shown(c, n = 12)
           /\ Shown(c, n = 12) \in Nat
<1>1. c.hours \in Nat /\ c.minutes \in Nat /\ c.seconds \in Nat /\ c.millis \in Nat
  BY ClockTyped, Zenon
<1>2. c.hours > 23 \/ c.minutes > 59 \/ c.seconds > 59 <=> ~Timed(c)
  BY <1>1 DEF Timed
<1>3. ReadTime(c, n) = IF n \notin {8, 12} \/ ~Timed(c) THEN -1 ELSE Shown(c, n = 12)
  BY <1>2, Zenon DEF ReadTime, Shown
<1>4. Whole(c) + c.millis \in Nat /\ Whole(c) \in Nat
  BY <1>1 DEF Whole
<1>5. Shown(c, n = 12) \in Nat
  BY <1>4, MillisParts, Zenon DEF Shown
<1> QED BY <1>3, <1>5

LEMMA DaysKnown ==
    ASSUME NEW p \in Seq(Byte), 8 <= Len(p), NEW d, SendableDate(d), DateAt(p, d)
    PROVE  /\ dateToEpochDays(p) < 0 <=> ~Dated(d)
           /\ Dated(d) => dateToEpochDays(p) = DayNumber(d)
<1>1. dateToEpochDays(p) = IF d \in CalendarDate THEN DayNumber(d) ELSE -1
  <2>1. Digits(d.year, d.month, d.day)
    BY DateText, Zenon
  <2> QED BY <2>1, DateRead, SentDays, Zenon
<1>2. CASE d \in CalendarDate
  <2>1. DayNumber(d) \in Int /\ (d.year >= 1970 <=> DayNumber(d) >= 0)
    BY <1>2, NumberIsInt, FromEpoch
  <2>2. d.year >= 1970 <=> ~(DayNumber(d) < 0)
    BY <2>1
  <2> QED BY <1>1, <1>2, <2>2, SMT DEF Dated
<1>3. CASE d \notin CalendarDate
  <2>1. dateToEpochDays(p) = -1 /\ -1 < 0
    BY <1>1, <1>3
  <2> QED BY <1>3, <2>1, SMT DEF Dated
<1> QED BY <1>2, <1>3

LEMMA TimestampRead ==
    ASSUME NEW f, Sendable(f), f.type = "UTCTimestamp"
    PROVE  UncachedTimestamp(ForeignField(f).value) = ForeignTime(f)
<1> DEFINE d    == f.date
           c    == f.clock
           n    == f.length
           text == WrittenDate(d) \o <<45>> \o WrittenTime(c)
           p    == SubSeq(text, 1, n)
           rest == SubSeq(p, 10, Len(p))
<1>1. ForeignField(f).value = p
  BY DEF ForeignField, Written
<1>2. ForeignTime(f) = IF n \notin {17, 21} \/ ~Dated(d) \/ ~Timed(c) THEN NoTime
                       ELSE [days |-> DayNumber(d), ms |-> Shown(c, n = 21)]
  BY ForeignTimes, Zenon
<1>3. SendableDate(d) /\ c \in ClockFields /\ n \in 0 .. Len(text)
  BY SentParts, Zenon DEF Written
<1> HIDE DEF d, c, n
<1>4. text \in Seq(Byte) /\ Len(text) = 21 /\ DateAt(text, d) /\ TimeAt(text, 9, c)
  BY <1>3, TimestampText, Zenon
<1> HIDE DEF text
<1>5. p \in Seq(Byte) /\ Len(p) = n /\ \A i \in 1 .. n : p[i] = text[i]
  BY <1>3, <1>4, CutText, Zenon
<1>6. n \in 0 .. 21
  BY <1>3, <1>4
<1> HIDE DEF p
<1>7. CASE n < 17
  <2>1. n \notin {17, 21}
    BY <1>7, <1>6
  <2>2. UncachedTimestamp(p) = NoTime
    BY <1>5, <1>7, Zenon DEF UncachedTimestamp, UTCTimestampShortLength
  <2> QED BY <1>1, <1>2, <2>1, <2>2, Zenon
<1>8. CASE n >= 17
  <2>1. 8 <= n /\ n \in Nat /\ ~(n < 17)
    BY <1>6, <1>8
  <2>2. DateAt(p, d)
    BY <1>4, <1>5, <2>1, CutDate, Zenon
  <2>3. /\ dateToEpochDays(p) < 0 <=> ~Dated(d)
        /\ Dated(d) => dateToEpochDays(p) = DayNumber(d)
    BY <1>3, <1>5, <2>1, <2>2, DaysKnown, Zenon
  <2>4. rest \in Seq(Byte) /\ Len(rest) = n - 9 /\ \A i \in 1 .. n - 9 : rest[i] = p[9 + i]
    <3>1. 9 \in Nat /\ n - 9 \in Nat /\ 9 + (n - 9) <= Len(p) /\ 9 + 1 = 10 /\ 9 + (n - 9) = n
      BY <1>5, <2>1, <1>8
    <3>2. LET r == SubSeq(p, 9 + 1, 9 + (n - 9)) IN
          r \in Seq(Byte) /\ Len(r) = n - 9 /\ \A i \in 1 .. n - 9 : r[i] = p[9 + i]
      BY <1>5, <3>1, TextSlice, Zenon
    <3> QED BY <1>5, <3>1, <3>2, Zenon
  <2> HIDE DEF rest
  <2>5. n \in {17, 21} => TimeAt(rest, 0, c)
    <3> SUFFICES ASSUME n \in {17, 21} PROVE TimeAt(rest, 0, c)
      OBVIOUS
    <3>1. FullTime(text, 9, c)
      BY <1>4 DEF FullTime
    <3>2. OfLength(rest, n - 9)
      BY <2>4 DEF OfLength
    <3>3. EndsTime(n - 9, 0)
      BY DEF EndsTime
    <3>4. CopiesTime(rest, 0, n - 9, text, 9)
      <4> SUFFICES ASSUME NEW i \in 1 .. 12, 0 + i <= n - 9 PROVE rest[0 + i] = text[9 + i]
        BY DEF CopiesTime
      <4>1. i \in 1 .. n - 9 /\ 9 + i \in 1 .. n /\ 0 + i = i
        OBVIOUS
      <4> QED BY <1>5, <2>4, <4>1, Zenon
    <3>5. 9 \in Nat /\ 0 \in Nat
      OBVIOUS
    <3> QED BY <3>1, <3>2, <3>3, <3>4, <3>5, CutTime, Zenon
  <2>6. n - 9 \in {8, 12} <=> n \in {17, 21}
    BY <1>6
  <2>7. timeOnlyToMillis(rest) = ReadTime(c, n - 9)
    <3>1. Len(rest) \in {8, 12} => TimeAt(rest, 0, c)
      BY <2>4, <2>5, <2>6, Zenon
    <3> QED BY <1>3, <2>4, <3>1, TimeRead, Zenon
  <2>8. n - 9 = 12 <=> n = 21
    BY <1>6
  <2>9. /\ timeOnlyToMillis(rest) =
            IF n \notin {17, 21} \/ ~Timed(c) THEN -1 ELSE Shown(c, n = 21)
        /\ Shown(c, n = 21) \in Nat
    BY <1>3, <2>6, <2>7, <2>8, TimesKnown, Zenon
  <2>10. UncachedTimestamp(p) =
           IF ~Dated(d) THEN NoTime
           ELSE IF timeOnlyToMillis(rest) < 0 THEN NoTime
           ELSE [days |-> DayNumber(d), ms |-> timeOnlyToMillis(rest)]
    BY <1>5, <2>1, <2>3, Zenon
       DEF UncachedTimestamp, timestampMillisFromDays, UTCTimestampShortLength, rest
  <2>11. -1 < 0 /\ ~(Shown(c, n = 21) < 0)
    BY <2>9
  <2> QED BY <1>1, <1>2, <2>9, <2>10, <2>11, Zenon
<1>9. n < 17 \/ n >= 17
  BY <1>6
<1> QED BY <1>7, <1>8, <1>9

LEMMA DateOnlyRead ==
    ASSUME NEW f, Sendable(f), f.type = "UTCDateOnly"
    PROVE  dateOnlyToEpochUTC(ForeignField(f).value) = ForeignTime(f)
<1> DEFINE d    == f.date
           n    == f.length
           text == WrittenDate(d)
           p    == SubSeq(text, 1, n)
<1>1. ForeignField(f).value = p
  BY DEF ForeignField, Written
<1>2. ForeignTime(f) = IF n # 8 \/ ~Dated(d) THEN NoTime ELSE [days |-> DayNumber(d), ms |-> 0]
  BY ForeignTimes, Zenon
<1>3. SendableDate(d) /\ n \in 0 .. Len(text)
  BY SentParts, Zenon DEF Written
<1> HIDE DEF d, n
<1>4. text \in Seq(Byte) /\ Len(text) = 8 /\ DateAt(text, d)
  BY <1>3, DateText, Zenon
<1> HIDE DEF text
<1>5. p \in Seq(Byte) /\ Len(p) = n /\ \A i \in 1 .. n : p[i] = text[i]
  BY <1>3, <1>4, CutText, Zenon
<1> HIDE DEF p
<1>6. CASE n # 8
  <2>1. dateOnlyToEpochUTC(p) = NoTime
    BY <1>5, <1>6, Zenon DEF dateOnlyToEpochUTC, UTCDateOnlyLength
  <2> QED BY <1>1, <1>2, <1>6, <2>1, Zenon
<1>7. CASE n = 8
  <2>1. 8 <= n /\ n \in Nat
    BY <1>7
  <2>2. DateAt(p, d)
    BY <1>4, <1>5, <2>1, CutDate, Zenon
  <2>3. /\ dateToEpochDays(p) < 0 <=> ~Dated(d)
        /\ Dated(d) => dateToEpochDays(p) = DayNumber(d)
    BY <1>3, <1>5, <2>1, <2>2, DaysKnown, Zenon
  <2>4. dateOnlyToEpochUTC(p) = IF dateToEpochDays(p) < 0 THEN NoTime
                                ELSE [days |-> dateToEpochDays(p), ms |-> 0]
    BY <1>5, <1>7, Zenon DEF dateOnlyToEpochUTC, UTCDateOnlyLength
  <2> QED BY <1>1, <1>2, <1>7, <2>3, <2>4, Zenon
<1> QED BY <1>6, <1>7

LEMMA TimeOnlyRead ==
    ASSUME NEW f, Sendable(f), f.type = "UTCTimeOnly", NEW ms,
           ms = timeOnlyToMillis(ForeignField(f).value)
    PROVE  (IF ms < 0 THEN NoTime ELSE [days |-> 0, ms |-> ms]) = ForeignTime(f)
<1> DEFINE c    == f.clock
           n    == f.length
           text == WrittenTime(c)
           p    == SubSeq(text, 1, n)
<1>1. ForeignField(f).value = p
  BY DEF ForeignField, Written
<1>2. ForeignTime(f) = IF n \notin {8, 12} \/ ~Timed(c) THEN NoTime
                       ELSE [days |-> 0, ms |-> Shown(c, n = 12)]
  BY ForeignTimes, Zenon
<1>3. c \in ClockFields /\ n \in 0 .. Len(text)
  BY SentParts, Zenon DEF Written
<1> HIDE DEF c, n
<1>4. text \in Seq(Byte) /\ Len(text) = 12 /\ TimeAt(text, 0, c)
  BY <1>3, TimeBytes, Zenon
<1> HIDE DEF text
<1>5. p \in Seq(Byte) /\ Len(p) = n /\ \A i \in 1 .. n : p[i] = text[i]
  BY <1>3, <1>4, CutText, Zenon
<1>6. n \in 0 .. 12
  BY <1>3, <1>4
<1> HIDE DEF p
<1>7. Len(p) \in {8, 12} => TimeAt(p, 0, c)
  <2> SUFFICES ASSUME n \in {8, 12} PROVE TimeAt(p, 0, c)
    BY <1>5
  <2>1. FullTime(text, 0, c)
    BY <1>4 DEF FullTime
  <2>2. OfLength(p, n)
    BY <1>5 DEF OfLength
  <2>3. EndsTime(n, 0)
    BY DEF EndsTime
  <2>4. CopiesTime(p, 0, n, text, 0)
    <3> SUFFICES ASSUME NEW i \in 1 .. 12, 0 + i <= n PROVE p[0 + i] = text[0 + i]
      BY DEF CopiesTime
    <3>1. i \in 1 .. n /\ 0 + i = i
      BY <1>6
    <3> QED BY <1>5, <3>1, Zenon
  <2>5. 0 \in Nat
    OBVIOUS
  <2> QED BY <2>1, <2>2, <2>3, <2>4, <2>5, CutTime, Zenon
<1>8. timeOnlyToMillis(p) = ReadTime(c, n)
  BY <1>3, <1>5, <1>7, TimeRead, Zenon
<1>9. /\ ms = IF n \notin {8, 12} \/ ~Timed(c) THEN -1 ELSE Shown(c, n = 12)
      /\ Shown(c, n = 12) \in Nat
  BY <1>1, <1>3, <1>8, TimesKnown, Zenon
<1>10. -1 < 0 /\ ~(Shown(c, n = 12) < 0)
  BY <1>9
<1> QED BY <1>2, <1>9, <1>10, Zenon

LEMMA WholeMinutes ==
    ASSUME NEW ms \in Nat, NEW q \in Nat, NEW r \in Nat, r < 1000, ms = 1000 * q + r,
           NEW x \in Nat, NEW y \in 0 .. 59, q = 60 * x + y
    PROVE  ms \div 60000 = x
<1> DEFINE z == 1000 * y + r
<1>1. ms = 60000 * x + z /\ z \in Nat /\ z < 60000
  BY SMT
<1> HIDE DEF z
<1> QED BY <1>1, SMT

LEMMA WholeHours ==
    ASSUME NEW ms \in Nat, NEW q \in Nat, NEW r \in Nat, r < 60000, ms = 60000 * q + r,
           NEW x \in Nat, NEW y \in 0 .. 59, q = 60 * x + y
    PROVE  ms \div 3600000 = x
<1> DEFINE z == 60000 * y + r
<1>1. ms = 3600000 * x + z /\ z \in Nat /\ z < 3600000
  BY SMT
<1> HIDE DEF z
<1> QED BY <1>1, SMT

\* What the session writes can be sent, and stands for the time it was written for.
LEMMA ClockExact ==
    ASSUME NEW ms \in Nat, ms < MillisPerDay
    PROVE  Clock(ms) \in ClockFields /\ Timed(Clock(ms)) /\ MillisOf(Clock(ms)) = ms
<1> DEFINE h == ms \div 3600000
           m == (ms \div 60000) % 60
           s == (ms \div 1000) % 60
           k == ms % 1000
<1>1. h \in 0 .. 23 /\ m \in 0 .. 59 /\ s \in 0 .. 59 /\ k \in 0 .. 999
  BY SMT DEF MillisPerDay
<1>2. ms = 1000 * (ms \div 1000) + k
  BY SMT
<1>3. ms \div 1000 = 60 * (ms \div 60000) + s
  <2>1. PICK q : q = ms \div 1000
    BY SMT
  <2>2. q \in Nat /\ k \in Nat /\ k < 1000 /\ ms = 1000 * q + k /\ s = q % 60
    BY <1>1, <1>2, <2>1, SMT
  <2>3. PICK x, y : x = q \div 60 /\ y = q % 60
    BY SMT
  <2>4. x \in Nat /\ y \in 0 .. 59 /\ q = 60 * x + y
    BY <2>2, <2>3, SMT
  <2> HIDE DEF h, m, s, k
  <2>5. ms \div 60000 = x
    BY <2>2, <2>4, WholeMinutes, SMT
  <2> QED BY <2>1, <2>2, <2>3, <2>4, <2>5, SMT
<1>4. ms \div 60000 = 60 * h + m
  <2>1. PICK q, r : q = ms \div 60000 /\ r = ms % 60000
    BY SMT
  <2>2. q \in Nat /\ r \in Nat /\ r < 60000 /\ ms = 60000 * q + r /\ m = q % 60
    BY <2>1, SMT
  <2>3. PICK x, y : x = q \div 60 /\ y = q % 60
    BY SMT
  <2>4. x \in Nat /\ y \in 0 .. 59 /\ q = 60 * x + y
    BY <2>2, <2>3, SMT
  <2> HIDE DEF m
  <2>5. h = x
    BY <2>2, <2>4, WholeHours, SMT
  <2> HIDE DEF h
  <2> QED BY <2>1, <2>2, <2>3, <2>4, <2>5, SMT
<1> DEFINE c == Clock(ms)
<1>5. /\ c = [hours |-> h, minutes |-> m, seconds |-> s, millis |-> k]
      /\ c.hours = h /\ c.minutes = m /\ c.seconds = s /\ c.millis = k
  BY SMT DEF Clock
<1>6. c \in ClockFields
  <2> HIDE DEF h, m, s, k, c
  <2> QED BY <1>1, <1>5, SMT DEF ClockFields
<1>7. Timed(c)
  <2> HIDE DEF h, m, s, k, c
  <2> QED BY <1>1, <1>5, SMT DEF Timed
<1> DEFINE a == ms \div 1000
           b == ms \div 60000
<1>8. a \in Int /\ b \in Int
  BY SMT
<1>9. MillisOf(c) = ms
  <2> HIDE DEF h, m, s, k, c, a, b
  <2>1. ms = 1000 * a + k /\ a = 60 * b + s /\ b = 60 * h + m
    BY <1>2, <1>3, <1>4 DEF a, b
  <2> QED BY <1>1, <1>5, <1>8, <2>1, SMT DEF MillisOf
<1> QED BY <1>6, <1>7, <1>9

-----------------------------------------------------------------------------
\* What an object without caches makes of a field.
ReadAlone(f) ==
    CASE f.type = "UTCTimestamp" -> UncachedTimestamp(f.value)
      [] f.type = "UTCDateOnly"  -> dateOnlyToEpochUTC(f.value)
      [] f.type = "UTCTimeOnly"  ->
            LET ms == timeOnlyToMillis(f.value)
            IN  IF ms < 0 THEN NoTime ELSE [days |-> 0, ms |-> ms]

SpanInv ==
    /\ start \in Starts /\ day <= start.days + Walk
FieldInv ==
    field # NoField =>
        /\ field.type \in {"UTCTimestamp", "UTCDateOnly", "UTCTimeOnly"}
        /\ ReadAlone(field) = time
ReadInv == StampInv /\ SpanInv /\ FieldInv /\ ReadExact

LEMMA SentRead ==
    ASSUME NEW f, Sendable(f)
    PROVE  /\ ReadAlone(ForeignField(f)) = ForeignTime(f)
           /\ ForeignField(f).type \in {"UTCTimestamp", "UTCDateOnly", "UTCTimeOnly"}
<1>1. f.type \in {"UTCTimestamp", "UTCDateOnly", "UTCTimeOnly"} /\ ForeignField(f).type = f.type
  BY SentParts, Zenon DEF ForeignField
<1>2. CASE f.type = "UTCTimestamp"
  <2>1. ReadAlone(ForeignField(f)) = UncachedTimestamp(ForeignField(f).value)
    BY <1>1, <1>2 DEF ReadAlone
  <2> QED BY <1>1, <1>2, <2>1, TimestampRead, Zenon
<1>3. CASE f.type = "UTCDateOnly"
  <2>1. ReadAlone(ForeignField(f)) = dateOnlyToEpochUTC(ForeignField(f).value)
    BY <1>1, <1>3 DEF ReadAlone
  <2> QED BY <1>1, <1>3, <2>1, DateOnlyRead, Zenon
<1>4. CASE f.type = "UTCTimeOnly"
  <2>1. PICK ms : ms = timeOnlyToMillis(ForeignField(f).value)
    BY Zenon
  <2>2. ReadAlone(ForeignField(f)) = IF ms < 0 THEN NoTime ELSE [days |-> 0, ms |-> ms]
    BY <1>1, <1>4, <2>1 DEF ReadAlone
  <2> QED BY <1>1, <1>4, <2>1, <2>2, TimeOnlyRead, Zenon
<1> QED BY <1>1, <1>2, <1>3, <1>4

\* A field the session writes is one that could be sent, uncut.
OwnField(type, d, ms) == [type |-> type, value |-> Written(type, d, Clock(ms))]
OwnTime(type, d, ms) ==
    [days |-> IF type = "UTCTimeOnly" THEN 0 ELSE DayNumber(d),
     ms   |-> IF type = "UTCDateOnly" THEN 0 ELSE ms]

LEMMA OwnRead ==
    ASSUME NEW type \in {"UTCTimestamp", "UTCDateOnly", "UTCTimeOnly"},
           NEW d, SendableDate(d), Dated(d), NEW ms \in Nat, ms < MillisPerDay
    PROVE  ReadAlone(OwnField(type, d, ms)) = OwnTime(type, d, ms)
<1> DEFINE c    == Clock(ms)
           text == Written(type, d, c)
           n    == Len(text)
           f    == [type |-> type, date |-> d, clock |-> c, length |-> n]
<1>1. c \in ClockFields /\ Timed(c) /\ MillisOf(c) = ms
  BY ClockExact, Zenon
<1> HIDE DEF c
<1>2. /\ text \in Seq(Byte)
      /\ n = CASE type = "UTCTimestamp" -> 21 [] type = "UTCDateOnly" -> 8 [] type = "UTCTimeOnly" -> 12
  <2>1. CASE type = "UTCTimestamp"
    <3>1. text = WrittenDate(d) \o <<45>> \o WrittenTime(c)
      BY <2>1 DEF Written
    <3>2. text \in Seq(Byte) /\ n = 21
      BY <1>1, <3>1, TimestampText, Zenon
    <3> QED BY <2>1, <3>2
  <2>2. CASE type = "UTCDateOnly"
    <3>1. text = WrittenDate(d)
      BY <2>2 DEF Written
    <3>2. text \in Seq(Byte) /\ n = 8
      BY <3>1, DateText, Zenon
    <3> QED BY <2>2, <3>2
  <2>3. CASE type = "UTCTimeOnly"
    <3>1. text = WrittenTime(c)
      BY <2>3 DEF Written
    <3>2. text \in Seq(Byte) /\ n = 12
      BY <1>1, <3>1, TimeBytes, Zenon
    <3> QED BY <2>3, <3>2
  <2> QED BY <2>1, <2>2, <2>3
<1>3. f.type = type /\ f.date = d /\ f.clock = c /\ f.length = n
  BY Zenon
<1>4. SubSeq(text, 1, n) = text
  <2> HIDE DEF text
  <2>1. Len(text) \in 0 .. Len(text) /\ text \in Seq(Byte)
    BY <1>2, LenProperties
  <2>2. PICK k : k = Len(text)
    OBVIOUS
  <2>3. /\ SubSeq(text, 1, k) \in Seq(Byte) /\ Len(SubSeq(text, 1, k)) = k
        /\ \A i \in 1 .. k : SubSeq(text, 1, k)[i] = text[i]
    BY <2>1, <2>2, CutText, Zenon
  <2>4. SubSeq(text, 1, k) = text
    BY <2>1, <2>2, <2>3, SeqEqual
  <2> QED BY <2>2, <2>4
<1>5. n \in 0 .. Len(Written(f.type, f.date, f.clock))
  <2>1. n \in Nat
    BY <1>2
  <2>2. Written(f.type, f.date, f.clock) = text
    BY <1>3, Zenon
  <2>3. n \in 0 .. n
    BY <2>1
  <2> QED BY <2>2, <2>3, Zenon
<1>6. OwnField(type, d, ms) = ForeignField(f)
  BY <1>3, <1>4, Zenon DEF ForeignField, OwnField, c
<1> HIDE DEF f, text, n
<1>7. Sendable(f)
  BY <1>1, <1>3, <1>5, SMT DEF Sendable, SendableDate, ClockFields
<1>8. ForeignTime(f) = OwnTime(type, d, ms)
  <2>1. Shown(c, TRUE) = ms
    BY <1>1, Zenon DEF Shown
  <2>2. CASE type = "UTCTimestamp"
    <3>1. n = 21 /\ n \in {17, 21}
      BY <1>2, <2>2
    <3>2. ForeignTime(f) = [days |-> DayNumber(d), ms |-> Shown(c, TRUE)]
      BY <1>1, <1>3, <2>2, <3>1, ForeignTimes, Zenon
    <3> QED BY <2>1, <2>2, <3>2 DEF OwnTime
  <2>3. CASE type = "UTCDateOnly"
    <3>1. n = 8
      BY <1>2, <2>3
    <3>2. ForeignTime(f) = [days |-> DayNumber(d), ms |-> 0]
      BY <1>1, <1>3, <2>3, <3>1, ForeignTimes, Zenon
    <3> QED BY <2>3, <3>2 DEF OwnTime
  <2>4. CASE type = "UTCTimeOnly"
    <3>1. n = 12 /\ n \in {8, 12}
      BY <1>2, <2>4
    <3>2. ForeignTime(f) = [days |-> 0, ms |-> Shown(c, TRUE)]
      BY <1>1, <1>3, <2>4, <3>1, ForeignTimes, Zenon
    <3> QED BY <2>1, <2>4, <3>2 DEF OwnTime
  <2> QED BY <2>2, <2>3, <2>4
<1> QED BY <1>6, <1>7, <1>8, SentRead, Zenon

\* A day the session writes has a date of four-digit year, from 1970 on.
LEMMA OwnDate ==
    ASSUME DateInv, SpanInv, NEW d \in CalendarDate, start.days <= DayNumber(d), DayNumber(d) <= day
    PROVE  SendableDate(d) /\ Dated(d)
<1>1. /\ start.days \in Int /\ day \in Int /\ DayNumber(d) \in Int
      /\ 0 <= start.days /\ Walk \in Nat /\ start.days + Walk <= DayNumber(Date(9999, 12, 31))
      /\ day <= start.days + Walk
  BY SessionAssumption, NumberIsInt DEF DateInv, SpanInv
<1>2. DayNumber(Date(9999, 12, 31)) \in Int
  BY LastSpelledDate, NumberIsInt, SMT
<1>3. DayNumber(d) >= 0 /\ DayNumber(d) <= DayNumber(Date(9999, 12, 31))
  <2> DEFINE last == DayNumber(Date(9999, 12, 31))
  <2> HIDE DEF last
  <2>1. start.days + Walk <= last /\ last \in Int
    BY <1>1, <1>2 DEF last
  <2>2. DayNumber(d) >= 0 /\ DayNumber(d) <= last
    BY <1>1, <2>1
  <2> QED BY <2>2 DEF last
<1>4. d.year >= 1970 /\ d.year < 10000
  BY <1>3, FromEpoch, FourDigits, SMT
<1>5. d \in [year : Nat \ {0}, month : 0 .. 99, day : 0 .. 99]
  <2>1. d \in [year : Nat \ {0}, month : 1 .. 12, day : 1 .. 31]
    BY DEF CalendarDate
  <2> QED BY <2>1
<1> QED BY <1>4, <1>5, SMT DEF SendableDate, Dated

\* The date it writes, today's or yesterday's.
LEMMA OwnDay ==
    ASSUME DateInv, SpanInv, NEW back \in {0, 1}, day - back >= start.days,
           NEW of, of = IF day - back = day THEN date ELSE yesterday
    PROVE  DayNumber(of) = day - back /\ SendableDate(of) /\ Dated(of)
<1>1. day \in Int /\ start.days \in Int
  BY DEF DateInv
<1>2. of \in CalendarDate /\ DayNumber(of) = day - back
  <2>1. CASE back = 0
    <3>1. day - back = day
      BY <1>1, <2>1
    <3> QED BY <3>1 DEF DateInv
  <2>2. CASE back = 1
    <3>1. day > start.days /\ day - back # day /\ day - back = day - 1
      BY <1>1, <2>2
    <3> QED BY <3>1 DEF DateInv
  <2> QED BY <2>1, <2>2
<1>3. start.days <= DayNumber(of) /\ DayNumber(of) <= day
  BY <1>1, <1>2
<1> QED BY <1>2, <1>3, OwnDate

LEMMA MomentKnown == ASSUME NEW ms \in Moments PROVE ms \in Nat /\ ms < MillisPerDay
<1>1. ms \in 0 .. MillisPerDay - 1
  BY SessionAssumption, SMT
<1>2. MillisPerDay \in Int
  BY SMT DEF MillisPerDay
<1> QED BY <1>1, <1>2

LEMMA TimestampWritten ==
    ASSUME ReadInv, EncodeTimestamp
    PROVE  FieldInv'
<1>1. PICK back \in {0, 1}, ms \in Moments :
        /\ day - back >= start.days
        /\ time' = [days |-> day - back, ms |-> ms]
        /\ field' = UTCTimestamp(field'.value)
  BY DEF EncodeTimestamp, UTCTimestamp
<1>2. StampExact' /\ ours' /\ UNCHANGED <<day, date, yesterday>>
  BY TimestampStamped DEF ReadInv, EncodeTimestamp
<1>3. PICK of : of = IF day - back = day THEN date ELSE yesterday
  BY Zenon
<1>4. DayNumber(of) = day - back /\ SendableDate(of) /\ Dated(of)
  BY <1>1, <1>3, OwnDay DEF ReadInv, StampInv
<1>5. field'.type = "UTCTimestamp" /\ field' # NoField
  BY <1>1 DEF UTCTimestamp, NoField
<1>6. field' = [type |-> "UTCTimestamp", value |-> Written("UTCTimestamp", of, Clock(ms))]
  <2>1. time'.days = day - back /\ time'.ms = ms
    BY <1>1
  <2>2. field'.value = Written("UTCTimestamp", of, Clock(ms))
    BY <1>2, <1>3, <1>5, <2>1, Zenon DEF StampExact
  <2> QED BY <1>1, <2>2, Zenon DEF UTCTimestamp
<1>7. ms \in Nat /\ ms < MillisPerDay
  BY MomentKnown
<1>8. ReadAlone(field') = [days |-> day - back, ms |-> ms]
  <2>1. field' = OwnField("UTCTimestamp", of, ms)
    BY <1>6, Zenon DEF OwnField
  <2>2. OwnTime("UTCTimestamp", of, ms) = [days |-> day - back, ms |-> ms]
    BY <1>4 DEF OwnTime
  <2> QED BY <1>4, <1>7, <2>1, <2>2, OwnRead, Zenon
<1>9. ReadAlone(field)' = ReadAlone(field')
  BY DEF ReadAlone, UncachedTimestamp
<1> QED BY <1>1, <1>5, <1>8, <1>9 DEF FieldInv

LEMMA DateWritten ==
    ASSUME ReadInv, EncodeUTCDateOnly
    PROVE  FieldInv'
<1>1. PICK back \in {0, 1} :
        /\ day - back >= start.days
        /\ time' = [days |-> day - back, ms |-> 0]
        /\ field' = UTCDateOnly(field'.value)
  BY DEF EncodeUTCDateOnly, UTCDateOnly
<1>2. StampExact' /\ ours' /\ UNCHANGED <<day, date, yesterday>>
  BY DateStamped DEF ReadInv, EncodeUTCDateOnly
<1>3. PICK of : of = IF day - back = day THEN date ELSE yesterday
  BY Zenon
<1>4. DayNumber(of) = day - back /\ SendableDate(of) /\ Dated(of)
  BY <1>1, <1>3, OwnDay DEF ReadInv, StampInv
<1>5. field'.type = "UTCDateOnly" /\ field' # NoField
  BY <1>1 DEF UTCDateOnly, NoField
<1>6. field' = [type |-> "UTCDateOnly", value |-> Written("UTCDateOnly", of, Clock(0))]
  <2>1. time'.days = day - back /\ time'.ms = 0
    BY <1>1
  <2>2. field'.value = Written("UTCDateOnly", of, Clock(0))
    BY <1>2, <1>3, <1>5, <2>1, Zenon DEF StampExact
  <2> QED BY <1>1, <2>2, Zenon DEF UTCDateOnly
<1>7. 0 \in Nat /\ 0 < MillisPerDay
  BY SMT DEF MillisPerDay
<1>8. ReadAlone(field') = [days |-> day - back, ms |-> 0]
  <2>1. field' = OwnField("UTCDateOnly", of, 0)
    BY <1>6, Zenon DEF OwnField
  <2>2. OwnTime("UTCDateOnly", of, 0) = [days |-> day - back, ms |-> 0]
    BY <1>4 DEF OwnTime
  <2> QED BY <1>4, <1>7, <2>1, <2>2, OwnRead, Zenon
<1>9. ReadAlone(field)' = ReadAlone(field')
  BY DEF ReadAlone, UncachedTimestamp
<1> QED BY <1>1, <1>5, <1>8, <1>9 DEF FieldInv

LEMMA TimeWritten ==
    ASSUME ReadInv, EncodeUTCTimeOnly
    PROVE  FieldInv'
<1>1. PICK ms \in Moments :
        /\ time' = [days |-> 0, ms |-> ms]
        /\ field' = UTCTimeOnly(field'.value)
  BY DEF EncodeUTCTimeOnly, UTCTimeOnly
<1>2. StampExact' /\ ours' /\ UNCHANGED <<day, date, yesterday>>
  BY TimeStamped DEF EncodeUTCTimeOnly
<1>a. PICK of : of = date
  BY Zenon
<1>3. SendableDate(of) /\ Dated(of)
  <2>1. DateInv /\ SpanInv
    BY DEF ReadInv, StampInv
  <2>2. start.days <= DayNumber(date) /\ DayNumber(date) <= day /\ date \in CalendarDate
    BY <2>1 DEF DateInv
  <2> QED BY <1>a, <2>1, <2>2, OwnDate
<1>4. field'.type = "UTCTimeOnly" /\ field' # NoField
  BY <1>1 DEF UTCTimeOnly, NoField
<1>5. field' = [type |-> "UTCTimeOnly", value |-> Written("UTCTimeOnly", of, Clock(ms))]
  <2>1. time'.ms = ms
    BY <1>1
  <2>a. PICK d : d = IF time'.days = day' THEN date' ELSE yesterday'
    BY Zenon
  <2>2. field'.value = Written("UTCTimeOnly", d, Clock(ms))
    <3>1. field'.value = Written(field'.type, d, Clock(time'.ms))
      BY <1>2, <1>4, <2>a DEF StampExact
    <3> QED BY <1>4, <2>1, <3>1
  <2>3. field'.value = Written("UTCTimeOnly", of, Clock(ms))
    BY <2>2 DEF Written
  <2> QED BY <1>1, <2>3, Zenon DEF UTCTimeOnly
<1>6. ms \in Nat /\ ms < MillisPerDay
  BY MomentKnown
<1>7. ReadAlone(field') = [days |-> 0, ms |-> ms]
  <2>1. field' = OwnField("UTCTimeOnly", of, ms)
    BY <1>5, Zenon DEF OwnField
  <2>2. OwnTime("UTCTimeOnly", of, ms) = [days |-> 0, ms |-> ms]
    BY DEF OwnTime
  <2> QED BY <1>3, <1>6, <2>1, <2>2, OwnRead, Zenon
<1>8. ReadAlone(field)' = ReadAlone(field')
  BY DEF ReadAlone, UncachedTimestamp
<1> QED BY <1>1, <1>4, <1>7, <1>8 DEF FieldInv

LEMMA ForeignReceived ==
    ASSUME Receive
    PROVE  FieldInv'
<1>1. PICK f \in Foreign : field' = ForeignField(f) /\ time' = ForeignTime(f)
  BY DEF Receive
<1>2. Sendable(f)
  BY ForeignAssumption
<1>3. ReadAlone(field)' = ReadAlone(field')
  BY DEF ReadAlone, UncachedTimestamp
<1> QED BY <1>1, <1>2, <1>3, SentRead, Zenon DEF FieldInv

\* What was read is what a decoder without a cache reads.
LEMMA FieldRead ==
    ASSUME ReadInv, CachedTimestamp \/ getUTCDateOnly \/ getUTCTimeOnly
    PROVE  FieldInv' /\ ReadExact'
<1>1. field' = NoField /\ time' = time
  BY DEF CachedTimestamp, getUTCDateOnly, getUTCTimeOnly
<1>2. read' = ReadAlone(field)
  <2>1. CASE CachedTimestamp
    <3>1. CacheInv /\ field.type = "UTCTimestamp"
      BY <2>1 DEF ReadInv, StampInv, CachedTimestamp
    <3> QED BY <2>1, <3>1, ReadUncached DEF ReadAlone
  <2>2. CASE getUTCDateOnly
    BY <2>2 DEF getUTCDateOnly, ReadAlone
  <2>3. CASE getUTCTimeOnly
    BY <2>3 DEF getUTCTimeOnly, ReadAlone
  <2> QED BY <2>1, <2>2, <2>3
<1>3. field # NoField
  BY DEF CachedTimestamp, getUTCDateOnly, getUTCTimeOnly, NoField
<1>4. read' = time
  BY <1>2, <1>3 DEF ReadInv, FieldInv
<1> QED BY <1>1, <1>4 DEF FieldInv, ReadExact

LEMMA MidnightRead ==
    ASSUME Midnight
    PROVE  FieldInv' /\ ReadExact'
<1>1. field' = NoField /\ time' = NoTime /\ read' = NoTime
  BY DEF Midnight
<1> QED BY <1>1 DEF FieldInv, ReadExact

LEMMA SpanKept ==
    ASSUME DateInv, SpanInv, [Next]_vars
    PROVE  SpanInv'
<1>1. CASE Midnight
  <2>1. start' = start /\ day' = day + 1 /\ day < start.days + Walk
    BY <1>1 DEF Midnight
  <2>2. day \in Int /\ start.days \in Int /\ Walk \in Int
    BY SessionAssumption DEF DateInv
  <2> QED BY <2>1, <2>2 DEF SpanInv
<1>2. CASE UNCHANGED <<start, day>>
  BY <1>2 DEF SpanInv
<1>3. Midnight \/ UNCHANGED <<start, day>>
  BY DEF Next, vars, EncodeTimestamp, EncodeUTCDateOnly, EncodeUTCTimeOnly, Receive,
         CachedTimestamp, getUTCDateOnly, getUTCTimeOnly
<1> QED BY <1>1, <1>2, <1>3

LEMMA ReadInvInit == Init => ReadInv
<1> SUFFICES ASSUME Init PROVE ReadInv
  OBVIOUS
<1>1. start \in Starts /\ day = start.days /\ field = NoField /\ time = NoTime /\ read = NoTime
  BY DEF Init
<1>2. SpanInv
  <2>1. start.days \in Int /\ Walk \in Nat
    BY <1>1, SessionAssumption, NumberIsInt
  <2> QED BY <1>1, <2>1 DEF SpanInv
<1> QED BY <1>1, <1>2, StampInvInit DEF ReadInv, FieldInv, ReadExact

LEMMA ReadInvKept ==
    ASSUME ReadInv, [Next]_vars
    PROVE  ReadInv'
<1>1. StampInv' /\ SpanInv'
  BY StampKept, DateKept, CacheKept, SpanKept DEF ReadInv, StampInv
<1>2. FieldInv' /\ ReadExact'
  <2>1. CASE EncodeTimestamp
    <3>1. field' # NoField
      BY <2>1 DEF EncodeTimestamp, UTCTimestamp, NoField
    <3> QED BY <2>1, <3>1, TimestampWritten DEF ReadExact
  <2>2. CASE EncodeUTCDateOnly
    <3>1. field' # NoField
      BY <2>2 DEF EncodeUTCDateOnly, UTCDateOnly, NoField
    <3> QED BY <2>2, <3>1, DateWritten DEF ReadExact
  <2>3. CASE EncodeUTCTimeOnly
    <3>1. field' # NoField
      BY <2>3 DEF EncodeUTCTimeOnly, UTCTimeOnly, NoField
    <3> QED BY <2>3, <3>1, TimeWritten DEF ReadExact
  <2>4. CASE Receive
    <3>1. PICK f \in Foreign : field' = ForeignField(f)
      BY <2>4 DEF Receive
    <3>2. field' # NoField
      BY <3>1, ForeignTyped DEF ForeignField, NoField
    <3> QED BY <2>4, <3>2, ForeignReceived DEF ReadExact
  <2>5. CASE CachedTimestamp \/ getUTCDateOnly \/ getUTCTimeOnly
    BY <2>5, FieldRead
  <2>6. CASE Midnight
    BY <2>6, MidnightRead
  <2>7. CASE UNCHANGED vars
    <3>1. ReadAlone(field)' = ReadAlone(field')
      BY DEF ReadAlone, UncachedTimestamp
    <3> QED BY <2>7, <3>1 DEF vars, ReadInv, FieldInv, ReadExact
  <2> QED BY <2>1, <2>2, <2>3, <2>4, <2>5, <2>6, <2>7 DEF Next
<1> QED BY <1>1, <1>2 DEF ReadInv

\* Every field, the session's own or a counterparty's, valid or not and cut anywhere, is
\* read as the time it stands for, or refused, on whatever day and after whatever dates
\* (FieldDecoder.hpp:655-775, Conversions.hpp:293-425).
THEOREM ReadsAreExact == Spec => []ReadExact
<1>1. ReadInv => ReadExact
  BY DEF ReadInv
<1> QED BY ReadInvInit, ReadInvKept, <1>1, PTL DEF Spec
=============================================================================
