---------------------------- MODULE MCTimestamps ----------------------------
(***************************************************************************)
(* An instance of the timestamps for TLC: the first days of the epoch,     *)
(* each turn of a month in a leap year and a month's days between them,    *)
(* and the turns and Februaries of a century's year that is a leap year    *)
(* and of one that is not.                                                 *)
(***************************************************************************)
EXTENDS Timestamps

StartsOf ==
    { [days |-> 0, date |-> Date(1970, 1, 1)],
      [days |-> 10949, date |-> Date(1999, 12, 24)],
      [days |-> 11010, date |-> Date(2000, 2, 23)],
      [days |-> 19747, date |-> Date(2024, 1, 25)],
      [days |-> 19775, date |-> Date(2024, 2, 22)],
      [days |-> 19806, date |-> Date(2024, 3, 24)],
      [days |-> 19836, date |-> Date(2024, 4, 23)],
      [days |-> 19867, date |-> Date(2024, 5, 24)],
      [days |-> 19877, date |-> Date(2024, 6, 3)],
      [days |-> 19886, date |-> Date(2024, 6, 12)],
      [days |-> 19897, date |-> Date(2024, 6, 23)],
      [days |-> 19928, date |-> Date(2024, 7, 24)],
      [days |-> 19959, date |-> Date(2024, 8, 24)],
      [days |-> 19989, date |-> Date(2024, 9, 23)],
      [days |-> 20020, date |-> Date(2024, 10, 24)],
      [days |-> 20050, date |-> Date(2024, 11, 23)],
      [days |-> 47474, date |-> Date(2099, 12, 24)],
      [days |-> 47534, date |-> Date(2100, 2, 22)] }
MomentsOf == {0, 45296789}

NewYear == Date(2024, 1, 1)
TimeAt(h, m, s) == [hours |-> h, minutes |-> m, seconds |-> s, millis |-> 120]
LastSecond == TimeAt(23, 59, 59)
Sent(type, d, clock, length) == [type |-> type, date |-> d, clock |-> clock, length |-> length]

\* Timestamps: whole, without milliseconds, with two of their digits; month 13; day 0; 1969;
\* hour 24; a date alone.  Dates: the epoch's, one with month 0 and one with a digit missing.
\* Times of day: without milliseconds, with two of their digits, one with minute 60.
ForeignOf ==
    { Sent("UTCTimestamp", NewYear, LastSecond, 21),
      Sent("UTCTimestamp", NewYear, LastSecond, 17),
      Sent("UTCTimestamp", NewYear, LastSecond, 20),
      Sent("UTCTimestamp", Date(2024, 13, 1), TimeAt(0, 0, 0), 17),
      Sent("UTCTimestamp", Date(2024, 12, 0), TimeAt(0, 0, 0), 17),
      Sent("UTCTimestamp", Date(1969, 12, 31), TimeAt(0, 0, 0), 17),
      Sent("UTCTimestamp", NewYear, TimeAt(24, 0, 0), 17),
      Sent("UTCTimestamp", NewYear, TimeAt(0, 0, 0), 8),
      Sent("UTCDateOnly", Date(1970, 1, 1), TimeAt(0, 0, 0), 8),
      Sent("UTCDateOnly", Date(2024, 0, 1), TimeAt(0, 0, 0), 8),
      Sent("UTCDateOnly", Date(2024, 1, 1), TimeAt(0, 0, 0), 7),
      Sent("UTCTimeOnly", NewYear, LastSecond, 8),
      Sent("UTCTimeOnly", NewYear, LastSecond, 11),
      Sent("UTCTimeOnly", NewYear, TimeAt(23, 60, 0), 8) }
=============================================================================
