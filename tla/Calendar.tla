------------------------------ MODULE Calendar ------------------------------
(***************************************************************************)
(* The date arithmetic of the Rust provider adapters.  A date is a          *)
(* year-month-day triple and an instant a date and a minute of the day: the *)
(* seconds are left out, since every conversion carries them unchanged.     *)
(* Canonical instants are written with a four digit year, so comparing the  *)
(* texts compares the tuples; Refused is the adapters' error.               *)
(***************************************************************************)
EXTENDS Integers, Sequences

CONSTANT Refused

DayMinutes == 24 * 60

Date(y, m, d) == [year |-> y, month |-> m, day |-> d]
Dates == [year : Int, month : Int, day : Int]

IsLeapYear(year) == year % 4 = 0 /\ (year % 100 # 0 \/ year % 400 = 0)

DaysInMonth(year, month) ==
    CASE month = 2 -> IF IsLeapYear(year) THEN 29 ELSE 28
      [] month \in {4, 6, 9, 11} -> 30
      [] month \in {1, 3, 5, 7, 8, 10, 12} -> 31
      [] OTHER -> 0

IsDate(date) ==
    /\ date.month \in 1..12
    /\ date.day \in 1..DaysInMonth(date.year, date.month)

\* The adapter refuses a date that is none, then carries the day into the month
\* and the month into the year.
NextDate(date) ==
    IF ~IsDate(date) THEN Refused
    ELSE IF date.day < DaysInMonth(date.year, date.month)
    THEN [date EXCEPT !.day = @ + 1]
    ELSE IF date.month < 12 THEN [date EXCEPT !.month = @ + 1, !.day = 1]
    ELSE Date(date.year + 1, 1, 1)

\* The mirror of NextDate inside parse_timestamp, for an offset ahead of UTC.
PreviousDate(date) ==
    IF date.day > 1 THEN [date EXCEPT !.day = @ - 1]
    ELSE IF date.month > 1
    THEN Date(date.year, date.month - 1, DaysInMonth(date.year, date.month - 1))
    ELSE Date(date.year - 1, 12, DaysInMonth(date.year - 1, 12))

\* Division of the source rounds towards zero, that of TLA+ down.
Quotient(a, b) == IF a >= 0 THEN a \div b ELSE -((-a) \div b)

\* Mutant: the eras before 1970 are rounded as those after it.
CivilFromDaysOfLateEras(daysSinceEpoch) ==
    LET days == daysSinceEpoch + 719468
        era == Quotient(days, 146097)
        dayOfEra == days - era * 146097
        yearOfEra == (dayOfEra - dayOfEra \div 1460 + dayOfEra \div 36524) \div 365
        dayOfYear == dayOfEra - (365 * yearOfEra + yearOfEra \div 4 - yearOfEra \div 100)
        monthPrime == (5 * dayOfYear + 2) \div 153
        month == monthPrime + (IF monthPrime < 10 THEN 3 ELSE -9)
    IN Date(yearOfEra + era * 400 + (IF month <= 2 THEN 1 ELSE 0), month,
            dayOfYear - (153 * monthPrime + 2) \div 5 + 1)

\* A day of a year that starts in March.
MarchDate(year, dayOfYear) ==
    LET monthPrime == (5 * dayOfYear + 2) \div 153
        month == monthPrime + (IF monthPrime < 10 THEN 3 ELSE -9)
    IN Date(year + (IF month <= 2 THEN 1 ELSE 0),
            month,
            dayOfYear - (153 * monthPrime + 2) \div 5 + 1)

\* A day of an era of 400 such years.
EraDate(era, dayOfEra) ==
    LET yearOfEra == (dayOfEra - dayOfEra \div 1460 + dayOfEra \div 36524
                        - dayOfEra \div 146096) \div 365
    IN MarchDate(yearOfEra + era * 400,
                 dayOfEra - (365 * yearOfEra + yearOfEra \div 4 - yearOfEra \div 100))

\* Days since 1970-01-01 to a date.
CivilFromDays(daysSinceEpoch) ==
    LET days == daysSinceEpoch + 719468
        era == Quotient(IF days >= 0 THEN days ELSE days - 146096, 146097)
    IN EraDate(era, days - era * 146097)

Instant(date, minute) == [date |-> date, minute |-> minute]
Instants == [date : Dates, minute : 0..(DayMinutes - 1)]
Midnight(date) == Instant(date, 0)

\* A timestamp counted in whole minutes since the epoch, negative before it.
UnixToUtc(minutes) ==
    Instant(CivilFromDays(minutes \div DayMinutes), minutes % DayMinutes)

\* A written instant carries its offset from UTC in minutes, 0 for Z.
Written(date, minute, offset) == [date |-> date, minute |-> minute, offset |-> offset]
WrittenInstants == [date : Dates, minute : Int, offset : Int]

\* parse_timestamp: the clock and the offset move the date by a day at most, and
\* the year has to stay within the four digits of the canonical text.
ParseTimestamp(written) ==
    LET minute == written.minute - written.offset
        moved == CASE minute < 0 -> Instant(PreviousDate(written.date), minute + DayMinutes)
                   [] minute >= DayMinutes -> Instant(NextDate(written.date), minute - DayMinutes)
                   [] OTHER -> Instant(written.date, minute)
    IN IF /\ IsDate(written.date)
          /\ written.minute \in 0..(DayMinutes - 1)
          /\ written.offset \in (1 - DayMinutes)..(DayMinutes - 1)
          /\ moved.date.year \in 0..9999
       THEN moved ELSE Refused

\* Lexicographic order of dates, then of instants: the order of their texts.
Before(a, b) ==
    \/ a.year < b.year
    \/ a.year = b.year /\ a.month < b.month
    \/ a.year = b.year /\ a.month = b.month /\ a.day < b.day

Earlier(a, b) ==
    \/ Before(a.date, b.date)
    \/ a.date = b.date /\ a.minute < b.minute

NotEarlier(a, b) == ~Earlier(a, b)

(***************************************************************************)
(* The reference the conversions are checked against: days counted from     *)
(* 1970-01-01 by the calendar's own rules.                                  *)
(***************************************************************************)
DaysBeforeMonth == <<0, 31, 59, 90, 120, 151, 181, 212, 243, 273, 304, 334>>

LeapDaysBefore(year) == (year - 1) \div 4 - (year - 1) \div 100 + (year - 1) \div 400

DayNumber(date) ==
    365 * (date.year - 1970) + LeapDaysBefore(date.year) - LeapDaysBefore(1970)
      + DaysBeforeMonth[date.month]
      + (IF date.month > 2 /\ IsLeapYear(date.year) THEN 1 ELSE 0)
      + date.day - 1

MinuteNumber(instant) == DayNumber(instant.date) * DayMinutes + instant.minute
=============================================================================
