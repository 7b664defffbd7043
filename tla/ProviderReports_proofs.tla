------------------------ MODULE ProviderReports_proofs ------------------------
(***************************************************************************)
(* What holds of any reports the providers may give, for every date: that    *)
(* the instants an account shows are those its provider meant, that a plan's *)
(* window is limited exactly when the recoveries remember it as spent, and    *)
(* that the windows of a plan are told apart.                                *)
(*                                                                         *)
(* The calendar comes first, with no report in it: the conversions the       *)
(* adapters use give the date and the minute that many minutes from the      *)
(* epoch.  Then, adapter by adapter, what the account is made of, and last   *)
(* the invariant that an envelope is made of a report its provider may give. *)
(***************************************************************************)
EXTENDS ProviderReports, WellFoundedInduction, SequenceTheorems, FiniteSetTheorems, TLAPS

-----------------------------------------------------------------------------
\* A set of natural numbers has a least one: the form of induction the provers can use.
LEMMA LeastNumber ==
    ASSUME NEW S, S \subseteq Nat, S # {}
    PROVE  \E n \in S : \A m \in S : n <= m
<1> DEFINE R == {ss \in Nat \X Nat : ss[1] < ss[2]}
<1>1. IsWellFoundedOn(R, Nat)
  BY NatLessThanWellFounded DEF OpToRel
<1> HIDE DEF R
<1>2. PICK x \in S : \A y \in S : <<y, x>> \notin R
  BY <1>1, WFMin
<1>3. \A y \in S : x <= y
  <2> TAKE y \in S
  <2>1. <<y, x>> \notin R /\ <<y, x>> \in Nat \X Nat
    BY <1>2
  <2> QED
    BY <2>1 DEF R
<1> QED
  BY <1>3

-----------------------------------------------------------------------------
(***************************************************************************)
(* Statuses.                                                               *)
(***************************************************************************)
LEMMA StatusesAre ==
    Statuses = {"ok", "unknown", "stale", "warning", "rateLimited", "authRequired", "error"}
  BY DEF Statuses, Severity

LEMMA SeverityIs ==
    /\ Severity["ok"] = 1 /\ Severity["unknown"] = 2 /\ Severity["stale"] = 3
    /\ Severity["warning"] = 4 /\ Severity["rateLimited"] = 5
    /\ Severity["authRequired"] = 6 /\ Severity["error"] = 7
  BY DEF Severity

LEMMA SeverityTypes ==
    ASSUME NEW s \in Statuses
    PROVE  Severity[s] \in 1..7
  BY StatusesAre, SeverityIs

\* The worst of some statuses is one of them, and none is worse.
LEMMA WorstIsTop ==
    ASSUME NEW S, S \subseteq Statuses, S # {}
    PROVE  Worst(S) \in S /\ \A t \in S : Severity[t] <= Severity[Worst(S)]
<1> DEFINE N == {7 - Severity[t] : t \in S}
<1>1. N \subseteq Nat /\ N # {}
  BY SeverityTypes
<1>2. PICK n \in N : \A m \in N : n <= m
  BY <1>1, LeastNumber
<1>3. PICK s \in S : n = 7 - Severity[s]
  BY <1>2
<1>4. \A t \in S : Severity[t] <= Severity[s]
  <2> TAKE t \in S
  <2>1. 7 - Severity[t] \in N
    OBVIOUS
  <2>2. 7 - Severity[s] <= 7 - Severity[t]
    BY <2>1, <1>2, <1>3
  <2> QED
    BY <2>2, SeverityTypes
<1> HIDE DEF N
<1> QED
  BY <1>3, <1>4 DEF Worst

-----------------------------------------------------------------------------
(***************************************************************************)
(* The calendar.  A day is counted from the epoch by years, months and     *)
(* days; an era is the 400 years after which the calendar repeats itself,  *)
(* and its years start in March, so that a leap day is the last of its     *)
(* year.                                                                   *)
(***************************************************************************)
\* The length of a month without the year's say, and the leap day.
LeapDay(year) == IF IsLeapYear(year) THEN 1 ELSE 0

LEMMA MonthLength ==
    ASSUME NEW year \in Int, NEW month \in 1..12
    PROVE  DaysInMonth(year, month) =
               IF month = 2 THEN 28 + LeapDay(year)
               ELSE IF month \in {4, 6, 9, 11} THEN 30 ELSE 31
<1> DEFINE leap == IF IsLeapYear(year) THEN 29 ELSE 28
<1>1. leap = 28 + LeapDay(year)
  BY SMT DEF LeapDay
<1> HIDE DEF leap
<1>2. CASE month = 2
  BY <1>1, <1>2 DEF DaysInMonth, leap
<1>3. CASE month \in {4, 6, 9, 11}
  BY <1>3 DEF DaysInMonth
<1>4. CASE month \in {1, 3, 5, 7, 8, 10, 12}
  BY <1>4 DEF DaysInMonth
<1> QED
  BY <1>2, <1>3, <1>4

LEMMA LeapStep ==
    ASSUME NEW year \in Int
    PROVE  LeapDaysBefore(year + 1) = LeapDaysBefore(year) + LeapDay(year)
  BY SMTT(60) DEF LeapDaysBefore, LeapDay, IsLeapYear

\* Days of the year before a month.
Offset(year, month) ==
    DaysBeforeMonth[month] + (IF month > 2 THEN LeapDay(year) ELSE 0)

LEMMA OffsetIs ==
    ASSUME NEW year \in Int
    PROVE /\ Offset(year, 1) = 0 /\ Offset(year, 2) = 31
          /\ Offset(year, 3) = 59 + LeapDay(year)
          /\ Offset(year, 4) = 90 + LeapDay(year)
          /\ Offset(year, 5) = 120 + LeapDay(year)
          /\ Offset(year, 6) = 151 + LeapDay(year)
          /\ Offset(year, 7) = 181 + LeapDay(year)
          /\ Offset(year, 8) = 212 + LeapDay(year)
          /\ Offset(year, 9) = 243 + LeapDay(year)
          /\ Offset(year, 10) = 273 + LeapDay(year)
          /\ Offset(year, 11) = 304 + LeapDay(year)
          /\ Offset(year, 12) = 334 + LeapDay(year)
  BY SMTT(60) DEF Offset, DaysBeforeMonth, LeapDay

LEMMA LeapDayTypes ==
    ASSUME NEW year \in Int
    PROVE  LeapDay(year) \in {0, 1} /\ LeapDaysBefore(year) \in Int
  BY DEF LeapDay, LeapDaysBefore

\* The number of the first day of a year.
YearStart(year) == 365 * (year - 1970) + LeapDaysBefore(year) - 477

LEMMA YearStartTypes ==
    ASSUME NEW year \in Int
    PROVE  YearStart(year) \in Int
  BY LeapDayTypes DEF YearStart

LEMMA YearEnds ==
    ASSUME NEW year \in Int
    PROVE  YearStart(year + 1) = YearStart(year) + 365 + LeapDay(year)
  BY LeapStep, LeapDayTypes DEF YearStart

LEMMA DateIs ==
    ASSUME NEW date \in Dates
    PROVE  /\ date = Date(date.year, date.month, date.day)
           /\ date.year \in Int /\ date.month \in Int /\ date.day \in Int
  BY DEF Dates, Date

LEMMA DayNumberIs ==
    ASSUME NEW date \in Dates, date.month \in 1..12
    PROVE  DayNumber(date) = YearStart(date.year) + Offset(date.year, date.month) + date.day - 1
<1> DEFINE y == date.year
           m == date.month
           d == date.day
<1>1. LeapDaysBefore(1970) = 477
  BY DEF LeapDaysBefore
<1>2. DaysBeforeMonth[m] \in Int /\ LeapDaysBefore(y) \in Int /\ y \in Int /\ d \in Int
  BY DateIs, LeapDayTypes DEF DaysBeforeMonth
<1>3. (IF m > 2 /\ IsLeapYear(y) THEN 1 ELSE 0) = (IF m > 2 THEN LeapDay(y) ELSE 0)
        /\ LeapDay(y) \in {0, 1}
  BY <1>2, LeapDayTypes DEF LeapDay
<1>4. DayNumber(date) = 365 * (y - 1970) + LeapDaysBefore(y) - LeapDaysBefore(1970)
                          + DaysBeforeMonth[m] + (IF m > 2 THEN LeapDay(y) ELSE 0) + d - 1
  BY <1>3 DEF DayNumber
<1>5. Offset(y, m) = DaysBeforeMonth[m] + (IF m > 2 THEN LeapDay(y) ELSE 0)
  BY DEF Offset
<1> HIDE DEF y, m, d
<1>6. DayNumber(date) = YearStart(y) + Offset(y, m) + d - 1
  BY <1>1, <1>2, <1>3, <1>4, <1>5 DEF YearStart
<1> QED
  BY <1>6 DEF y, m, d

\* What is needed of a date and of its day.
LEMMA Dated ==
    ASSUME NEW y \in Int, NEW m \in 1..12, NEW d \in 1..DaysInMonth(y, m)
    PROVE  /\ Date(y, m, d) \in Dates /\ IsDate(Date(y, m, d))
           /\ DayNumber(Date(y, m, d)) = YearStart(y) + Offset(y, m) + d - 1
<1>1. d \in Int
  BY MonthLength, LeapDayTypes
<1>2. /\ Date(y, m, d) \in Dates
      /\ Date(y, m, d).year = y /\ Date(y, m, d).month = m /\ Date(y, m, d).day = d
  BY <1>1 DEF Dates, Date
<1> QED
  BY <1>1, <1>2, DayNumberIs DEF IsDate

LEMMA DayNumberTypes ==
    ASSUME NEW date \in Dates, IsDate(date)
    PROVE  DayNumber(date) \in Int
<1>1. /\ date.year \in Int /\ date.month \in 1..12 /\ date.day \in Int
  BY DateIs DEF IsDate
<1>2. Offset(date.year, date.month) \in Int
  BY <1>1, OffsetIs, LeapDayTypes
<1> QED
  BY <1>1, <1>2, DayNumberIs, YearStartTypes

LEMMA MonthTypes ==
    ASSUME NEW year \in Int, NEW month \in 1..12
    PROVE  /\ DaysInMonth(year, month) \in 28..31 /\ DaysInMonth(year, month) \in Int
           /\ Offset(year, month) \in 0..335 /\ Offset(year, month) \in Int
<1>1. DaysInMonth(year, month) \in 28..31
  BY MonthLength, LeapDayTypes
<1>2. Offset(year, month) \in 0..335
  BY OffsetIs, LeapDayTypes
<1> QED
  BY <1>1, <1>2

\* The first of the next month is the day after the last of this one.
LEMMA MonthEnds ==
    ASSUME NEW year \in Int, NEW month \in 1..11
    PROVE  Offset(year, month + 1) = Offset(year, month) + DaysInMonth(year, month)
<1>1. month \in 1..12 /\ LeapDay(year) \in {0, 1}
  BY LeapDayTypes
<1>2. DaysInMonth(year, month) = IF month = 2 THEN 28 + LeapDay(year)
                                ELSE IF month \in {4, 6, 9, 11} THEN 30 ELSE 31
  BY <1>1, MonthLength
<1> QED
  BY <1>1, <1>2, OffsetIs

LEMMA DecemberEnds ==
    ASSUME NEW year \in Int
    PROVE  YearStart(year + 1) + Offset(year + 1, 1) = YearStart(year) + Offset(year, 12) + DaysInMonth(year, 12)
<1>1. DaysInMonth(year, 12) = 31 /\ Offset(year, 12) = 334 + LeapDay(year)
  BY MonthLength, OffsetIs
<1>2. Offset(year + 1, 1) = 0
  BY OffsetIs
<1>3. YearStart(year + 1) = YearStart(year) + 365 + LeapDay(year)
  BY YearEnds
<1>4. YearStart(year) \in Int /\ LeapDay(year) \in Int
  BY YearStartTypes, LeapDayTypes
<1> QED
  BY <1>1, <1>2, <1>3, <1>4

LEMMA FirstOfMonth ==
    ASSUME NEW date \in Dates, NEW month \in Int
    PROVE  [date EXCEPT !.month = month, !.day = 1] = Date(date.year, month, 1)
<1> DEFINE moved == [date EXCEPT !.month = month]
           new == [moved EXCEPT !.day = 1]
<1>1. moved \in Dates /\ moved.year = date.year /\ moved.month = month
  BY DEF Dates
<1>2. new = [date EXCEPT !.month = month, !.day = 1]
  BY Zenon
<1> HIDE DEF moved
<1>3. new \in Dates /\ new.year = date.year /\ new.month = month /\ new.day = 1
  BY <1>1 DEF Dates
<1> HIDE DEF new
<1>4. new = Date(date.year, month, 1)
  BY <1>3, DateIs
<1> QED
  BY <1>2, <1>4

LEMMA NextDay ==
    ASSUME NEW date \in Dates, IsDate(date)
    PROVE  /\ NextDate(date) \in Dates /\ IsDate(NextDate(date))
           /\ DayNumber(NextDate(date)) = DayNumber(date) + 1
<1> DEFINE y == date.year
           m == date.month
           d == date.day
<1>1. y \in Int /\ m \in 1..12 /\ d \in 1..DaysInMonth(y, m) /\ date = Date(y, m, d)
  BY DateIs DEF IsDate
<1>2. DaysInMonth(y, m) \in 28..31 /\ d \in Int /\ Offset(y, m) \in Int /\ YearStart(y) \in Int
  <2>1. y \in Int /\ m \in 1..12 /\ d \in 1..DaysInMonth(y, m)
    BY <1>1
  <2> HIDE DEF y, m, d
  <2>2. DaysInMonth(y, m) \in 28..31 /\ DaysInMonth(y, m) \in Int /\ Offset(y, m) \in Int
    BY <2>1, MonthTypes
  <2>3. YearStart(y) \in Int
    BY <2>1, YearStartTypes
  <2> QED
    BY <2>1, <2>2, <2>3
<1>3. DayNumber(date) = YearStart(y) + Offset(y, m) + d - 1
  BY <1>1, DayNumberIs
<1>4. CASE d < DaysInMonth(y, m)
  <2>1. NextDate(date) = Date(y, m, d + 1)
    BY <1>1, <1>4 DEF NextDate, Date
  <2> HIDE DEF y, m, d
  <2> QED
    BY <1>1, <1>2, <1>3, <1>4, <2>1, Dated, SMTT(60)
<1>5. CASE d = DaysInMonth(y, m) /\ m < 12
  <2>1. NextDate(date) = Date(y, m + 1, 1)
    <3>1. date = [year |-> y, month |-> m, day |-> d]
      BY <1>1 DEF Date
    <3> HIDE DEF y, m, d
    <3>2. [date EXCEPT !.month = m + 1, !.day = 1] = Date(y, m + 1, 1)
      <4>1. m + 1 \in Int /\ m \in Int
        BY <1>1
      <4>2. date \in Dates
        OBVIOUS
      <4> QED
        BY <4>1, <4>2, FirstOfMonth DEF y
    <3>3. NextDate(date) = [date EXCEPT !.month = m + 1, !.day = 1]
      BY <1>1, <1>2, <1>5 DEF NextDate, m, y, d
    <3> QED
      BY <3>2, <3>3
  <2> HIDE DEF y, m, d
  <2>2. m \in 1..11 /\ m + 1 \in 1..12 /\ Offset(y, m + 1) = Offset(y, m) + DaysInMonth(y, m)
    BY <1>1, <1>5, MonthEnds
  <2>3. 1 \in 1..DaysInMonth(y, m + 1)
    <3>1. DaysInMonth(y, m + 1) \in 28..31
      BY <1>1, <2>2, MonthTypes, Zenon
    <3> QED
      BY <3>1
  <2>4. IsDate(NextDate(date)) /\ NextDate(date) \in Dates
        /\ DayNumber(NextDate(date)) = YearStart(y) + Offset(y, m + 1) + 1 - 1
    BY <1>1, <2>1, <2>2, <2>3, Dated
  <2> QED
    BY <1>2, <1>3, <1>5, <2>2, <2>4
<1>6. CASE d = DaysInMonth(y, m) /\ m = 12
  <2>1. NextDate(date) = Date(y + 1, 1, 1)
    BY <1>1, <1>6 DEF NextDate
  <2> HIDE DEF y, m, d
  <2> DEFINE x == y + 1
  <2>2. YearStart(x) \in Int /\ Offset(x, 1) \in Int /\ x \in Int
        /\ 1 \in 1..DaysInMonth(x, 1)
    <3>1. x \in Int
      BY <1>1
    <3> HIDE DEF x
    <3>2. DaysInMonth(x, 1) \in 28..31 /\ Offset(x, 1) \in Int
      BY <3>1, MonthTypes
    <3> QED
      BY <3>1, <3>2, YearStartTypes
  <2>3. IsDate(NextDate(date)) /\ NextDate(date) \in Dates
        /\ DayNumber(NextDate(date)) = YearStart(y + 1) + Offset(y + 1, 1) + 1 - 1
    BY <2>1, <2>2, Dated
  <2> QED
    BY <1>1, <1>2, <1>3, <1>6, <2>2, <2>3, DecemberEnds
<1> QED
  BY <1>1, <1>2, <1>4, <1>5, <1>6

LEMMA PreviousDay ==
    ASSUME NEW date \in Dates, IsDate(date)
    PROVE  /\ PreviousDate(date) \in Dates /\ IsDate(PreviousDate(date))
           /\ DayNumber(PreviousDate(date)) = DayNumber(date) - 1
<1> DEFINE y == date.year
           m == date.month
           d == date.day
<1>1. y \in Int /\ m \in 1..12 /\ d \in 1..DaysInMonth(y, m) /\ date = Date(y, m, d)
  BY DateIs DEF IsDate
<1>2. DaysInMonth(y, m) \in 28..31 /\ d \in Int /\ Offset(y, m) \in Int /\ YearStart(y) \in Int
  <2>1. y \in Int /\ m \in 1..12 /\ d \in 1..DaysInMonth(y, m)
    BY <1>1
  <2> HIDE DEF y, m, d
  <2>2. DaysInMonth(y, m) \in 28..31 /\ DaysInMonth(y, m) \in Int /\ Offset(y, m) \in Int
    BY <2>1, MonthTypes
  <2>3. YearStart(y) \in Int
    BY <2>1, YearStartTypes
  <2> QED
    BY <2>1, <2>2, <2>3
<1>3. DayNumber(date) = YearStart(y) + Offset(y, m) + d - 1
  BY <1>1, DayNumberIs
<1>4. CASE d > 1
  <2>1. PreviousDate(date) = Date(y, m, d - 1)
    BY <1>1, <1>4 DEF PreviousDate, Date
  <2> HIDE DEF y, m, d
  <2> QED
    BY <1>1, <1>2, <1>3, <1>4, <2>1, Dated, SMTT(60)
<1>5. CASE d = 1 /\ m > 1
  <2> DEFINE k == m - 1
             last == DaysInMonth(y, k)
  <2>1. PreviousDate(date) = Date(y, k, last)
    BY <1>1, <1>5 DEF PreviousDate
  <2> HIDE DEF y, m, d
  <2>2. k \in 1..11 /\ k \in 1..12 /\ k + 1 = m
    BY <1>1, <1>5
  <2> HIDE DEF k
  <2>3. Offset(y, m) = Offset(y, k) + last /\ last \in 28..31 /\ Offset(y, k) \in Int
    <3>1. DaysInMonth(y, k) \in 28..31 /\ Offset(y, k) \in Int
      BY <1>1, <2>2, MonthTypes
    <3>2. Offset(y, k + 1) = Offset(y, k) + last
      BY <1>1, <2>2, MonthEnds
    <3> QED
      BY <2>2, <3>1, <3>2
  <2>4. last \in 1..DaysInMonth(y, k)
    BY <2>3
  <2>5. IsDate(PreviousDate(date)) /\ PreviousDate(date) \in Dates
        /\ DayNumber(PreviousDate(date)) = YearStart(y) + Offset(y, k) + last - 1
    BY <1>1, <2>1, <2>2, <2>4, Dated
  <2> HIDE DEF last
  <2> QED
    BY <1>2, <1>3, <1>5, <2>3, <2>5
<1>6. CASE d = 1 /\ m = 1
  <2> DEFINE x == y - 1
             last == DaysInMonth(x, 12)
  <2>1. PreviousDate(date) = Date(x, 12, last)
    BY <1>1, <1>6 DEF PreviousDate
  <2> HIDE DEF y, m, d
  <2>2. x \in Int /\ x + 1 = y
    BY <1>1
  <2> HIDE DEF x
  <2>3. YearStart(y) + Offset(y, 1) = YearStart(x) + Offset(x, 12) + last
    BY <2>2, DecemberEnds
  <2>4. last \in 28..31 /\ last \in 1..DaysInMonth(x, 12) /\ Offset(x, 12) \in Int
             /\ YearStart(x) \in Int
    <3>1. DaysInMonth(x, 12) \in 28..31 /\ Offset(x, 12) \in Int
      <4>1. 12 \in 1..12
        OBVIOUS
      <4> QED
        BY <2>2, <4>1, MonthTypes, Zenon
    <3> QED
      BY <2>2, <3>1, YearStartTypes
  <2>5. IsDate(PreviousDate(date)) /\ PreviousDate(date) \in Dates
        /\ DayNumber(PreviousDate(date)) = YearStart(x) + Offset(x, 12) + last - 1
    BY <2>1, <2>2, <2>4, Dated
  <2> HIDE DEF last
  <2> QED
    BY <1>2, <1>3, <1>6, <2>3, <2>4, <2>5
<1> QED
  BY <1>1, <1>2, <1>4, <1>5, <1>6

\* Years, months and days in the order of their texts are in the order of time.
LEMMA YearsPass ==
    ASSUME NEW a \in Int, NEW b \in Int, a < b
    PROVE  YearStart(a) + 365 + LeapDay(a) <= YearStart(b)
<1>1. LeapDaysBefore(a + 1) <= LeapDaysBefore(b)
  BY SMTT(60) DEF LeapDaysBefore
<1>2. LeapDaysBefore(a + 1) = LeapDaysBefore(a) + LeapDay(a)
  BY LeapStep
<1> QED
  BY <1>1, <1>2, LeapDayTypes DEF YearStart

LEMMA MonthsPass ==
    ASSUME NEW year \in Int, NEW a \in 1..12, NEW b \in 1..12, a < b
    PROVE  Offset(year, a) + DaysInMonth(year, a) <= Offset(year, b)
<1>1. a \in 1..11 /\ Offset(year, a + 1) = Offset(year, a) + DaysInMonth(year, a)
  BY MonthEnds
<1>2. LeapDay(year) \in {0, 1}
  BY LeapDayTypes
<1>3. Offset(year, a + 1) <= Offset(year, b)
  BY <1>1, <1>2, OffsetIs, SMTT(60)
<1> QED
  BY <1>1, <1>3

LEMMA YearLength ==
    ASSUME NEW date \in Dates, IsDate(date)
    PROVE  Offset(date.year, date.month) + date.day \in 1..(365 + LeapDay(date.year))
<1> DEFINE y == date.year
           m == date.month
           d == date.day
<1>1. y \in Int /\ m \in 1..12 /\ d \in 1..DaysInMonth(y, m)
  BY DateIs DEF IsDate
<1> HIDE DEF y, m, d
<1>2. Offset(y, m) \in 0..335 /\ DaysInMonth(y, m) \in 28..31 /\ LeapDay(y) \in {0, 1} /\ d \in Int
  <2>1. Offset(y, m) \in 0..335 /\ DaysInMonth(y, m) \in 28..31
    BY <1>1, MonthTypes, Zenon
  <2>2. LeapDay(y) \in {0, 1}
    BY <1>1, LeapDayTypes
  <2> QED
    BY <1>1, <2>1, <2>2
<1>3. Offset(y, m) + DaysInMonth(y, m) <= 365 + LeapDay(y)
  <2>1. CASE m = 12
    BY <1>1, <2>1, OffsetIs, MonthLength, LeapDayTypes
  <2>2. CASE m < 12
    <3>1. Offset(y, m) + DaysInMonth(y, m) <= Offset(y, 12)
      BY <1>1, <2>2, MonthsPass
    <3> QED
      BY <1>1, <1>2, <3>1, OffsetIs
  <2> QED
    BY <1>1, <2>1, <2>2
<1>4. Offset(y, m) + d \in 1..(365 + LeapDay(y))
  BY <1>1, <1>2, <1>3
<1> QED
  BY <1>4 DEF y, m, d

LEMMA BeforeIsEarlier ==
    ASSUME NEW a \in Dates, NEW b \in Dates, IsDate(a), IsDate(b), Before(a, b)
    PROVE  DayNumber(a) < DayNumber(b)
<1> DEFINE place(c) == Offset(c.year, c.month)
<1>1. /\ a.year \in Int /\ a.month \in 1..12 /\ a.day \in Int
           /\ a.day \in 1..DaysInMonth(a.year, a.month)
      /\ b.year \in Int /\ b.month \in 1..12 /\ b.day \in Int
           /\ b.day \in 1..DaysInMonth(b.year, b.month)
  BY DateIs DEF IsDate
<1>2. /\ DayNumber(a) = YearStart(a.year) + place(a) + a.day - 1
      /\ DayNumber(b) = YearStart(b.year) + place(b) + b.day - 1
  BY <1>1, DayNumberIs
<1>3. /\ YearStart(a.year) \in Int /\ YearStart(b.year) \in Int
      /\ place(a) \in Int /\ place(b) \in Int /\ LeapDay(a.year) \in {0, 1}
           /\ LeapDay(b.year) \in {0, 1}
  <2>1. place(a) \in Int /\ place(b) \in Int
    BY <1>1, MonthTypes
  <2>2. YearStart(a.year) \in Int /\ YearStart(b.year) \in Int
    BY <1>1, YearStartTypes
  <2> QED
    BY <1>1, <2>1, <2>2, LeapDayTypes
<1>4. CASE a.year < b.year
  <2>1. place(a) + a.day <= 365 + LeapDay(a.year) /\ place(b) + b.day >= 1
    BY YearLength, <1>3
  <2>2. YearStart(a.year) + 365 + LeapDay(a.year) <= YearStart(b.year)
    BY <1>1, <1>4, YearsPass
  <2> HIDE DEF place
  <2> QED
    BY <1>1, <1>2, <1>3, <2>1, <2>2
<1>5. CASE a.year = b.year /\ a.month < b.month
  <2>1. place(a) + DaysInMonth(a.year, a.month) <= place(b)
    BY <1>1, <1>5, MonthsPass
  <2>2. DaysInMonth(a.year, a.month) \in Int /\ DaysInMonth(b.year, b.month) \in Int
    BY <1>1, MonthTypes
  <2> HIDE DEF place
  <2> QED
    BY <1>1, <1>2, <1>3, <1>5, <2>1, <2>2
<1>6. CASE a.year = b.year /\ a.month = b.month /\ a.day < b.day
  BY <1>1, <1>2, <1>3, <1>6
<1> QED
  BY <1>4, <1>5, <1>6 DEF Before

\* The year of an era and the day of that year, which starts in March: what the
\* source computes from the day of the era by divisions alone.
YearOfEra(dayOfEra) ==
    (dayOfEra - dayOfEra \div 1460 + dayOfEra \div 36524 - dayOfEra \div 146096) \div 365

\* Centuries, spans of four years, and what is left: the last year of a span may
\* have one day more.
InEra(dayOfEra) == 0 <= dayOfEra /\ dayOfEra <= 146096

EraSplit(dayOfEra, c, q, t, k) ==
    /\ dayOfEra < 146096
    /\ c = dayOfEra \div 36524 /\ 0 <= c /\ c < 4
    /\ 0 <= q /\ q < 25 /\ 0 <= t /\ t < 1461
    /\ dayOfEra = 36524 * c + 1461 * q + t
    /\ t = 1460 => q # 24
    /\ k = (IF t = 1460 THEN 3 ELSE t \div 365)
    /\ 0 <= k /\ k < 4 /\ 0 <= t - 365 * k /\ t - 365 * k <= 365
    /\ t - 365 * k = 365 => k = 3 /\ t = 1460

LEMMA EraParts ==
    ASSUME NEW dayOfEra \in Int, 0 <= dayOfEra, dayOfEra < 146096
    PROVE  \E c, q, t, k \in Int : EraSplit(dayOfEra, c, q, t, k)
<1>1. PICK c \in Int : /\ c = dayOfEra \div 36524 /\ 0 <= c /\ c < 4
                       /\ 0 <= dayOfEra - 36524 * c /\ dayOfEra - 36524 * c < 36524
  OBVIOUS
<1>2. PICK r \in Int : r = dayOfEra - 36524 * c
  OBVIOUS
<1>3. PICK q \in Int : q = r \div 1461 /\ 0 <= q /\ q < 25 /\ 0 <= r - 1461 * q
           /\ r - 1461 * q < 1461
  BY <1>1, <1>2
<1>4. PICK t \in Int : t = r - 1461 * q
  OBVIOUS
<1>5. PICK k \in Int : k = (IF t = 1460 THEN 3 ELSE t \div 365)
  OBVIOUS
<1>6. 0 <= k /\ k < 4 /\ 0 <= t - 365 * k /\ t - 365 * k <= 365
      /\ (t - 365 * k = 365 => k = 3 /\ t = 1460)
  BY <1>3, <1>4, <1>5
<1>7. dayOfEra = 36524 * c + 1461 * q + t
  BY <1>2, <1>4
<1>8. t = 1460 => q # 24
  BY <1>1, <1>7
<1> WITNESS c \in Int, q \in Int, t \in Int, k \in Int
<1> QED
  BY <1>1, <1>3, <1>4, <1>5, <1>6, <1>7, <1>8, SMT DEF EraSplit

YearSplit(y, c, q, k) ==
    0 <= c /\ c < 4 /\ 0 <= q /\ q < 25 /\ 0 <= k /\ k < 4 /\ y = 100 * c + 4 * q + k

LEMMA YearParts ==
    ASSUME NEW c \in Int, NEW q \in Int, NEW k \in Int, NEW y \in Int, YearSplit(y, c, q, k)
    PROVE  /\ y \div 4 = 25 * c + q /\ y \div 100 = c
           /\ y \in 0..399
           /\ k = 3 /\ q # 24 => IsLeapYear(y + 1)
<1>1. y \div 4 = 25 * c + q
  BY SMTT(30) DEF YearSplit
<1>2. y \div 100 = c
  BY SMTT(30) DEF YearSplit
<1>3. ASSUME k = 3, q # 24 PROVE (y + 1) % 4 = 0 /\ (y + 1) % 100 # 0
  BY <1>3, SMTT(30) DEF YearSplit
<1>4. y \in 0..399
  BY SMTT(30) DEF YearSplit
<1> QED
  BY <1>4, <1>1, <1>2, <1>3 DEF IsLeapYear

LEMMA YearOfParts ==
    ASSUME NEW dayOfEra \in Int,
           NEW c \in Int, NEW q \in Int, NEW t \in Int, NEW k \in Int,
           EraSplit(dayOfEra, c, q, t, k)
    PROVE  YearSplit(YearOfEra(dayOfEra), c, q, k)
<1>1. k = (IF t = 1460 THEN 3 ELSE t \div 365)
  BY SMT DEF EraSplit
<1>2. YearOfEra(dayOfEra) = 100 * c + 4 * q + (IF t = 1460 THEN 3 ELSE t \div 365)
  BY SMTT(20) DEF YearOfEra, EraSplit
<1>3. 0 <= c /\ c < 4 /\ 0 <= q /\ q < 25 /\ 0 <= k /\ k < 4
  BY SMT DEF EraSplit
<1> QED
  BY <1>1, <1>2, <1>3, SMT DEF YearSplit

\* The day of such a year, which ends with a leap day if the next one has it.
DayOfMarchYear(dayOfEra) ==
    LET y == YearOfEra(dayOfEra)
    IN dayOfEra - (365 * y + y \div 4 - y \div 100)

LEMMA MarchYear ==
    ASSUME NEW dayOfEra \in Int, InEra(dayOfEra)
    PROVE  /\ YearOfEra(dayOfEra) \in 0..399 /\ DayOfMarchYear(dayOfEra) \in 0..365
           /\ DayOfMarchYear(dayOfEra) = 365 => IsLeapYear(YearOfEra(dayOfEra) + 1)
<1>1. CASE dayOfEra = 146096
  <2>1. YearOfEra(146096) = 399
    BY DEF YearOfEra
  <2>2. 146096 - (365 * 399 + 399 \div 4 - 399 \div 100) = 365
    OBVIOUS
  <2>3. IsLeapYear(399 + 1)
    BY DEF IsLeapYear
  <2> QED
    BY <1>1, <2>1, <2>2, <2>3 DEF DayOfMarchYear
<1>2. CASE dayOfEra # 146096
  <2>1. PICK c \in Int, q \in Int, t \in Int, k \in Int : EraSplit(dayOfEra, c, q, t, k)
    <3>1. 0 <= dayOfEra /\ dayOfEra < 146096
      BY <1>2 DEF InEra
    <3> QED
      BY <3>1, EraParts, SMT
  <2>2. YearSplit(YearOfEra(dayOfEra), c, q, k)
    BY <2>1, YearOfParts, Zenon
  <2>3. /\ dayOfEra = 36524 * c + 1461 * q + t /\ c \in Int /\ q \in Int /\ t \in Int /\ k \in Int
        /\ 0 <= t - 365 * k /\ t - 365 * k <= 365 /\ (t - 365 * k = 365 => k = 3 /\ q # 24)
    BY <2>1, SMT DEF EraSplit
  <2> DEFINE y == YearOfEra(dayOfEra)
  <2>4. y \in Int
    BY DEF YearOfEra
  <2> HIDE DEF y
  <2>5. YearSplit(y, c, q, k)
    BY <2>2, Zenon DEF y
  <2>6. /\ y \div 4 = 25 * c + q /\ y \div 100 = c /\ y \in 0..399
        /\ k = 3 /\ q # 24 => IsLeapYear(y + 1)
    BY <2>3, <2>4, <2>5, YearParts, SMT
  <2>7. y = 100 * c + 4 * q + k
    BY <2>5, SMT DEF YearSplit
  <2>8. DayOfMarchYear(dayOfEra) = dayOfEra - (365 * y + y \div 4 - y \div 100)
    BY Zenon DEF DayOfMarchYear, y
  <2>9. DayOfMarchYear(dayOfEra) = t - 365 * k
    BY <2>3, <2>4, <2>6, <2>7, <2>8, SMT
  <2>10. t - 365 * k \in 0..365
    BY <2>3, SMT
  <2>11. y \in 0..399 /\ (t - 365 * k = 365 => IsLeapYear(y + 1))
    BY <2>3, <2>6, SMT
  <2> QED
    BY <2>9, <2>10, <2>11, SMT DEF y
<1> QED
  BY <1>1, <1>2

LEMMA EraOf ==
    ASSUME NEW days \in Int
    PROVE  Quotient(IF days >= 0 THEN days ELSE days - 146096, 146097) = days \div 146097
  BY SMTT(30) DEF Quotient

\* The first of March of a year.
LEMMA MarchStarts ==
    ASSUME NEW year \in Int
    PROVE  YearStart(year) + Offset(year, 3) =
               365 * year + year \div 4 - year \div 100 + year \div 400 - 719468
<1>1. LeapDaysBefore(year + 1) = LeapDaysBefore(year) + LeapDay(year)
  BY LeapStep
<1>2. LeapDaysBefore(year + 1) = year \div 4 - year \div 100 + year \div 400
  BY DEF LeapDaysBefore
<1>3. Offset(year, 3) = 59 + LeapDay(year)
  BY OffsetIs
<1> QED
  BY <1>1, <1>2, <1>3, LeapDayTypes DEF YearStart

\* Leap days come back after 400 years.
LEMMA ErasRepeat ==
    ASSUME NEW y \in Int, y \in 0..399, NEW era \in Int
    PROVE  /\ (y + era * 400) \div 4 = y \div 4 + 100 * era
           /\ (y + era * 400) \div 100 = y \div 100 + 4 * era
           /\ (y + era * 400) \div 400 = era
           /\ IsLeapYear(y + 1) => IsLeapYear(y + era * 400 + 1)
<1>1. (y + era * 400) \div 4 = y \div 4 + 100 * era
  BY SMTT(20)
<1>2. (y + era * 400) \div 100 = y \div 100 + 4 * era
  BY SMTT(20)
<1>3. (y + era * 400) \div 400 = era
  BY SMTT(20)
<1>4. /\ (y + era * 400 + 1) % 4 = (y + 1) % 4
      /\ (y + era * 400 + 1) % 100 = (y + 1) % 100
      /\ (y + era * 400 + 1) % 400 = (y + 1) % 400
  BY SMTT(20)
<1> QED
  BY <1>1, <1>2, <1>3, <1>4, SMT DEF IsLeapYear

\* A month by its place p after March, and the days from the first of March to it.
Place(d) == (5 * d + 2) \div 153
DaysTo(p) == (153 * p + 2) \div 5

LEMMA PlaceOfDay ==
    ASSUME NEW d \in Int, d \in 0..365
    PROVE  /\ Place(d) \in Int /\ Place(d) \in 0..11
           /\ d - DaysTo(Place(d)) + 1 \in 1..31
           /\ Place(d) \in {1, 3, 6, 8} => d - DaysTo(Place(d)) + 1 \in 1..30
           /\ Place(d) = 11 => d - DaysTo(Place(d)) + 1 \in 1..29
           /\ Place(d) = 11 /\ d # 365 => d - DaysTo(Place(d)) + 1 \in 1..28
  BY SMTT(20) DEF Place, DaysTo

LEMMA DaysToIs ==
    /\ DaysTo(0) = 0 /\ DaysTo(1) = 31 /\ DaysTo(2) = 61 /\ DaysTo(3) = 92
    /\ DaysTo(4) = 122 /\ DaysTo(5) = 153 /\ DaysTo(6) = 184 /\ DaysTo(7) = 214
    /\ DaysTo(8) = 245 /\ DaysTo(9) = 275 /\ DaysTo(10) = 306 /\ DaysTo(11) = 337
  BY SMTT(20) DEF DaysTo

\* The months from March on.
LEMMA MonthsFromMarch ==
    ASSUME NEW year \in Int, NEW p \in Int, p \in 0..9
    PROVE  /\ p + 3 \in 1..12 /\ DaysTo(p) \in Int
           /\ Offset(year, p + 3) = Offset(year, 3) + DaysTo(p)
           /\ DaysInMonth(year, p + 3) = IF p \in {1, 3, 6, 8} THEN 30 ELSE 31
<1>1. p + 3 \in 1..12 /\ p + 3 # 2
  OBVIOUS
<1>2. DaysInMonth(year, p + 3) = IF p + 3 \in {4, 6, 9, 11} THEN 30 ELSE 31
  BY <1>1, MonthLength, SMT
<1>3. Offset(year, p + 3) = Offset(year, 3) + DaysTo(p)
  BY OffsetIs, DaysToIs, LeapDayTypes, SMTT(20)
<1>4. DaysTo(p) \in Int
  BY DaysToIs, SMT
<1> QED
  BY <1>1, <1>2, <1>3, <1>4, SMT

LEMMA EraStarts ==
    ASSUME NEW e \in Int, InEra(e), NEW era \in Int
    PROVE  LET year == YearOfEra(e) + era * 400
           IN  YearStart(year) + Offset(year, 3) + DayOfMarchYear(e) = 146097 * era + e - 719468
<1> DEFINE y == YearOfEra(e)
           year == y + era * 400
<1>1. y \in Int /\ y \in 0..399
  BY MarchYear, SMT
<1>2. DayOfMarchYear(e) = e - (365 * y + y \div 4 - y \div 100)
  BY DEF DayOfMarchYear
<1> HIDE DEF y
<1>3. /\ year \div 4 = y \div 4 + 100 * era /\ year \div 100 = y \div 100 + 4 * era
      /\ year \div 400 = era
  BY <1>1, ErasRepeat, SMT
<1>4. year \in Int /\ 365 * year = 365 * y + 146000 * era
  BY <1>1, SMT
<1> HIDE DEF year
<1>5. YearStart(year) + Offset(year, 3)
        = 365 * year + year \div 4 - year \div 100 + year \div 400 - 719468
  <2>1. year \in Int
    BY <1>4
  <2> QED
    BY <2>1, MarchStarts, SMT
<1>6. YearStart(year) + Offset(year, 3) + DayOfMarchYear(e) = 146097 * era + e - 719468
  BY <1>1, <1>2, <1>3, <1>4, <1>5, SMT
<1> QED
  BY <1>6, SMT DEF y, year

\* The date of the month at a place, and its day.
LEMMA DateOfPlace ==
    ASSUME NEW year \in Int, NEW d \in Int, d \in 0..365, d = 365 => IsLeapYear(year + 1)
    PROVE  LET p == Place(d)
               month == p + (IF p < 10 THEN 3 ELSE -9)
               date == Date(year + (IF month <= 2 THEN 1 ELSE 0), month, d - DaysTo(p) + 1)
           IN  /\ date \in Dates /\ IsDate(date)
               /\ DayNumber(date) = YearStart(year) + Offset(year, 3) + d
<1> DEFINE p == Place(d)
           month == p + (IF p < 10 THEN 3 ELSE -9)
           day == d - DaysTo(p) + 1
           date == Date(year + (IF month <= 2 THEN 1 ELSE 0), month, day)
<1>1. /\ p \in Int /\ p \in 0..11 /\ day \in 1..31
      /\ p \in {1, 3, 6, 8} => day \in 1..30
      /\ p = 11 => day \in 1..29
      /\ p = 11 /\ d # 365 => day \in 1..28
  BY PlaceOfDay, SMT
<1>2. YearStart(year) \in Int /\ Offset(year, 3) \in Int /\ DaysTo(p) \in Int
  <2>1. Offset(year, 3) = 59 + LeapDay(year) /\ LeapDay(year) \in Int
    BY OffsetIs, LeapDayTypes, SMT
  <2>2. DaysTo(p) \in Int
    BY <1>1, DaysToIs, SMT
  <2> QED
    BY <2>1, <2>2, YearStartTypes, SMT
<1> HIDE DEF p
<1>3. ASSUME p < 10
      PROVE  date \in Dates /\ IsDate(date)
                  /\ DayNumber(date) = YearStart(year) + Offset(year, 3) + d
  <2>1. month = p + 3 /\ year + (IF month <= 2 THEN 1 ELSE 0) = year /\ p \in 0..9
    BY <1>1, <1>3, SMT
  <2>2. /\ p + 3 \in 1..12 /\ Offset(year, p + 3) = Offset(year, 3) + DaysTo(p)
        /\ DaysInMonth(year, p + 3) = IF p \in {1, 3, 6, 8} THEN 30 ELSE 31
    BY <1>1, <2>1, MonthsFromMarch, SMT
  <2>3. day \in 1..DaysInMonth(year, p + 3)
    BY <1>1, <2>2, SMT
  <2> DEFINE m == p + 3
  <2> HIDE DEF m, day
  <2>4. m \in 1..12 /\ day \in 1..DaysInMonth(year, m) /\ date = Date(year, m, day)
    BY <2>1, <2>2, <2>3, SMT DEF m
  <2> HIDE DEF date
  <2>5. date \in Dates /\ IsDate(date)
             /\ DayNumber(date) = YearStart(year) + Offset(year, m) + day - 1
    BY <2>4, Dated, SMT
  <2>6. Offset(year, m) = Offset(year, 3) + DaysTo(p)
    BY <2>2 DEF m
  <2>7. YearStart(year) + Offset(year, m) + day - 1 = YearStart(year) + Offset(year, 3) + d
    BY <1>2, <2>6, SMT DEF day
  <2> QED
    BY <2>5, <2>7, SMT
<1>4. ASSUME ~(p < 10)
      PROVE  date \in Dates /\ IsDate(date)
                  /\ DayNumber(date) = YearStart(year) + Offset(year, 3) + d
  <2> DEFINE next == year + 1
             m == p - 9
  <2>1. next \in Int /\ m \in 1..2 /\ m \in 1..12 /\ m \in Int /\ date = Date(next, m, day)
             /\ p = m + 9
    BY <1>1, <1>4, SMT
  <2> HIDE DEF next, m
  <2>2. day \in 1..DaysInMonth(next, m)
    <3>1. DaysInMonth(next, 1) = 31 /\ DaysInMonth(next, 2) = 28 + LeapDay(next)
      BY <2>1, MonthLength, SMT
    <3>2. d = 365 => LeapDay(next) = 1
      BY SMT DEF LeapDay, next
    <3>3. LeapDay(next) \in {0, 1}
      BY <2>1, LeapDayTypes, SMT
    <3> HIDE DEF day
    <3> QED
      BY <1>1, <2>1, <3>1, <3>2, <3>3, SMT
  <2>3. YearStart(next) + Offset(next, m) = YearStart(year) + Offset(year, 3) + DaysTo(p)
    <3>1. YearStart(next) = YearStart(year) + 365 + LeapDay(year)
      BY YearEnds, SMT DEF next
    <3>2. Offset(next, 1) = 0 /\ Offset(next, 2) = 31 /\ Offset(year, 3) = 59 + LeapDay(year)
      BY <2>1, OffsetIs, SMT
    <3>3. p = 10 => DaysTo(p) = 306
      BY DaysToIs, SMT
    <3>4. p = 11 => DaysTo(p) = 337
      BY DaysToIs, SMT
    <3> QED
      BY <1>2, <2>1, <3>1, <3>2, <3>3, <3>4, LeapDayTypes, SMTT(30)
  <2> HIDE DEF date
  <2>4. date \in Dates /\ IsDate(date)
             /\ DayNumber(date) = YearStart(next) + Offset(next, m) + day - 1
    <3> HIDE DEF day
    <3> QED
      BY <2>1, <2>2, Dated, SMT
  <2>5. YearStart(next) \in Int /\ Offset(next, m) \in Int
    <3>1. Offset(next, 1) = 0 /\ Offset(next, 2) = 31
      BY <2>1, OffsetIs, SMT
    <3> QED
      BY <2>1, <3>1, YearStartTypes, SMT
  <2> QED
    BY <1>2, <2>3, <2>4, <2>5, SMTT(30)
<1>5. date \in Dates /\ IsDate(date) /\ DayNumber(date) = YearStart(year) + Offset(year, 3) + d
  BY <1>3, <1>4
<1> QED
  BY <1>5 DEF p

\* The date of a day is that of the calendar, before the epoch as after it.
LEMMA CivilIsDay ==
    ASSUME NEW days \in Int
    PROVE  /\ CivilFromDays(days) \in Dates /\ IsDate(CivilFromDays(days))
           /\ DayNumber(CivilFromDays(days)) = days
<1> DEFINE n == days + 719468
           era == n \div 146097
           e == n - era * 146097
<1>1. n \in Int /\ era \in Int /\ e \in Int /\ 0 <= e /\ e <= 146096
  BY SMT
<1>2. Quotient(IF n >= 0 THEN n ELSE n - 146096, 146097) = era
  BY EraOf, SMT
<1>3. days = 146097 * era + e - 719468
  BY SMT
<1> HIDE DEF n, era, e
<1> DEFINE y == YearOfEra(e)
           d == DayOfMarchYear(e)
           year == y + era * 400
           p == Place(d)
           month == p + (IF p < 10 THEN 3 ELSE -9)
           date == Date(year + (IF month <= 2 THEN 1 ELSE 0), month, d - DaysTo(p) + 1)
<1>4. CivilFromDays(days) = date
  <2>1. MarchDate(year, d) = date
    BY SMT DEF MarchDate, Place, DaysTo
  <2>2. EraDate(era, e) = MarchDate(year, d)
    BY SMT DEF EraDate, YearOfEra, DayOfMarchYear
  <2>3. CivilFromDays(days) = EraDate(era, e)
    BY <1>2, SMT DEF CivilFromDays, n, e
  <2> QED
    BY <2>1, <2>2, <2>3
<1>5. /\ y \in Int /\ y \in 0..399 /\ d \in Int /\ d \in 0..365
      /\ d = 365 => IsLeapYear(y + 1)
  BY <1>1, MarchYear, SMT DEF InEra
<1>6. YearStart(year) + Offset(year, 3) + d = days
  BY <1>1, <1>3, EraStarts, SMT DEF InEra
<1> HIDE DEF y, d
<1>7. year \in Int /\ (d = 365 => IsLeapYear(year + 1))
  BY <1>1, <1>5, ErasRepeat, SMT
<1> HIDE DEF year
<1>8. date \in Dates /\ IsDate(date) /\ DayNumber(date) = YearStart(year) + Offset(year, 3) + d
  BY <1>5, <1>7, DateOfPlace, SMT
<1> QED
  BY <1>4, <1>6, <1>8

\* An instant made of a count of minutes is that many minutes from the epoch.
THEOREM UtcIsTheInstant ==
    ASSUME NEW minutes \in Int
    PROVE  /\ UnixToUtc(minutes) \in Instants /\ IsDate(UnixToUtc(minutes).date)
           /\ MinuteNumber(UnixToUtc(minutes)) = minutes
<1> DEFINE days == minutes \div DayMinutes
           rest == minutes % DayMinutes
           date == CivilFromDays(days)
<1>1. days \in Int /\ rest \in 0..(DayMinutes - 1) /\ rest \in Int /\ minutes = days * 1440 + rest
  BY SMT DEF DayMinutes
<1> HIDE DEF days, rest
<1>2. date \in Dates /\ IsDate(date) /\ DayNumber(date) = days
  BY <1>1, CivilIsDay, SMT
<1>3. UnixToUtc(minutes) = [date |-> date, minute |-> rest]
  BY DEF UnixToUtc, Instant, days, rest
<1> HIDE DEF date
<1>4. /\ UnixToUtc(minutes).date = date /\ UnixToUtc(minutes).minute = rest
      /\ UnixToUtc(minutes) \in Instants
  BY <1>1, <1>2, <1>3 DEF Instants
<1> QED
  BY <1>1, <1>2, <1>4, SMT DEF MinuteNumber, DayMinutes

\* The instant a written one is, before it is refused or accepted.
Moved(written) ==
    LET minute == written.minute - written.offset
    IN CASE minute < 0 -> Instant(PreviousDate(written.date), minute + DayMinutes)
         [] minute >= DayMinutes -> Instant(NextDate(written.date), minute - DayMinutes)
         [] OTHER -> Instant(written.date, minute)

FourDigits(year) == year \in 0..9999

\* What a written instant has to be to be accepted.
Acceptable(written) ==
    /\ IsDate(written.date)
    /\ written.minute \in 0..(DayMinutes - 1)
    /\ written.offset \in (1 - DayMinutes)..(DayMinutes - 1)
    /\ FourDigits(Moved(written).date.year)

LEMMA ParseIs ==
    ASSUME NEW written
    PROVE  ParseTimestamp(written) =
               IF /\ IsDate(written.date)
                  /\ written.minute \in 0..(DayMinutes - 1)
                  /\ written.offset \in (1 - DayMinutes)..(DayMinutes - 1)
                  /\ FourDigits(Moved(written).date.year)
               THEN Moved(written) ELSE Refused
  BY SMT DEF ParseTimestamp, Moved, FourDigits

LEMMA ParsesTo ==
    ASSUME NEW written, ParseTimestamp(written) # Refused
    PROVE  ParseTimestamp(written) = Moved(written) /\ Acceptable(written)
<1> DEFINE A == IsDate(written.date)
           B == written.minute \in 0..(DayMinutes - 1)
           C == written.offset \in (1 - DayMinutes)..(DayMinutes - 1)
           D == FourDigits(Moved(written).date.year)
<1>1. ParseTimestamp(written) = IF A /\ B /\ C /\ D THEN Moved(written) ELSE Refused
  BY ParseIs, Zenon
<1> HIDE DEF A, B, C, D
<1>2. ParseTimestamp(written) = Moved(written) /\ A /\ B /\ C /\ D
  BY <1>1, Zenon
<1> QED
  BY <1>2, Zenon DEF A, B, C, D, Acceptable

LEMMA MovedIs ==
    ASSUME NEW written, NEW minute \in Int, minute = written.minute - written.offset
    PROVE  /\ minute < 0 => Moved(written) = Instant(PreviousDate(written.date), minute + DayMinutes)
           /\ ~(minute < 0) /\ minute >= DayMinutes
                => Moved(written) = Instant(NextDate(written.date), minute - DayMinutes)
           /\ ~(minute < 0)
                /\ ~(minute >= DayMinutes) => Moved(written) = Instant(written.date, minute)
<1>1. Moved(written) = CASE minute < 0 -> Instant(PreviousDate(written.date), minute + DayMinutes)
         [] minute >= DayMinutes -> Instant(NextDate(written.date), minute - DayMinutes)
         [] OTHER -> Instant(written.date, minute)
  BY Zenon DEF Moved
<1>2. minute < 0 => ~(minute >= DayMinutes)
  BY SMT DEF DayMinutes
<1>3. ASSUME minute < 0
      PROVE  Moved(written) = Instant(PreviousDate(written.date), minute + DayMinutes)
  BY <1>1, <1>2, <1>3, Zenon
<1>4. ASSUME ~(minute < 0), minute >= DayMinutes
      PROVE  Moved(written) = Instant(NextDate(written.date), minute - DayMinutes)
  BY <1>1, <1>4, Zenon
<1>5. ASSUME ~(minute < 0), ~(minute >= DayMinutes)
      PROVE  Moved(written) = Instant(written.date, minute)
  BY <1>1, <1>5, Zenon
<1> QED
  BY <1>3, <1>4, <1>5, Zenon

LEMMA MinuteOfDay ==
    ASSUME NEW n \in 0..(DayMinutes - 1)
    PROVE  n \in Int /\ 0 <= n /\ n < 1440
  BY SMT DEF DayMinutes

LEMMA OffsetOfClock ==
    ASSUME NEW n \in (1 - DayMinutes)..(DayMinutes - 1)
    PROVE  n \in Int /\ n < 1440 /\ n + 1440 > 0
  BY SMT DEF DayMinutes

\* The minute of the day before, of the day itself or of the day after.
Clock(m, o) ==
    m \in Int /\ o \in Int /\ 0 <= m /\ m < 1440 /\ o < 1440 /\ o + 1440 > 0

Shifts(minute) ==
    /\ minute < 0 => minute + 1440 \in 0..(DayMinutes - 1)
    /\ minute >= 1440 => minute - 1440 \in 0..(DayMinutes - 1)
    /\ (minute >= 0 /\ minute < 1440) => minute \in 0..(DayMinutes - 1)

LEMMA MinuteMoves ==
    ASSUME NEW m, NEW o, Clock(m, o)
    PROVE  Shifts(m - o) /\ m - o \in Int /\ (m - o) + o = m
  BY SMTT(30) DEF DayMinutes, Shifts, Clock

LEMMA LaterDay ==
    ASSUME NEW x \in Int, NEW y \in Int, NEW i \in Int, NEW j \in Int,
           i < 1440, 0 <= j, x < y
    PROVE  x * 1440 + i < y * 1440 + j
  BY SMTT(30)

\* A written instant that is accepted is the moment it was written for.
THEOREM TimestampIsTheInstant ==
    ASSUME NEW written \in WrittenInstants, ParseTimestamp(written) # Refused
    PROVE  LET instant == ParseTimestamp(written)
           IN  /\ IsDate(written.date)
               /\ instant \in Instants /\ IsDate(instant.date)
               /\ MinuteNumber(instant) + written.offset
                     = DayNumber(written.date) * DayMinutes + written.minute
<1> DEFINE date == written.date
           minute == written.minute - written.offset
           Reached(day, rest) ==
               /\ Moved(written) = Instant(day, rest) /\ day \in Dates /\ IsDate(day)
               /\ rest \in 0..(DayMinutes - 1)
               /\ DayNumber(day) * 1440 + rest = DayNumber(date) * 1440 + minute
<1>1. DayMinutes = 1440 /\ date \in Dates
  BY DEF WrittenInstants, DayMinutes
<1>2. ParseTimestamp(written) = Moved(written) /\ Acceptable(written)
  BY ParsesTo, Zenon
<1>3. /\ IsDate(date) /\ written.minute \in 0..(DayMinutes - 1)
      /\ written.offset \in (1 - DayMinutes)..(DayMinutes - 1)
  BY <1>2, SMT DEF Acceptable
<1>4. /\ written.minute \in Int /\ 0 <= written.minute /\ written.minute < 1440
      /\ written.offset \in Int /\ written.offset < 1440 /\ written.offset + 1440 > 0
  BY <1>3, MinuteOfDay, OffsetOfClock, SMT
<1>5. Shifts(minute) /\ minute \in Int /\ minute + written.offset = written.minute
  <2> DEFINE m == written.minute
             o == written.offset
  <2>1. Clock(m, o)
    BY <1>4, SMTT(30) DEF Clock
  <2> HIDE DEF m, o
  <2>2. Shifts(m - o) /\ m - o \in Int /\ (m - o) + o = m
    BY <2>1, MinuteMoves, SMT
  <2> QED
    BY <2>2 DEF m, o
<1>6. /\ minute < 0 => Moved(written) = Instant(PreviousDate(date), minute + DayMinutes)
      /\ ~(minute < 0) /\ minute >= DayMinutes
           => Moved(written) = Instant(NextDate(date), minute - DayMinutes)
      /\ ~(minute < 0) /\ ~(minute >= DayMinutes) => Moved(written) = Instant(date, minute)
  BY <1>5, MovedIs, SMT
<1>7. DayNumber(date) \in Int
  BY <1>1, <1>3, DayNumberTypes, SMTT(30)
<1> HIDE DEF date, minute
<1>8. ASSUME minute < 0 PROVE \E day, rest : Reached(day, rest)
  <2>1. /\ PreviousDate(date) \in Dates /\ IsDate(PreviousDate(date))
        /\ DayNumber(PreviousDate(date)) = DayNumber(date) - 1
    BY <1>1, <1>3, PreviousDay, SMT
  <2>2. Moved(written) = Instant(PreviousDate(date), minute + 1440)
    BY <1>1, <1>6, <1>8, SMTT(30)
  <2>3. DayNumber(PreviousDate(date)) * 1440 + (minute + 1440) = DayNumber(date) * 1440 + minute
    BY <1>5, <1>7, <2>1, SMT
  <2>4. Reached(PreviousDate(date), minute + 1440)
    BY <1>5, <1>8, <2>1, <2>2, <2>3, SMT DEF Shifts
  <2> HIDE DEF Reached
  <2> QED
    BY <2>4, SMT
<1>9. ASSUME minute >= 1440 PROVE \E day, rest : Reached(day, rest)
  <2>1. /\ NextDate(date) \in Dates /\ IsDate(NextDate(date))
        /\ DayNumber(NextDate(date)) = DayNumber(date) + 1
    BY <1>1, <1>3, NextDay, SMT
  <2>2. Moved(written) = Instant(NextDate(date), minute - 1440)
    BY <1>1, <1>5, <1>6, <1>9, SMT
  <2>3. DayNumber(NextDate(date)) * 1440 + (minute - 1440) = DayNumber(date) * 1440 + minute
    BY <1>5, <1>7, <2>1, SMT
  <2>4. Reached(NextDate(date), minute - 1440)
    BY <1>5, <1>9, <2>1, <2>2, <2>3, SMT DEF Shifts
  <2> HIDE DEF Reached
  <2> QED
    BY <2>4, SMTT(30)
<1>10. ASSUME 0 <= minute, minute < 1440 PROVE \E day, rest : Reached(day, rest)
  <2>1. Moved(written) = Instant(date, minute)
    BY <1>1, <1>5, <1>6, <1>10, SMTT(30)
  <2>2. Reached(date, minute)
    BY <1>1, <1>3, <1>5, <1>10, <2>1, SMT DEF Shifts
  <2> HIDE DEF Reached
  <2> QED
    BY <2>2, SMT
<1>11. \E day, rest : Reached(day, rest)
  <2> HIDE DEF Reached
  <2>1. minute < 0 \/ minute >= 1440 \/ (0 <= minute /\ minute < 1440)
    BY <1>5, SMT
  <2> QED
    BY <1>8, <1>9, <1>10, <2>1, SMT
<1>12. PICK day, rest : Reached(day, rest)
  <2> HIDE DEF Reached
  <2> QED
    BY <1>11, Zenon
<1>13. /\ Moved(written) = Instant(day, rest) /\ day \in Dates /\ IsDate(day)
       /\ rest \in 0..(DayMinutes - 1)
       /\ DayNumber(day) * 1440 + rest = DayNumber(date) * 1440 + minute
  BY <1>12
<1>14. Moved(written) \in Instants /\ Moved(written).date = day /\ Moved(written).minute = rest
  BY <1>13, SMT DEF Instants, Instant
<1>15. MinuteNumber(Moved(written)) = DayNumber(date) * 1440 + minute
  BY <1>1, <1>13, <1>14, SMT DEF MinuteNumber
<1>16. MinuteNumber(Moved(written)) + written.offset = DayNumber(date) * 1440 + written.minute
  BY <1>4, <1>5, <1>7, <1>15, SMT
<1> QED
  BY <1>1, <1>2, <1>3, <1>13, <1>14, <1>16 DEF date

\* Instants in the order of their texts are in the order of time.
THEOREM EarlierIsEarlier ==
    ASSUME NEW a \in Instants, NEW b \in Instants, IsDate(a.date), IsDate(b.date)
    PROVE  Earlier(a, b) <=> MinuteNumber(a) < MinuteNumber(b)
<1> DEFINE x == DayNumber(a.date)
           y == DayNumber(b.date)
           i == a.minute
           j == b.minute
<1>1. /\ a.date \in Dates /\ b.date \in Dates
      /\ i \in 0..(DayMinutes - 1) /\ j \in 0..(DayMinutes - 1)
  BY SMT DEF Instants
<1>2. i \in Int /\ 0 <= i /\ i < 1440 /\ j \in Int /\ 0 <= j /\ j < 1440
  BY <1>1, MinuteOfDay, SMT
<1>3. x \in Int /\ y \in Int
  BY <1>1, DayNumberTypes, SMT
<1>4. MinuteNumber(a) = x * 1440 + i /\ MinuteNumber(b) = y * 1440 + j
  BY SMT DEF MinuteNumber, DayMinutes
<1>5. (Before(a.date, b.date) => x < y) /\ (Before(b.date, a.date) => y < x)
  BY <1>1, BeforeIsEarlier, SMT
<1>6. /\ Before(a.date, b.date) \/ Before(b.date, a.date) \/ a.date = b.date
      /\ a.date = b.date => x = y
  BY <1>1, SMT DEF Before, Dates
<1> HIDE DEF x, y, i, j
<1>7. x < y => MinuteNumber(a) < MinuteNumber(b)
  BY <1>2, <1>3, <1>4, LaterDay, SMT
<1>8. y < x => MinuteNumber(b) < MinuteNumber(a)
  BY <1>2, <1>3, <1>4, LaterDay, SMT
<1>9. x = y => (MinuteNumber(a) < MinuteNumber(b) <=> i < j)
  BY <1>2, <1>3, <1>4, SMT
<1>10. Earlier(a, b) <=> Before(a.date, b.date) \/ (a.date = b.date /\ i < j)
  BY Zenon DEF Earlier, i, j
<1>11. MinuteNumber(a) \in Int /\ MinuteNumber(b) \in Int
  BY <1>2, <1>3, <1>4, SMT
<1>12. /\ x < y \/ y < x \/ x = y
       /\ x < y => ~(y < x) /\ x # y
       /\ y < x => x # y
       /\ MinuteNumber(b) < MinuteNumber(a) => ~(MinuteNumber(a) < MinuteNumber(b))
  BY <1>3, <1>11, SMT
<1> QED
  BY <1>5, <1>6, <1>7, <1>8, <1>9, <1>10, <1>12, Zenon

-----------------------------------------------------------------------------
(***************************************************************************)
(* Sequences, and what they are made of.                                   *)
(***************************************************************************)
\* The sequences so far, one after the other.
Flat(f, seqs) ==
    f = [i \in 1..Len(seqs) |-> IF i = 1 THEN seqs[i] ELSE f[i - 1] \o seqs[i]]

LEMMA FlatExists ==
    ASSUME NEW seqs, Len(seqs) \in Nat
    PROVE  \E f : Flat(f, seqs)
<1> DEFINE Upto(f, k) == f = [i \in 1..k |-> IF i = 1 THEN seqs[i] ELSE f[i - 1] \o seqs[i]]
           T == {k \in Nat : ~ \E f : Upto(f, k)}
<1>1. 0 \notin T
  <2> DEFINE f == [i \in 1..0 |-> None]
  <2>1. Upto(f, 0)
    OBVIOUS
  <2> QED
    BY <2>1
<1>2. ASSUME NEW k \in Nat, k \notin T
      PROVE  k + 1 \notin T
  <2>1. PICK f : Upto(f, k)
    BY <1>2
  <2> DEFINE last == IF k = 0 THEN seqs[1] ELSE f[k] \o seqs[k + 1]
             h == [i \in 1..(k + 1) |-> IF i = k + 1 THEN last ELSE f[i]]
  <2>2. ASSUME NEW i \in 1..(k + 1)
        PROVE  h[i] = IF i = 1 THEN seqs[i] ELSE h[i - 1] \o seqs[i]
    <3>1. CASE i = k + 1
      <4>1. h[i] = last
        BY <3>1
      <4>2. k # 0 => h[i - 1] = f[k]
        BY <3>1
      <4>3. (k = 0 <=> i = 1) /\ k + 1 = i
        BY <3>1
      <4> QED
        BY <4>1, <4>2, <4>3
    <3>2. CASE i # k + 1
      <4>1. i \in 1..k /\ h[i] = f[i]
        BY <3>2
      <4>2. f[i] = IF i = 1 THEN seqs[i] ELSE f[i - 1] \o seqs[i]
        BY <2>1, <4>1
      <4>3. i # 1 => h[i - 1] = f[i - 1]
        BY <4>1
      <4> QED
        BY <4>1, <4>2, <4>3
    <3> QED
      BY <3>1, <3>2
  <2>3. h = [i \in 1..(k + 1) |-> h[i]]
    OBVIOUS
  <2> HIDE DEF h
  <2>4. Upto(h, k + 1)
    BY <2>2, <2>3
  <2> QED
    BY <2>4
<1>3. T \subseteq Nat
  OBVIOUS
<1> HIDE DEF T
<1>4. T = {}
  <2> SUFFICES ASSUME T # {}
               PROVE  FALSE
    OBVIOUS
  <2>1. PICK k \in T : \A m \in T : k <= m
    BY <1>3, LeastNumber
  <2>2. k \in Nat /\ k # 0 /\ k - 1 \notin T
    BY <1>1, <1>3, <2>1
  <2>3. k - 1 \in Nat /\ (k - 1) + 1 = k
    BY <2>2
  <2> QED
    BY <1>2, <2>1, <2>2, <2>3
<1>5. PICK f : Upto(f, Len(seqs))
  BY <1>4 DEF T
<1> QED
  BY <1>5 DEF Flat

\* The elements of two sequences one after the other.
LEMMA BothSets ==
    ASSUME NEW T, NEW a \in Seq(T), NEW b \in Seq(T)
    PROVE  a \o b \in Seq(T) /\ ToSet(a \o b) = ToSet(a) \cup ToSet(b)
<1>1. /\ a \o b \in Seq(T) /\ Len(a \o b) = Len(a) + Len(b)
      /\ \A i \in 1..Len(a) : (a \o b)[i] = a[i]
      /\ \A i \in 1..Len(b) : (a \o b)[Len(a) + i] = b[i]
      /\ DOMAIN (a \o b) = 1..(Len(a) + Len(b)) /\ DOMAIN a = 1..Len(a) /\ DOMAIN b = 1..Len(b)
      /\ Len(a) \in Nat /\ Len(b) \in Nat
  OBVIOUS
<1>2. ASSUME NEW i \in 1..(Len(a) + Len(b))
      PROVE  (a \o b)[i] \in ToSet(a) \cup ToSet(b)
  <2>1. CASE i <= Len(a)
    BY <1>1, <2>1 DEF ToSet
  <2>2. CASE i > Len(a)
    <3>1. i - Len(a) \in 1..Len(b) /\ Len(a) + (i - Len(a)) = i
      BY <1>1, <2>2
    <3> QED
      BY <1>1, <3>1 DEF ToSet
  <2> QED
    BY <1>1, <2>1, <2>2
<1>3. ASSUME NEW i \in 1..Len(a) PROVE a[i] \in ToSet(a \o b)
  <2>1. i \in 1..(Len(a) + Len(b))
    BY <1>1
  <2> QED
    BY <1>1, <2>1 DEF ToSet
<1>4. ASSUME NEW i \in 1..Len(b) PROVE b[i] \in ToSet(a \o b)
  <2>1. Len(a) + i \in 1..(Len(a) + Len(b))
    BY <1>1
  <2> QED
    BY <1>1, <2>1 DEF ToSet
<1>5. ToSet(a \o b) \subseteq ToSet(a) \cup ToSet(b)
  BY <1>1, <1>2 DEF ToSet
<1>6. ToSet(a) \subseteq ToSet(a \o b) /\ ToSet(b) \subseteq ToSet(a \o b)
  BY <1>1, <1>3, <1>4 DEF ToSet
<1> QED
  BY <1>1, <1>5, <1>6

\* A sequence of sequences has the elements of each, however many there are.
LEMMA FlattenIs ==
    ASSUME NEW T, NEW seqs \in Seq(Seq(T))
    PROVE  /\ FlattenSeq(seqs) \in Seq(T)
           /\ ToSet(FlattenSeq(seqs)) = UNION {ToSet(seqs[i]) : i \in DOMAIN seqs}
<1> DEFINE n == Len(seqs)
           flat == CHOOSE f : Flat(f, seqs)
           All(k) == UNION {ToSet(seqs[i]) : i \in 1..k}
           Built(k) == flat[k] \in Seq(T) /\ ToSet(flat[k]) = All(k)
           Unbuilt == {k \in 1..n : ~Built(k)}
<1>1. n \in Nat /\ DOMAIN seqs = 1..n /\ \A i \in 1..n : seqs[i] \in Seq(T)
  OBVIOUS
<1>2. CASE n = 0
  <2>1. FlattenSeq(seqs) = seqs /\ seqs = <<>>
    BY <1>2 DEF FlattenSeq
  <2> QED
    BY <1>1, <1>2, <2>1 DEF ToSet
<1>3. CASE n # 0
  <2>1. Flat(flat, seqs)
    BY <1>1, FlatExists
  <2>2. FlattenSeq(seqs) = flat[n]
    BY <1>3, Zenon DEF FlattenSeq, Flat
  <2> HIDE DEF flat
  <2>3. \A k \in 1..n : flat[k] = IF k = 1 THEN seqs[k] ELSE flat[k - 1] \o seqs[k]
    BY <2>1 DEF Flat
  <2> HIDE DEF n
  <2>4. Built(1)
    <3>1. 1 \in 1..n
      BY <1>1, <1>3
    <3>2. flat[1] = seqs[1]
      BY <2>3, <3>1
    <3>3. All(1) = ToSet(seqs[1])
      OBVIOUS
    <3> QED
      BY <1>1, <3>1, <3>2, <3>3
  <2>5. ASSUME NEW k \in 1..n, k # 1, Built(k - 1)
        PROVE  Built(k)
    <3>1. flat[k] = flat[k - 1] \o seqs[k]
      BY <2>3, <2>5
    <3>2. flat[k] \in Seq(T) /\ ToSet(flat[k]) = ToSet(flat[k - 1]) \cup ToSet(seqs[k])
      BY <1>1, <2>5, <3>1, BothSets
    <3>3. 1..k = 1..(k - 1) \cup {k}
      BY <1>1
    <3>4. All(k) = All(k - 1) \cup ToSet(seqs[k])
      BY <3>3
    <3> QED
      BY <2>5, <3>2, <3>4
  <2>6. Unbuilt \subseteq Nat
    BY <1>1
  <2> HIDE DEF Built
  <2>7. Unbuilt = {}
    <3> SUFFICES ASSUME Unbuilt # {}
                 PROVE  FALSE
      OBVIOUS
    <3>1. PICK k \in Unbuilt : \A m \in Unbuilt : k <= m
      BY <2>6, LeastNumber
    <3>2. k \in 1..n /\ ~Built(k)
      BY <3>1
    <3>3. k # 1
      BY <2>4, <3>2
    <3>4. k - 1 \in 1..n /\ ~(k <= k - 1)
      BY <1>1, <3>2, <3>3
    <3>5. Built(k - 1)
      BY <3>1, <3>4
    <3> QED
      BY <2>5, <3>2, <3>3, <3>5
  <2>8. n \in 1..n
    BY <1>1, <1>3
  <2>9. Built(n)
    BY <2>7, <2>8
  <2> QED
    BY <1>1, <2>2, <2>9 DEF Built
<1> QED
  BY <1>2, <1>3

\* A sequence of its own elements.
Listed(s) == s \in Seq(ToSet(s))

LEMMA ListedOf ==
    ASSUME NEW T, NEW s \in Seq(T)
    PROVE  Listed(s) /\ ToSet(s) \subseteq T
<1>1. DOMAIN s = 1..Len(s) /\ Len(s) \in Nat /\ s = [i \in 1..Len(s) |-> s[i]]
  OBVIOUS
<1>2. ToSet(s) \subseteq T
  BY <1>1 DEF ToSet
<1>3. \A i \in 1..Len(s) : s[i] \in ToSet(s)
  BY <1>1 DEF ToSet
<1>4. s \in Seq(ToSet(s))
  BY <1>1, <1>3
<1> QED
  BY <1>2, <1>4 DEF Listed

LEMMA ListedNone == Listed(<<>>) /\ ToSet(<<>>) = {}
  BY DEF Listed, ToSet

LEMMA ListedOne ==
    ASSUME NEW w
    PROVE  Listed(<<w>>) /\ ToSet(<<w>>) = {w}
<1>1. <<w>> \in Seq({w})
  OBVIOUS
<1>2. ToSet(<<w>>) = {w}
  BY DEF ToSet
<1> QED
  BY <1>1, <1>2 DEF Listed

LEMMA ListedBoth ==
    ASSUME NEW a, NEW b, Listed(a), Listed(b)
    PROVE  Listed(a \o b) /\ ToSet(a \o b) = ToSet(a) \cup ToSet(b)
<1> DEFINE T == ToSet(a) \cup ToSet(b)
<1>1. a \in Seq(T) /\ b \in Seq(T)
  <2>1. a \in Seq(ToSet(a)) /\ b \in Seq(ToSet(b))
    BY DEF Listed
  <2>2. ToSet(a) \subseteq T /\ ToSet(b) \subseteq T
    OBVIOUS
  <2> HIDE DEF T
  <2> QED
    BY <2>1, <2>2
<1>2. a \o b \in Seq(T) /\ ToSet(a \o b) = T
  BY <1>1, BothSets
<1> QED
  BY <1>2 DEF Listed

LEMMA ListedFlat ==
    ASSUME NEW seqs, Listed(seqs), \A s \in ToSet(seqs) : Listed(s)
    PROVE  /\ Listed(FlattenSeq(seqs))
           /\ ToSet(FlattenSeq(seqs)) = UNION {ToSet(s) : s \in ToSet(seqs)}
<1> DEFINE T == UNION {ToSet(s) : s \in ToSet(seqs)}
<1>1. seqs \in Seq(Seq(T))
  <2>1. ASSUME NEW s \in ToSet(seqs) PROVE s \in Seq(T)
    <3>1. s \in Seq(ToSet(s)) /\ ToSet(s) \subseteq T
      BY DEF Listed
    <3> HIDE DEF T
    <3> QED
      BY <3>1
  <2>2. seqs \in Seq(ToSet(seqs))
    BY DEF Listed
  <2>3. ToSet(seqs) \subseteq Seq(T)
    BY <2>1
  <2> HIDE DEF T
  <2> QED
    BY <2>2, <2>3
<1>2. FlattenSeq(seqs) \in Seq(T)
           /\ ToSet(FlattenSeq(seqs)) = UNION {ToSet(seqs[i]) : i \in DOMAIN seqs}
  BY <1>1, FlattenIs
<1>3. UNION {ToSet(seqs[i]) : i \in DOMAIN seqs} = T
  <2>1. ToSet(seqs) = {seqs[i] : i \in DOMAIN seqs}
    BY DEF ToSet
  <2> QED
    BY <2>1
<1> QED
  BY <1>2, <1>3 DEF Listed

\* A sequence given element by element.
LEMMA ListedMap ==
    ASSUME NEW s, NEW n \in Nat, DOMAIN s = 1..n, s = [i \in 1..n |-> s[i]]
    PROVE  Listed(s) /\ ToSet(s) = {s[i] : i \in 1..n} /\ Len(s) = n
<1>1. ToSet(s) = {s[i] : i \in 1..n}
  BY DEF ToSet
<1>2. \A i \in 1..n : s[i] \in ToSet(s)
  BY <1>1
<1>3. s \in Seq(ToSet(s)) /\ Len(s) = n
  BY <1>2
<1> QED
  BY <1>1, <1>3 DEF Listed

-----------------------------------------------------------------------------
(***************************************************************************)
(* Folds.  The library's fold goes over sets of positions; what one gives    *)
(* for the first i elements follows from what it gives for those before.     *)
(***************************************************************************)
\* Every set of the first n numbers has a largest one.
LEMMA MaxIsThere ==
    ASSUME NEW n \in Nat, NEW s \in SUBSET (1..n), s # {}
    PROVE  Max(s) \in s /\ \A y \in s : Max(s) >= y
<1> DEFINE N == {n - y : y \in s}
<1>1. N \subseteq Nat /\ N # {}
  <2>1. \A y \in s : n - y \in Nat
    OBVIOUS
  <2> QED
    BY <2>1
<1>2. PICK m \in N : \A k \in N : m <= k
  BY <1>1, LeastNumber
<1>3. PICK x \in s : m = n - x
  BY <1>2
<1>4. \A y \in s : x >= y
  <2> TAKE y \in s
  <2>1. n - y \in N
    OBVIOUS
  <2> QED
    BY <2>1, <1>2, <1>3
<1> HIDE DEF N
<1> QED
  BY <1>3, <1>4 DEF Max

\* The largest number of a set of the first n + 1 that holds the last of them.
LEMMA TopOfSet ==
    ASSUME NEW n \in Nat, NEW s \in SUBSET (1..(n + 1)), n + 1 \in s
    PROVE  Max(s) = n + 1 /\ s \ {n + 1} \in SUBSET (1..n)
<1> DEFINE top == n + 1
<1>1. top \in Nat /\ s \in SUBSET (1..top) /\ s # {}
  OBVIOUS
<1>2. Max(s) \in s /\ \A y \in s : Max(s) >= y
  BY <1>1, MaxIsThere
<1>3. Max(s) \in 1..(n + 1) /\ Max(s) >= n + 1
  BY <1>2
<1>4. \A y \in s \ {n + 1} : y \in 1..n
  <2> TAKE y \in s \ {n + 1}
  <2>1. y \in 1..(n + 1) /\ y # n + 1
    OBVIOUS
  <2> QED
    BY <2>1
<1>5. Max(s) = n + 1
  BY <1>3
<1> QED
  BY <1>4, <1>5

LEMMA TopOfFirst ==
    ASSUME NEW n \in Nat, NEW i \in 1..n
    PROVE  /\ Max(1..i) = i /\ (1..i) \ {i} = 1..(i - 1)
           /\ 1..i # {} /\ 1..i \in SUBSET (1..n)
<1>1. i - 1 \in Nat /\ (i - 1) + 1 = i /\ i \in 1..i
  OBVIOUS
<1>2. Max(1..i) = i
  <2>1. 1..i \in SUBSET (1..((i - 1) + 1)) /\ (i - 1) + 1 \in 1..i
    BY <1>1
  <2> QED
    BY <1>1, <2>1, TopOfSet
<1> QED
  BY <1>1, <1>2

FoldOf(g, n, base, h) ==
    g = [s \in SUBSET (1..n) |-> IF s = {} THEN base ELSE h[<<Max(s), g[s \ {Max(s)}]>>]]

LEMMA FoldExists ==
    ASSUME NEW n \in Nat, NEW V, NEW base \in V, NEW h \in [(1..n) \X V -> V]
    PROVE  \E g : FoldOf(g, n, base, h) /\ \A s \in SUBSET (1..n) : g[s] \in V
<1> DEFINE Step(g, s) == IF s = {} THEN base ELSE h[<<Max(s), g[s \ {Max(s)}]>>]
           Folds(g, k) == /\ g = [s \in SUBSET (1..k) |-> Step(g, s)]
                          /\ \A s \in SUBSET (1..k) : g[s] \in V
           T == {k \in 0..n : ~ \E g : Folds(g, k)}
<1>1. 0 \notin T
  <2> DEFINE g == [s \in SUBSET (1..0) |-> base]
  <2>1. \A s \in SUBSET (1..0) : s = {}
    OBVIOUS
  <2>2. Folds(g, 0)
    BY <2>1
  <2> QED
    BY <2>2
<1>2. ASSUME NEW k \in 0..n, k \notin T, k + 1 \in 0..n
      PROVE  k + 1 \notin T
  <2>1. PICK g : Folds(g, k)
    BY <1>2
  <2> DEFINE step(s) == h[<<k + 1, g[s \ {k + 1}]>>]
             f == [s \in SUBSET (1..(k + 1)) |-> IF k + 1 \in s THEN step(s) ELSE g[s]]
  <2>0. k \in Nat
    OBVIOUS
  <2>2. ASSUME NEW s \in SUBSET (1..(k + 1))
        PROVE  f[s] = Step(f, s) /\ f[s] \in V
    <3>1. CASE k + 1 \in s
      <4>1. Max(s) = k + 1 /\ s \ {k + 1} \in SUBSET (1..k)
        BY <2>0, <3>1, TopOfSet
      <4>2. s \ {k + 1} \in SUBSET (1..(k + 1)) /\ k + 1 \notin s \ {k + 1}
        OBVIOUS
      <4>3. f[s \ {k + 1}] = g[s \ {k + 1}]
        BY <4>2
      <4>4. f[s] = step(s) /\ s # {}
        BY <3>1
      <4>5. g[s \ {k + 1}] \in V
        BY <2>1, <4>1
      <4>7. k + 1 \in 1..n
        BY <1>2
      <4>6. step(s) \in V
        BY <4>5, <4>7
      <4> HIDE DEF f
      <4> QED
        BY <4>1, <4>3, <4>4, <4>6
    <3>2. CASE k + 1 \notin s
      <4>1. s \in SUBSET (1..k)
        BY <3>2
      <4>2. f[s] = g[s]
        BY <3>2
      <4>3. g[s] = Step(g, s) /\ g[s] \in V
        BY <2>1, <4>1
      <4>4. s \ {Max(s)} \in SUBSET (1..(k + 1)) /\ k + 1 \notin s \ {Max(s)}
        BY <3>2
      <4>5. f[s \ {Max(s)}] = g[s \ {Max(s)}]
        BY <4>4
      <4> HIDE DEF f
      <4> QED
        BY <4>2, <4>3, <4>5
    <3> QED
      BY <3>1, <3>2
  <2>3. f = [s \in SUBSET (1..(k + 1)) |-> Step(f, s)]
    <3>1. \E D : f = [s \in D |-> f[s]] /\ D = SUBSET (1..(k + 1))
      OBVIOUS
    <3> HIDE DEF f, Step
    <3> QED
      BY <2>2, <3>1
  <2>4. Folds(f, k + 1)
    <3> HIDE DEF f, Step
    <3> QED
      BY <2>2, <2>3
  <2> QED
    BY <2>4
<1>3. T = {}
  <2> SUFFICES ASSUME T # {}
               PROVE  FALSE
    OBVIOUS
  <2>1. T \subseteq Nat
    OBVIOUS
  <2>2. PICK k \in T : \A m \in T : k <= m
    BY <2>1, LeastNumber
  <2>3. k \in 0..n
    OBVIOUS
  <2> HIDE DEF T
  <2>4. k # 0
    BY <1>1, <2>2
  <2>5. k - 1 \in 0..n /\ (k - 1) + 1 = k /\ ~(k <= k - 1)
    BY <2>3, <2>4
  <2>6. k - 1 \notin T
    BY <2>2, <2>5
  <2> QED
    BY <1>2, <2>2, <2>3, <2>5, <2>6
<1>4. n \in 0..n
  OBVIOUS
<1>5. \E g : Folds(g, n)
  BY <1>3, <1>4
<1> QED
  BY <1>5 DEF FoldOf

\* A chain of values, each from the one before and the next position.
ChainOf(c, n, V, base, h) ==
    c \in [0..n -> V] /\ c[0] = base /\ \A i \in 1..n : c[i] = h[<<i, c[i - 1]>>]

GrowsBy(G, n, V, base, h) ==
    /\ n \in Nat /\ base \in V /\ h \in [(1..n) \X V -> V]
    /\ G[{}] = base
    /\ \A i \in 1..n : G[1..(i - 1)] \in V => G[1..i] = h[<<i, G[1..(i - 1)]>>]

LEMMA ChainExists ==
    ASSUME NEW n, NEW V, NEW base, NEW h, NEW G, GrowsBy(G, n, V, base, h)
    PROVE  \E c : ChainOf(c, n, V, base, h) /\ c[n] = G[1..n]
<1>0. n \in Nat /\ base \in V /\ h \in [(1..n) \X V -> V]
  BY DEF GrowsBy
<1> DEFINE c == [i \in 0..n |-> G[1..i]]
           T == {i \in 0..n : c[i] \notin V}
<1>1. c[0] = base /\ c[n] = G[1..n]
  <2>1. 1..0 = {} /\ 0 \in 0..n /\ n \in 0..n
    BY <1>0
  <2> QED
    BY <2>1 DEF GrowsBy
<1>2. ASSUME NEW i \in 1..n, c[i - 1] \in V
      PROVE  c[i] = h[<<i, c[i - 1]>>] /\ c[i] \in V
  <2>1. i \in 0..n /\ i - 1 \in 0..n
    BY <1>0
  <2>2. c[i] = G[1..i] /\ c[i - 1] = G[1..(i - 1)]
    BY <2>1
  <2> HIDE DEF c
  <2> QED
    BY <1>2, <2>2 DEF GrowsBy
<1>3. T = {}
  <2> SUFFICES ASSUME T # {}
               PROVE  FALSE
    OBVIOUS
  <2>1. T \subseteq Nat
    BY <1>0
  <2>2. PICK k \in T : \A m \in T : k <= m
    BY <2>1, LeastNumber
  <2> HIDE DEF c
  <2>3. k \in 0..n /\ k # 0 /\ c[k] \notin V
    BY <1>0, <1>1, <2>2
  <2>4. k - 1 \in 0..n /\ k \in 1..n /\ ~(k <= k - 1)
    BY <1>0, <2>3
  <2>5. c[k - 1] \in V
    BY <2>2, <2>4
  <2> QED
    BY <1>2, <2>3, <2>4, <2>5
<1>4. \A i \in 0..n : c[i] \in V
  BY <1>3
<1>5. c \in [0..n -> V]
  BY <1>4
<1>6. \A i \in 1..n : c[i] = h[<<i, c[i - 1]>>]
  <2> TAKE i \in 1..n
  <2>1. i - 1 \in 0..n
    BY <1>0
  <2> HIDE DEF c
  <2> QED
    BY <1>2, <1>4, <2>1
<1> HIDE DEF c
<1> QED
  BY <1>1, <1>5, <1>6 DEF ChainOf
\* What a fold over the first n positions gives: of a set of them, from the last.
FoldedBy(G, n, V, base, h) ==
    /\ n \in Nat /\ base \in V /\ h \in [(1..n) \X V -> V]
    /\ G[{}] = base
    /\ \A s \in SUBSET (1..n) :
          s # {} /\ G[s \ {Max(s)}] \in V => G[s] = h[<<Max(s), G[s \ {Max(s)}]>>]

LEMMA FoldedChain ==
    ASSUME NEW n, NEW V, NEW base, NEW h, NEW G, FoldedBy(G, n, V, base, h)
    PROVE  \E c : ChainOf(c, n, V, base, h) /\ c[n] = G[1..n]
<1>0. n \in Nat
  BY DEF FoldedBy
<1>1. ASSUME NEW i \in 1..n, G[1..(i - 1)] \in V
      PROVE  G[1..i] = h[<<i, G[1..(i - 1)]>>]
  <2>1. Max(1..i) = i /\ (1..i) \ {i} = 1..(i - 1) /\ 1..i # {} /\ 1..i \in SUBSET (1..n)
    BY <1>0, TopOfFirst
  <2> QED
    BY <1>1, <2>1 DEF FoldedBy
<1>2. GrowsBy(G, n, V, base, h)
  BY <1>1 DEF GrowsBy, FoldedBy
<1> QED
  BY <1>2, ChainExists

\* What holds at the start and after every step holds at every position.
\* (Used through sets: S holds the positions at which it does.)
LEMMA Stepwise ==
    ASSUME NEW n \in Nat, NEW S, 0 \in S, \A i \in 1..n : i - 1 \in S => i \in S
    PROVE  \A i \in 0..n : i \in S
<1> DEFINE T == {i \in 0..n : i \notin S}
<1> SUFFICES ASSUME T # {}
             PROVE  FALSE
  OBVIOUS
<1>1. T \subseteq Nat
  OBVIOUS
<1>2. PICK k \in T : \A m \in T : k <= m
  BY <1>1, LeastNumber
<1>3. k \in 1..n /\ k - 1 \in 0..n /\ ~(k <= k - 1) /\ k \notin S
  BY <1>2
<1>4. k - 1 \notin T
  BY <1>2, <1>3
<1> QED
  BY <1>3, <1>4

\* The sum of a sequence of numbers.
Total(w) == FoldLeft(LAMBDA total, x : total + x, 0, w)

LEMMA TotalChain ==
    ASSUME NEW w \in Seq(Int)
    PROVE  \E c \in [0..Len(w) -> Int] :
               /\ c[0] = 0 /\ \A i \in 1..Len(w) : c[i] = c[i - 1] + w[i]
               /\ Total(w) = c[Len(w)]
<1> DEFINE n == Len(w)
           V == Int
           base == 0
           Step(total, x) == total + x
           Folds(g) == g = [s \in SUBSET (1..n) |->
                               IF s = {} THEN base ELSE Step(g[s \ {Max(s)}], w[Max(s)])]
           G == CHOOSE g : Folds(g)
           h == [p \in (1..n) \X V |-> Step(p[2], w[p[1]])]
<1>1. /\ n \in Nat /\ DOMAIN w = 1..n /\ base \in V
      /\ \A i \in 1..n, v \in V : Step(v, w[i]) \in V
  OBVIOUS
<1>2. Total(w) = G[1..n]
  BY <1>1, Zenon DEF Total, FoldLeft, MapThenFoldSet
<1> HIDE DEF n, V, base, Step
<1>3. h \in [(1..n) \X V -> V] /\ \A i \in 1..n, v \in V : h[<<i, v>>] = Step(v, w[i])
  BY <1>1
<1> HIDE DEF h
<1>4. Folds(G)
  <2>1. PICK g : FoldOf(g, n, base, h) /\ \A s \in SUBSET (1..n) : g[s] \in V
    BY <1>1, <1>3, FoldExists
  <2>2. ASSUME NEW s \in SUBSET (1..n), s # {}
        PROVE  h[<<Max(s), g[s \ {Max(s)}]>>] = Step(g[s \ {Max(s)}], w[Max(s)])
    <3>1. Max(s) \in 1..n
      BY <1>1, <2>2, MaxIsThere
    <3> QED
      BY <1>3, <2>1, <3>1
  <2>3. Folds(g)
    BY <2>1, <2>2 DEF FoldOf
  <2> QED
    BY <2>3
<1> HIDE DEF G
<1>5. FoldedBy(G, n, V, base, h)
  <2>1. ASSUME NEW s \in SUBSET (1..n), s # {}, G[s \ {Max(s)}] \in V
        PROVE  G[s] = h[<<Max(s), G[s \ {Max(s)}]>>]
    <3>1. Max(s) \in 1..n
      BY <1>1, <2>1, MaxIsThere
    <3>2. G[s] = Step(G[s \ {Max(s)}], w[Max(s)])
      BY <1>4, <2>1
    <3> QED
      BY <1>3, <2>1, <3>1, <3>2
  <2>2. G[{}] = base
    BY <1>4
  <2> QED
    BY <1>1, <1>3, <2>1, <2>2 DEF FoldedBy
<1>6. PICK c : ChainOf(c, n, V, base, h) /\ c[n] = G[1..n]
  BY <1>5, FoldedChain
<1>7. \A i \in 1..n : c[i] = Step(c[i - 1], w[i])
  <2> TAKE i \in 1..n
  <2>1. i - 1 \in 0..n
    BY <1>1
  <2> QED
    BY <1>3, <1>6, <2>1 DEF ChainOf
<1> QED
  BY <1>2, <1>6, <1>7 DEF n, V, base, Step, ChainOf
-----------------------------------------------------------------------------
(***************************************************************************)
(* Finite sets in their order.  An order is a set of pairs here: the         *)
(* adapters order spans, instants and dates, each by an operator of its own. *)
(***************************************************************************)
\* The pairs of R order T strictly.
Strict(R, T) ==
    \A a, b, c \in T :
        /\ <<a, a>> \notin R
        /\ <<a, b>> \in R /\ <<b, c>> \in R => <<a, c>> \in R
        /\ a = b \/ <<a, b>> \in R \/ <<b, a>> \in R

\* Some element of finitely many has none after it.
LEMMA LastOne ==
    ASSUME NEW R, NEW S, Strict(R, S), IsFiniteSet(S), S # {}
    PROVE  \E last \in S : \A s \in S : <<last, s>> \notin R
<1> DEFINE After(s) == {t \in S : <<s, t>> \in R}
           N == {Cardinality(After(s)) : s \in S}
<1>1. ASSUME NEW s \in S
      PROVE  IsFiniteSet(After(s)) /\ Cardinality(After(s)) \in Nat
  <2>1. After(s) \in SUBSET S
    OBVIOUS
  <2> QED
    BY <2>1, FS_Subset, FS_CardinalityType
<1>2. N \subseteq Nat /\ N # {}
  BY <1>1
<1>3. PICK n \in N : \A m \in N : n <= m
  BY <1>2, LeastNumber
<1>4. PICK last \in S : n = Cardinality(After(last))
  BY <1>3
<1>5. ASSUME NEW s \in S, <<last, s>> \in R
      PROVE  FALSE
  <2>1. After(s) \subseteq After(last)
    BY <1>5 DEF Strict
  <2>2. s \in After(last) /\ s \notin After(s)
    BY <1>5 DEF Strict
  <2>3. n <= Cardinality(After(s))
    BY <1>3
  <2> HIDE DEF After, N
  <2>4. Cardinality(After(s)) <= Cardinality(After(last)) /\ After(s) # After(last)
    BY <1>1, <1>4, <2>1, <2>2, FS_Subset
  <2>5. Cardinality(After(s)) = Cardinality(After(last))
    BY <1>1, <1>4, <2>3, <2>4
  <2> QED
    BY <1>1, <1>4, <2>1, <2>4, <2>5, FS_Subset
<1> QED
  BY <1>4, <1>5

Increases(order, S, R) ==
    /\ order \in [1..Cardinality(S) -> S]
    /\ \A i, j \in DOMAIN order : i < j => <<order[i], order[j]>> \in R

LEMMA StrictPart ==
    ASSUME NEW R, NEW T, Strict(R, T), NEW S \in SUBSET T
    PROVE  Strict(R, S)
  BY DEF Strict

\* Every finite set can be listed in the order of its elements.
LEMMA OrderExists ==
    ASSUME NEW R, NEW S, Strict(R, S), IsFiniteSet(S)
    PROVE  \E order : Increases(order, S, R)
<1> DEFINE Fails(n) == \E U \in SUBSET S :
                           IsFiniteSet(U) /\ Cardinality(U) = n /\ ~ \E order : Increases(order, U, R)
           T == {n \in Nat : Fails(n)}
<1>1. ASSUME NEW U \in SUBSET S, IsFiniteSet(U), Cardinality(U) = 0
      PROVE  \E order : Increases(order, U, R)
  <2> DEFINE order == [i \in 1..0 |-> None]
  <2>1. order \in [1..0 -> U]
    OBVIOUS
  <2>2. DOMAIN order = {}
    OBVIOUS
  <2> HIDE DEF order
  <2>3. Increases(order, U, R)
    BY <1>1, <2>1, <2>2 DEF Increases
  <2> QED
    BY <2>3
<1>2. ASSUME NEW n \in Nat, ~Fails(n)
      PROVE  ~Fails(n + 1)
  <2> SUFFICES ASSUME NEW U \in SUBSET S, IsFiniteSet(U), Cardinality(U) = n + 1
               PROVE  \E order : Increases(order, U, R)
    OBVIOUS
  <2>1. U # {}
    BY FS_EmptySet
  <2>2. PICK last \in U : \A s \in U : <<last, s>> \notin R
    BY <2>1, StrictPart, LastOne
  <2> DEFINE V == U \ {last}
  <2>3. V \in SUBSET S /\ IsFiniteSet(V) /\ Cardinality(V) = n
    <3>1. IsFiniteSet(V) /\ Cardinality(V) = Cardinality(U) - 1
      BY FS_RemoveElement
    <3>2. (n + 1) - 1 = n
      OBVIOUS
    <3> QED
      BY <2>2, <3>1, <3>2
  <2> HIDE DEF V
  <2>4. PICK f : Increases(f, V, R)
    BY <1>2, <2>3
  <2>5. /\ f \in [1..n -> V]
        /\ \A i, j \in 1..n : i < j => <<f[i], f[j]>> \in R
    BY <2>3, <2>4 DEF Increases
  <2> DEFINE g == [i \in 1..(n + 1) |-> IF i = n + 1 THEN last ELSE f[i]]
  <2>6. ASSUME NEW i \in 1..(n + 1)
        PROVE  /\ i = n + 1 => g[i] = last
               /\ i # n + 1 => i \in 1..n /\ g[i] = f[i] /\ g[i] \in V
    BY <2>5
  <2>7. g \in [1..(n + 1) -> U] /\ DOMAIN g = 1..(n + 1)
    <3>1. ASSUME NEW i \in 1..(n + 1) PROVE g[i] \in U
      BY <2>6 DEF V
    <3> QED
      BY <3>1
  <2> HIDE DEF g
  <2>8. ASSUME NEW i \in 1..(n + 1), NEW j \in 1..(n + 1), i < j
        PROVE  <<g[i], g[j]>> \in R
    <3>1. i # n + 1 /\ i \in 1..n /\ g[i] = f[i] /\ g[i] \in V
      BY <2>6, <2>8
    <3>2. CASE j = n + 1
      <4>1. g[j] = last /\ g[i] \in U /\ g[i] # last
        BY <2>6, <3>1, <3>2 DEF V
      <4>2. g[i] \in S /\ last \in S /\ <<last, g[i]>> \notin R
        BY <2>2, <4>1
      <4> QED
        BY <4>1, <4>2 DEF Strict
    <3>3. CASE j # n + 1
      <4>1. j \in 1..n /\ g[j] = f[j]
        BY <2>6, <3>3
      <4> QED
        BY <2>5, <2>8, <3>1, <4>1
    <3> QED
      BY <3>2, <3>3
  <2>9. Increases(g, U, R)
    BY <2>7, <2>8 DEF Increases
  <2> QED
    BY <2>9
<1>3. T \subseteq Nat /\ 0 \notin T
  BY <1>1
<1> HIDE DEF Fails
<1>4. T = {}
  <2> SUFFICES ASSUME T # {}
               PROVE  FALSE
    OBVIOUS
  <2>1. PICK n \in T : \A m \in T : n <= m
    BY <1>3, LeastNumber
  <2>2. n \in Nat /\ n # 0 /\ n - 1 \notin T
    BY <1>3, <2>1
  <2>3. n - 1 \in Nat /\ (n - 1) + 1 = n
    BY <2>2
  <2> QED
    BY <1>2, <2>1, <2>2, <2>3
<1>5. Cardinality(S) \in Nat
  BY FS_CardinalityType
<1> QED
  BY <1>4, <1>5 DEF Fails

\* What lists a set in order, and has each element once.
Lists(order, S, R) ==
    /\ Cardinality(S) \in Nat /\ order \in [1..Cardinality(S) -> S]
    /\ \A s \in S : \E i \in 1..Cardinality(S) : order[i] = s
    /\ \A i, j \in 1..Cardinality(S) :
          /\ i < j => <<order[i], order[j]>> \in R
          /\ order[i] = order[j] => i = j

LEMMA OrderLists ==
    ASSUME NEW R, NEW S, Strict(R, S), IsFiniteSet(S), NEW order, Increases(order, S, R)
    PROVE  Lists(order, S, R)
<1> DEFINE n == Cardinality(S)
<1>1. n \in Nat
  BY FS_CardinalityType
<1>2. IsFiniteSet(1..n) /\ Cardinality(1..n) = n
  BY <1>1, FS_Interval
<1>3. order \in [1..n -> S] /\ \A i, j \in 1..n : i < j => <<order[i], order[j]>> \in R
  BY DEF Increases
<1>4. ASSUME NEW i \in 1..n, NEW j \in 1..n, order[i] = order[j]
      PROVE  i = j
  <2>1. order[i] \in S
    BY <1>3
  <2>2. ~(i < j) /\ ~(j < i)
    BY <1>3, <1>4, <2>1 DEF Strict
  <2> QED
    BY <1>1, <2>2
<1>5. order \in Injection(1..n, S)
  BY <1>3, <1>4 DEF Injection, IsInjective
<1>6. order \in Surjection(1..n, S)
  BY <1>2, <1>5, FS_Injection
<1> QED
  BY <1>1, <1>3, <1>4, <1>6 DEF Surjection, Lists

-----------------------------------------------------------------------------
(***************************************************************************)
(* Spans of buckets in their order.                                        *)
(***************************************************************************)
AllSpans == Int \X Int
SpanPairs == {p \in AllSpans \X AllSpans : OpenAi!SpanLess(p[1], p[2])}

LEMMA SpanOrder ==
    ASSUME NEW S \in SUBSET AllSpans
    PROVE  Strict(SpanPairs, S)
<1>1. ASSUME NEW a \in AllSpans, NEW b \in AllSpans, NEW c \in AllSpans
      PROVE  /\ ~OpenAi!SpanLess(a, a)
             /\ OpenAi!SpanLess(a, b) /\ OpenAi!SpanLess(b, c) => OpenAi!SpanLess(a, c)
             /\ a = b \/ OpenAi!SpanLess(a, b) \/ OpenAi!SpanLess(b, a)
  BY SMT DEF OpenAi!SpanLess, AllSpans
<1>2. ASSUME NEW a \in AllSpans, NEW b \in AllSpans
      PROVE  <<a, b>> \in SpanPairs <=> OpenAi!SpanLess(a, b)
  BY DEF SpanPairs
<1> QED
  BY <1>1, <1>2 DEF Strict

LEMMA SameSize == ASSUME NEW S PROVE OpenAi!Cardinality(S) = Cardinality(S)
  BY DEF OpenAi!Cardinality, Cardinality

\* In its order a finite set of spans is listed in full.
LEMMA InOrderIs ==
    ASSUME NEW S \in SUBSET AllSpans, IsFiniteSet(S)
    PROVE  Lists(OpenAi!InOrder(S, OpenAi!SpanLess), S, SpanPairs)
<1> DEFINE order == OpenAi!InOrder(S, OpenAi!SpanLess)
           n == Cardinality(S)
           Sorted(f) == \A i, j \in DOMAIN f : i < j => OpenAi!SpanLess(f[i], f[j])
<1>1. order = CHOOSE f \in [1..n -> S] : Sorted(f)
  BY SameSize, Zenon DEF OpenAi!InOrder
<1>2. ASSUME NEW f \in [1..n -> S]
      PROVE  Sorted(f) <=> Increases(f, S, SpanPairs)
  BY DEF Increases, SpanPairs
<1> HIDE DEF order, Sorted
<1>3. \E f : Increases(f, S, SpanPairs)
  BY SpanOrder, OrderExists
<1>4. \E f \in [1..n -> S] : Sorted(f)
  BY <1>2, <1>3 DEF Increases
<1>5. Increases(order, S, SpanPairs)
  BY <1>1, <1>2, <1>4, Zenon
<1> QED
  BY <1>5, SpanOrder, OrderLists DEF order

-----------------------------------------------------------------------------
(***************************************************************************)
(* The windows of a plan.                                                  *)
(***************************************************************************)
LEMMA PercentLimits ==
    ASSUME NEW percent \in Option(Percent)
    PROVE  /\ PercentStatus(percent) \in Statuses
           /\ PercentStatus(percent) = "rateLimited" <=> percent # None /\ Reaches(percent, 100)
  BY StatusesAre, SMT DEF PercentStatus

LEMMA WindowIs ==
    ASSUME NEW id, NEW meter \in Meters, NEW label, NEW percent \in Option(Percent),
           NEW unlimited \in BOOLEAN, NEW resetsAt, NEW status \in Statuses
    PROVE  IsAllowance(Window(id, meter, label, percent, unlimited, resetsAt, status))
<1> DEFINE w == Window(id, meter, label, percent, unlimited, resetsAt, status)
<1>1. w = [id |-> id, meter |-> meter, label |-> label, percent |-> percent,
           unlimited |-> unlimited, resetsAt |-> resetsAt, status |-> status]
  BY DEF Window
<1>2. HasFields(w, {"id", "meter", "percent", "unlimited", "status"})
  BY <1>1 DEF HasFields
<1>3. w.meter = meter /\ w.percent = percent /\ w.unlimited = unlimited /\ w.status = status
  BY <1>1
<1> HIDE DEF w
<1>4. IsAllowance(w)
  BY <1>2, <1>3, Zenon DEF IsAllowance
<1> QED
  BY <1>4 DEF w

\* A window is limited exactly when it is spent.
Fits(w) ==
    /\ w.status \in Statuses /\ IsAllowance(w)
    /\ ~w.unlimited => (w.status = "rateLimited" <=> IsExhausted(w))

LEMMA WindowFits ==
    ASSUME NEW id, NEW meter \in Meters, NEW label, NEW percent \in Option(Percent),
           NEW unlimited \in BOOLEAN, NEW resetsAt
    PROVE  Fits(Window(id, meter, label, percent, unlimited, resetsAt, PercentStatus(percent)))
<1> DEFINE w == Window(id, meter, label, percent, unlimited, resetsAt, PercentStatus(percent))
<1>1. w.percent = percent /\ w.unlimited = unlimited /\ w.status = PercentStatus(percent)
  BY DEF Window
<1>3. IsAllowance(w)
  BY PercentLimits, WindowIs
<1> HIDE DEF w
<1>2. Fits(w)
  BY <1>1, <1>3, PercentLimits DEF Fits, IsExhausted
<1> QED
  BY <1>2 DEF w

LEMMA WindowFields ==
    ASSUME NEW id, NEW meter, NEW label, NEW percent, NEW unlimited, NEW resetsAt, NEW status
    PROVE  LET w == Window(id, meter, label, percent, unlimited, resetsAt, status)
           IN  w.id = id /\ w.resetsAt = resetsAt
  BY DEF Window

\* What an adapter has to give an account for it to be limited as it is spent.
IsPlanAccount(account) ==
    /\ account.status = WorstStatus(account.allowances)
    /\ Listed(account.allowances)
    /\ \A w \in ToSet(account.allowances) : Fits(w)

LEMMA HealthyPlan ==
    ASSUME NEW account, IsPlanAccount(account), account.status = "ok"
    PROVE  account.allowances # <<>> /\ \A w \in ToSet(account.allowances) : ~IsExhausted(w)
<1> DEFINE windows == account.allowances
           S == {windows[i].status : i \in DOMAIN windows}
<1>1. Worst(S) = "ok" /\ \A w \in ToSet(windows) : Fits(w)
  BY DEF IsPlanAccount, WorstStatus
<1>2. S \subseteq Statuses
  BY <1>1 DEF ToSet, Fits
<1>3. S # {}
  BY <1>1 DEF Worst
<1>4. windows # <<>>
  BY <1>3
<1>5. ASSUME NEW w \in ToSet(windows) PROVE ~IsExhausted(w)
  <2>1. w.status \in S
    BY DEF ToSet
  <2>2. Severity[w.status] <= Severity["ok"]
    BY <1>1, <1>2, <1>3, <2>1, WorstIsTop
  <2>3. w.status # "rateLimited"
    BY <2>2, SeverityIs
  <2> QED
    BY <1>1, <2>3 DEF Fits, IsExhausted
<1> QED
  BY <1>4, <1>5

-----------------------------------------------------------------------------
(***************************************************************************)
(* Codex.  An adapter is an instance of its module, with a copy of each    *)
(* shared operator; a copy is the operator itself.                         *)
(***************************************************************************)
LEMMA CodexFlatten == ASSUME NEW s PROVE Codex!FlattenSeq(s) = FlattenSeq(s)
  BY Zenon DEF Codex!FlattenSeq, FlattenSeq

LEMMA CodexSet == ASSUME NEW s PROVE Codex!ToSet(s) = ToSet(s)
  BY Zenon DEF Codex!ToSet, ToSet

LEMMA CodexPercent == ASSUME NEW p PROVE Codex!PercentStatus(p) = PercentStatus(p)
  BY SMT DEF Codex!PercentStatus, PercentStatus, Codex!Reaches, Reaches

LEMMA CodexWorst == ASSUME NEW windows PROVE Codex!WorstStatus(windows) = WorstStatus(windows)
  BY Zenon DEF Codex!WorstStatus, WorstStatus, Codex!Worst, Worst, Codex!Severity, Severity

LEMMA CodexRaw ==
    /\ Codex!RawRateLimitWindows
         = [percent : Percent, duration : Option(Nat), resetsAt : Option(Int)]
    /\ Codex!RawNames = [text : STRING, says : SUBSET (Nat \X STRING)]
    /\ Codex!RawCredits = [has : BOOLEAN, unlimited : BOOLEAN, balance : STRING \cup {None, Refused}]
    /\ Codex!RawRateLimits =
         [id : Option(STRING), name : Option(Codex!RawNames), primary : Option(Codex!RawRateLimitWindows),
          secondary : Option(Codex!RawRateLimitWindows), credits : Option(Codex!RawCredits)]
    /\ Codex!RawUsageBuckets = [date : Dates, tokens : 0..MaxCount]
    /\ Codex!RawReports =
         [main : Codex!RawRateLimits, byId : Option(Seq(Codex!RawRateLimits)),
          days : Seq(Codex!RawUsageBuckets)]
  BY DEF Codex!RawRateLimitWindows, Codex!RawNames, Codex!RawCredits, Codex!RawRateLimits,
         Codex!RawUsageBuckets, Codex!RawReports, Codex!Option, Option, Codex!Percent, Percent,
         Codex!Dates, Dates

\* The windows of a limit.
LEMMA LimitWindowsAre ==
    ASSUME NEW limit
    PROVE  /\ Listed(Codex!LimitWindows(limit))
           /\ ToSet(Codex!LimitWindows(limit)) =
                  (IF limit.primary = None THEN {}
                   ELSE {Codex!PlanAllowance(limit, "primary", limit.primary)})
                  \cup (IF limit.secondary = None THEN {}
                        ELSE {Codex!PlanAllowance(limit, "secondary", limit.secondary)})
<1> DEFINE p == Codex!PlanAllowance(limit, "primary", limit.primary)
           s == Codex!PlanAllowance(limit, "secondary", limit.secondary)
           a == IF limit.primary = None THEN <<>> ELSE <<p>>
           b == IF limit.secondary = None THEN <<>> ELSE <<s>>
<1>1. Codex!LimitWindows(limit) = a \o b
  BY Zenon DEF Codex!LimitWindows
<1> HIDE DEF p, s
<1>2. Listed(a) /\ ToSet(a) = IF limit.primary = None THEN {} ELSE {p}
  BY ListedNone, ListedOne
<1>3. Listed(b) /\ ToSet(b) = IF limit.secondary = None THEN {} ELSE {s}
  BY ListedNone, ListedOne
<1> HIDE DEF a, b
<1> QED
  BY <1>1, <1>2, <1>3, ListedBoth DEF p, s

\* The limits a report has windows of.
LEMMA LimitsAre ==
    ASSUME NEW raw \in Codex!RawReports
    PROVE  Codex!RateLimits(raw) \in Seq(Codex!RawRateLimits)
<1>1. raw.main \in Codex!RawRateLimits /\ raw.byId \in Option(Seq(Codex!RawRateLimits))
  BY CodexRaw
<1>2. CASE raw.byId = None \/ raw.byId = <<>>
  BY <1>1, <1>2 DEF Codex!RateLimits
<1>3. CASE ~(raw.byId = None \/ raw.byId = <<>>)
  BY <1>1, <1>3 DEF Codex!RateLimits, Option
<1> QED
  BY <1>2, <1>3

\* A window of a limit as it is shown.
LEMMA PlanAllowanceIs ==
    ASSUME NEW limit, NEW key, NEW window \in Codex!RawRateLimitWindows
    PROVE  LET shown == Codex!PlanAllowance(limit, key, window)
           IN  /\ Fits(shown)
               /\ shown.resetsAt = IF window.resetsAt = None THEN None
                                   ELSE Codex!UnixToUtc(window.resetsAt)
<1> DEFINE label == IF limit.name = None THEN Codex!WindowLabel(window.duration)
                    ELSE Codex!NamedLimitLabel(limit, window.duration)
           resets == IF window.resetsAt = None THEN None ELSE Codex!UnixToUtc(window.resetsAt)
           id == <<Codex!LimitId(limit), key>>
<1>1. Codex!PlanAllowance(limit, key, window)
          = Window(id, "plan", label, window.percent, FALSE, resets, PercentStatus(window.percent))
  BY CodexPercent, Zenon DEF Codex!PlanAllowance, Codex!Window, Window
<1>2. window.percent \in Option(Percent)
  BY CodexRaw DEF Option
<1> DEFINE shown == Window(id, "plan", label, window.percent, FALSE, resets,
                           PercentStatus(window.percent))
<1>3. shown.resetsAt = resets
  BY DEF Window
<1> HIDE DEF label, resets, id
<1>4. Fits(shown)
  BY <1>2, WindowFits DEF Meters
<1> HIDE DEF shown
<1> QED
  BY <1>1, <1>3, <1>4 DEF shown, resets

\* Purchased credits are no limit.
LEMMA CreditsAre ==
    ASSUME NEW raw \in Codex!RawReports
    PROVE  /\ Listed(Codex!CreditWindows(raw))
           /\ \A w \in ToSet(Codex!CreditWindows(raw)) : Fits(w) /\ w.resetsAt = None
<1> DEFINE w == Codex!Window(<<"codex", "purchased-credits">>, "purchased",
                             <<"purchased credits">>, None, raw.main.credits.unlimited, None, "ok")
<1>1. \/ Codex!CreditWindows(raw) = <<>>
      \/ raw.main.credits # None /\ Codex!CreditWindows(raw) = <<w>>
  BY Zenon DEF Codex!CreditWindows
<1>2. w.status = "ok" /\ w.percent = None /\ w.resetsAt = None
  BY DEF Codex!Window
<1>4. ASSUME raw.main.credits # None PROVE IsAllowance(w)
  <2>1. raw.main \in Codex!RawRateLimits
    BY CodexRaw
  <2>2. raw.main.credits.unlimited \in BOOLEAN
    BY <1>4, <2>1, CodexRaw DEF Option
  <2>3. w = Window(<<"codex", "purchased-credits">>, "purchased", <<"purchased credits">>, None,
                   raw.main.credits.unlimited, None, "ok")
    BY Zenon DEF Codex!Window, Window
  <2> HIDE DEF w
  <2> QED
    BY <2>2, <2>3, WindowIs, StatusesAre DEF Meters, Option
<1> HIDE DEF w
<1>3. raw.main.credits # None => Fits(w)
  BY <1>2, <1>4, StatusesAre DEF Fits, IsExhausted
<1> QED
  BY <1>1, <1>2, <1>3, ListedNone, ListedOne

LEMMA CodexAccountIs ==
    ASSUME NEW raw \in Codex!RawReports, Codex!CodexAccount(raw) # Refused
    PROVE  LET account == Codex!CodexAccount(raw)
           IN  /\ IsPlanAccount(account)
               /\ ToSet(account.allowances)
                    = (UNION {ToSet(Codex!LimitWindows(limit)) : limit \in ToSet(Codex!RateLimits(raw))})
                      \cup ToSet(Codex!CreditWindows(raw))
               /\ account.buckets = [i \in DOMAIN raw.days |-> Codex!UsageBucket(raw.days[i])]
               /\ \A row \in ToSet(raw.days) : Codex!IsDate(row.date)
<1> DEFINE account == Codex!CodexAccount(raw)
           limits == Codex!RateLimits(raw)
           parts == [i \in DOMAIN limits |-> Codex!LimitWindows(limits[i])]
           windows == Codex!FlattenSeq(parts)
           credits == Codex!CreditWindows(raw)
           buckets == [i \in DOMAIN raw.days |-> Codex!UsageBucket(raw.days[i])]
           bad == \/ Codex!QuantityRefused(raw)
                  \/ \E row \in Codex!ToSet(raw.days) : ~Codex!IsDate(row.date)
           plan == Codex!PlanAccount("codex-local", "codex", "openai.plan", windows \o credits, buckets)
<1>1. account = IF bad THEN Refused ELSE plan
  BY Zenon DEF Codex!CodexAccount
<1>2. ~bad /\ account = plan
  <2> HIDE DEF bad, plan, account
  <2>1. account # Refused
    BY DEF account
  <2> QED
    BY <1>1, <2>1, Zenon
<1>3. \A row \in ToSet(raw.days) : Codex!IsDate(row.date)
  BY <1>2, CodexSet, Zenon
<1> HIDE DEF bad
<1>4. limits \in Seq(Codex!RawRateLimits)
  BY LimitsAre
<1>5. DOMAIN limits = 1..Len(limits) /\ Len(limits) \in Nat
  BY <1>4
<1>6. /\ Listed(parts)
      /\ ToSet(parts) = {Codex!LimitWindows(limit) : limit \in ToSet(limits)}
  <2> HIDE DEF limits
  <2>1. DOMAIN parts = 1..Len(limits) /\ parts = [i \in 1..Len(limits) |-> parts[i]]
    BY <1>5
  <2>2. Listed(parts) /\ ToSet(parts) = {parts[i] : i \in 1..Len(limits)}
    <3> HIDE DEF parts
    <3> QED
      BY <1>5, <2>1, ListedMap
  <2>3. \A i \in 1..Len(limits) : parts[i] = Codex!LimitWindows(limits[i])
    BY <1>5
  <2>4. ToSet(limits) = {limits[i] : i \in 1..Len(limits)}
    BY <1>5 DEF ToSet
  <2> HIDE DEF parts
  <2> QED
    BY <2>2, <2>3, <2>4
<1>7. \A s \in ToSet(parts) : Listed(s)
  <2> HIDE DEF parts, limits
  <2> QED
    BY <1>6, LimitWindowsAre
<1>8. /\ Listed(windows)
      /\ ToSet(windows) = UNION {ToSet(Codex!LimitWindows(limit)) : limit \in ToSet(limits)}
  <2> HIDE DEF parts, limits
  <2>1. windows = FlattenSeq(parts)
    BY CodexFlatten
  <2>2. Listed(windows) /\ ToSet(windows) = UNION {ToSet(s) : s \in ToSet(parts)}
    BY <1>6, <1>7, <2>1, ListedFlat
  <2> HIDE DEF windows
  <2> QED
    BY <1>6, <2>2
<1>9. Listed(credits) /\ \A w \in ToSet(credits) : Fits(w)
  BY CreditsAre
<1>10. \A limit \in ToSet(limits) : \A w \in ToSet(Codex!LimitWindows(limit)) : Fits(w)
  <2> SUFFICES ASSUME NEW limit \in ToSet(limits), NEW w \in ToSet(Codex!LimitWindows(limit))
               PROVE  Fits(w)
    OBVIOUS
  <2>1. limit \in Codex!RawRateLimits
    BY <1>4 DEF ToSet
  <2>2. /\ limit.primary \in Option(Codex!RawRateLimitWindows)
        /\ limit.secondary \in Option(Codex!RawRateLimitWindows)
    BY <2>1, CodexRaw
  <2>3. \/ limit.primary # None /\ w = Codex!PlanAllowance(limit, "primary", limit.primary)
        \/ limit.secondary # None /\ w = Codex!PlanAllowance(limit, "secondary", limit.secondary)
    BY LimitWindowsAre
  <2> QED
    BY <2>2, <2>3, PlanAllowanceIs DEF Option
<1> HIDE DEF limits, windows, credits, parts, account, buckets
<1>11. Listed(windows \o credits) /\ ToSet(windows \o credits) = ToSet(windows) \cup ToSet(credits)
  BY <1>8, <1>9, ListedBoth
<1>12. /\ account.status = WorstStatus(windows \o credits)
       /\ account.allowances = windows \o credits /\ account.buckets = buckets
  BY <1>2, CodexWorst, Zenon DEF Codex!PlanAccount
<1>13. IsPlanAccount(account)
  BY <1>8, <1>9, <1>10, <1>11, <1>12 DEF IsPlanAccount
<1> QED
  BY <1>3, <1>8, <1>11, <1>12, <1>13 DEF account, limits, credits, buckets

LEMMA CodexInstant == ASSUME NEW minutes PROVE Codex!UnixToUtc(minutes) = UnixToUtc(minutes)
<1>1. \A year, month, day : Codex!Date(year, month, day) = Date(year, month, day)
  BY Zenon DEF Codex!Date, Date
<1>2. \A a, b : Codex!Quotient(a, b) = Quotient(a, b)
  BY Zenon DEF Codex!Quotient, Quotient
<1>3. \A year, day : Codex!MarchDate(year, day) = MarchDate(year, day)
  BY <1>1, SMT DEF Codex!MarchDate, MarchDate
<1>4. \A era, day : Codex!EraDate(era, day) = EraDate(era, day)
  BY <1>3, SMT DEF Codex!EraDate, EraDate
<1>5. \A days : Codex!CivilFromDays(days) = CivilFromDays(days)
  BY <1>2, <1>4, SMT DEF Codex!CivilFromDays, CivilFromDays
<1>6. Codex!DayMinutes = DayMinutes
  BY DEF Codex!DayMinutes, DayMinutes
<1> QED
  BY <1>5, <1>6, Zenon DEF Codex!UnixToUtc, UnixToUtc, Codex!Instant, Instant

LEMMA CodexDate == ASSUME NEW date PROVE Codex!IsDate(date) = IsDate(date)
  BY SMT DEF Codex!IsDate, IsDate, Codex!DaysInMonth, DaysInMonth, Codex!IsLeapYear, IsLeapYear

LEMMA CodexNextDate == ASSUME NEW date PROVE Codex!NextDate(date) = NextDate(date)
  BY SMT DEF Codex!NextDate, NextDate, Codex!Date, Date, Codex!IsDate, IsDate,
         Codex!DaysInMonth, DaysInMonth, Codex!IsLeapYear, IsLeapYear

\* A day of tokens ends where the next one starts.
LEMMA CodexDay ==
    ASSUME NEW row \in Codex!RawUsageBuckets, Codex!IsDate(row.date)
    PROVE  LET day == Codex!UsageBucket(row)
           IN  IsDate(day.end.date) /\ DayNumber(day.end.date) = DayNumber(day.start.date) + 1
<1> DEFINE day == Codex!UsageBucket(row)
<1>1. day.start.date = row.date /\ day.end.date = NextDate(row.date)
  BY CodexNextDate, Zenon DEF Codex!UsageBucket, Codex!Bucket, Codex!Midnight, Codex!Instant
<1>2. row.date \in Dates /\ IsDate(row.date)
  BY CodexRaw, CodexDate
<1> HIDE DEF day
<1>3. IsDate(NextDate(row.date)) /\ DayNumber(NextDate(row.date)) = DayNumber(row.date) + 1
  BY <1>2, NextDay
<1> QED
  BY <1>1, <1>3 DEF day

\* A window that resets is shown with the instant it resets at.
LEMMA CodexReset ==
    ASSUME NEW limit, NEW key, NEW window \in Codex!RawRateLimitWindows
    PROVE  LET shown == Codex!PlanAllowance(limit, key, window)
           IN  /\ shown.resetsAt # None <=> window.resetsAt # None
               /\ window.resetsAt # None => MinuteNumber(shown.resetsAt) = window.resetsAt
<1> DEFINE shown == Codex!PlanAllowance(limit, key, window)
<1>1. shown.resetsAt = IF window.resetsAt = None THEN None ELSE UnixToUtc(window.resetsAt)
  BY PlanAllowanceIs, CodexInstant
<1>2. window.resetsAt \in Option(Int)
  BY CodexRaw
<1> HIDE DEF shown
<1>3. ASSUME window.resetsAt # None
      PROVE  UnixToUtc(window.resetsAt) # None
             /\ MinuteNumber(UnixToUtc(window.resetsAt)) = window.resetsAt
  <2>1. window.resetsAt \in Int
    BY <1>2, <1>3 DEF Option
  <2> QED
    BY <2>1, UtcIsTheInstant, InstantAssumption
<1> QED
  BY <1>1, <1>3 DEF shown

ResetsOf(limit) == {w.resetsAt : w \in {limit.primary, limit.secondary} \ {None}} \ {None}

LEMMA CodexInstants ==
    ASSUME NEW raw \in Codex!RawReports, Codex!CodexAccount(raw) # Refused
    PROVE  LET account == Codex!CodexAccount(raw)
           IN  /\ \A b \in ToSet(account.buckets) :
                     /\ IsDate(b.end.date)
                     /\ DayNumber(b.end.date) = DayNumber(b.start.date) + 1
               /\ {MinuteNumber(w.resetsAt) : w \in {v \in ToSet(account.allowances) :
                                                      v.resetsAt # None}}
                    = UNION {ResetsOf(limit) : limit \in ToSet(Codex!RateLimits(raw))}
<1> DEFINE account == Codex!CodexAccount(raw)
           limits == ToSet(Codex!RateLimits(raw))
           Carried(limit) == ToSet(Codex!LimitWindows(limit))
           credits == ToSet(Codex!CreditWindows(raw))
           days == raw.days
<1>1. /\ ToSet(account.allowances) = (UNION {Carried(limit) : limit \in limits}) \cup credits
      /\ account.buckets = [i \in DOMAIN days |-> Codex!UsageBucket(days[i])]
      /\ \A row \in ToSet(days) : Codex!IsDate(row.date)
  BY CodexAccountIs
<1>2. \A w \in credits : w.resetsAt = None
  BY CreditsAre
<1>3. \A limit \in limits :
          /\ limit.primary \in Option(Codex!RawRateLimitWindows)
          /\ limit.secondary \in Option(Codex!RawRateLimitWindows)
  <2>1. Codex!RateLimits(raw) \in Seq(Codex!RawRateLimits)
    BY LimitsAre
  <2>2. limits \subseteq Codex!RawRateLimits
    BY <2>1, ListedOf
  <2> QED
    BY <2>2, CodexRaw
<1>4. days \in Seq(Codex!RawUsageBuckets)
  BY CodexRaw
<1>5. ToSet(days) \subseteq Codex!RawUsageBuckets
  BY <1>4, ListedOf
<1> HIDE DEF account, limits, credits, days, Carried
<1>6. ASSUME NEW b \in ToSet(account.buckets)
      PROVE  IsDate(b.end.date) /\ DayNumber(b.end.date) = DayNumber(b.start.date) + 1
  <2>1. PICK i \in DOMAIN days : b = Codex!UsageBucket(days[i])
    BY <1>1 DEF ToSet
  <2>2. days[i] \in ToSet(days)
    BY DEF ToSet
  <2> QED
    BY <1>1, <1>5, <2>1, <2>2, CodexDay
<1> DEFINE windows == {v \in ToSet(account.allowances) : v.resetsAt # None}
<1>7. ASSUME NEW w \in windows
      PROVE  \E limit \in limits : MinuteNumber(w.resetsAt) \in ResetsOf(limit)
  <2>1. PICK limit \in limits : w \in Carried(limit)
    BY <1>1, <1>2
  <2>2. \/ limit.primary # None /\ w = Codex!PlanAllowance(limit, "primary", limit.primary)
        \/ limit.secondary # None /\ w = Codex!PlanAllowance(limit, "secondary", limit.secondary)
    BY <2>1, LimitWindowsAre DEF Carried
  <2>3. PICK window \in Codex!RawRateLimitWindows, key \in {"primary", "secondary"} :
            /\ window \in {limit.primary, limit.secondary} \ {None}
            /\ w = Codex!PlanAllowance(limit, key, window)
    BY <1>3, <2>2 DEF Option
  <2>4. window.resetsAt # None /\ MinuteNumber(w.resetsAt) = window.resetsAt
    BY <2>3, CodexReset
  <2> QED
    BY <2>3, <2>4 DEF ResetsOf
<1>8. ASSUME NEW limit \in limits, NEW m \in ResetsOf(limit)
      PROVE  \E w \in windows : MinuteNumber(w.resetsAt) = m
  <2>1. PICK window \in {limit.primary, limit.secondary} \ {None} : m = window.resetsAt /\ m # None
    BY DEF ResetsOf
  <2>2. \/ window = limit.primary /\ limit.primary # None
        \/ window = limit.secondary /\ limit.secondary # None
    BY <2>1
  <2>3. PICK key : Codex!PlanAllowance(limit, key, window) \in Carried(limit)
    BY <2>2, LimitWindowsAre DEF Carried
  <2>4. window \in Codex!RawRateLimitWindows
    BY <1>3, <2>2 DEF Option
  <2> DEFINE w == Codex!PlanAllowance(limit, key, window)
  <2>5. w.resetsAt # None /\ MinuteNumber(w.resetsAt) = m
    BY <2>1, <2>4, CodexReset
  <2> HIDE DEF w
  <2>6. w \in ToSet(account.allowances)
    BY <1>1, <2>3 DEF w
  <2> QED
    BY <2>5, <2>6
<1>9. {MinuteNumber(w.resetsAt) : w \in windows} = UNION {ResetsOf(limit) : limit \in limits}
  <2> HIDE DEF windows
  <2> QED
    BY <1>7, <1>8
<1> QED
  BY <1>6, <1>9 DEF account, limits

-----------------------------------------------------------------------------
(***************************************************************************)
(* Claude.                                                                 *)
(***************************************************************************)
LEMMA ClaudeFlatten == ASSUME NEW s PROVE Claude!FlattenSeq(s) = FlattenSeq(s)
  BY Zenon DEF Claude!FlattenSeq, FlattenSeq

LEMMA ClaudePercent == ASSUME NEW p PROVE Claude!PercentStatus(p) = PercentStatus(p)
  BY SMT DEF Claude!PercentStatus, PercentStatus, Claude!Reaches, Reaches

LEMMA ClaudeWorst == ASSUME NEW windows PROVE Claude!WorstStatus(windows) = WorstStatus(windows)
  BY Zenon DEF Claude!WorstStatus, WorstStatus, Claude!Worst, Worst, Claude!Severity, Severity

LEMMA ClaudeTimestamp == ASSUME NEW written PROVE Claude!ParseTimestamp(written) = ParseTimestamp(written)
  BY SMT DEF Claude!ParseTimestamp, ParseTimestamp, Claude!NextDate, NextDate, Claude!Date, Date,
         Claude!IsDate, IsDate, Claude!DaysInMonth, DaysInMonth, Claude!IsLeapYear, IsLeapYear,
         Claude!DayMinutes, DayMinutes, Claude!PreviousDate, PreviousDate, Claude!Instant, Instant

WindowNames == {"five_hour", "seven_day", "seven_day_opus", "seven_day_sonnet"}

LEMMA ClaudeRaw ==
    /\ Claude!RawWindows = [percent : Percent, resetsAt : Option(WrittenInstants)]
    /\ Claude!RawExtraUsage = [enabled : BOOLEAN, percent : Option(Percent)]
    /\ Claude!RawReports = [windows : [WindowNames -> Option(Claude!RawWindows)],
                            extra : Option(Claude!RawExtraUsage)]
    /\ DOMAIN Claude!WindowIds = 1..4 /\ \A i \in 1..4 : Claude!WindowIds[i] \in WindowNames
<1>1. Claude!ToSet(Claude!WindowIds) = WindowNames
  BY DEF Claude!ToSet, Claude!WindowIds, WindowNames
<1>2. Claude!RawWindows = [percent : Percent, resetsAt : Option(WrittenInstants)]
  BY DEF Claude!RawWindows, Claude!Percent, Percent, Claude!Option, Option,
         Claude!WrittenInstants, WrittenInstants, Claude!Dates, Dates
<1>3. Claude!RawExtraUsage = [enabled : BOOLEAN, percent : Option(Percent)]
  BY DEF Claude!RawExtraUsage, Claude!Percent, Percent, Claude!Option, Option
<1>4. Claude!RawReports = [windows : [WindowNames -> Option(Claude!RawWindows)],
                           extra : Option(Claude!RawExtraUsage)]
  BY <1>1 DEF Claude!RawReports, Claude!Option, Option
<1>5. DOMAIN Claude!WindowIds = 1..4 /\ \A i \in 1..4 : Claude!WindowIds[i] \in WindowNames
  BY DEF Claude!WindowIds, WindowNames
<1> QED
  BY <1>2, <1>3, <1>4, <1>5

\* The instant of a shown window is the one the provider wrote for it.
IsMeant(instant, written) ==
    /\ IsDate(instant.date) /\ instant.minute \in 0..(DayMinutes - 1)
    /\ (DayNumber(instant.date) - DayNumber(written.date)) * DayMinutes
         + instant.minute + written.offset = written.minute

LEMMA MinutesApart ==
    ASSUME NEW x \in Int, NEW y \in Int, NEW i \in Int, NEW o \in Int, NEW j \in Int,
           (x * 1440 + i) + o = y * 1440 + j
    PROVE  (x - y) * 1440 + i + o = j
  BY SMT

LEMMA ParsedIsMeant ==
    ASSUME NEW written \in WrittenInstants, ParseTimestamp(written) # Refused
    PROVE  IsMeant(ParseTimestamp(written), written)
<1> DEFINE instant == ParseTimestamp(written)
           x == DayNumber(instant.date)
           y == DayNumber(written.date)
           i == instant.minute
           o == written.offset
           j == written.minute
<1>1. /\ IsDate(written.date) /\ instant \in Instants /\ IsDate(instant.date)
      /\ MinuteNumber(instant) + written.offset = DayNumber(written.date) * DayMinutes + written.minute
  BY TimestampIsTheInstant
<1> HIDE DEF instant
<1>2. DayMinutes = 1440
  BY DEF DayMinutes
<1>3. /\ instant.date \in Dates /\ i \in 0..(DayMinutes - 1) /\ written.date \in Dates
      /\ o \in Int /\ j \in Int
  BY <1>1 DEF Instants, WrittenInstants
<1>4. x \in Int /\ y \in Int /\ i \in Int
  BY <1>1, <1>2, <1>3, DayNumberTypes, SMTT(30)
<1>5. (x * 1440 + i) + o = y * 1440 + j
  BY <1>1, <1>2 DEF MinuteNumber
<1> HIDE DEF x, y, i, o, j
<1>6. (x - y) * 1440 + i + o = j
  BY <1>3, <1>4, <1>5, MinutesApart
<1> QED
  BY <1>1, <1>2, <1>3, <1>6 DEF IsMeant, instant, x, y, i, o, j

\* A window a Claude report carries.
LEMMA ClaudeWindowIs ==
    ASSUME NEW id, NEW window \in Claude!RawWindows
    PROVE  LET shown == Claude!PlanWindow(id, window)
           IN  /\ Fits(shown) /\ shown.id = id
               /\ shown.resetsAt = IF window.resetsAt = None THEN None
                                   ELSE ParseTimestamp(window.resetsAt)
<1> DEFINE resets == IF window.resetsAt = None THEN None ELSE ParseTimestamp(window.resetsAt)
           shown == Window(id, "plan", id, window.percent, FALSE, resets, PercentStatus(window.percent))
<1>1. Claude!ResetsAt(window) = resets
  BY ClaudeTimestamp, Zenon DEF Claude!ResetsAt
<1> HIDE DEF resets
<1>2. Claude!PlanWindow(id, window) = shown
  BY <1>1, ClaudePercent, Zenon DEF Claude!PlanWindow, Claude!Window, Window
<1>3. shown.id = id /\ shown.resetsAt = resets
  BY DEF Window
<1>4. window.percent \in Option(Percent)
  BY ClaudeRaw DEF Option
<1>5. Fits(shown)
  BY <1>4, WindowFits DEF Meters
<1> HIDE DEF shown
<1> QED
  BY <1>2, <1>3, <1>5 DEF resets

LEMMA ExtraIs ==
    ASSUME NEW raw \in Claude!RawReports
    PROVE  /\ Listed(Claude!ExtraUsage(raw))
           /\ \A w \in ToSet(Claude!ExtraUsage(raw)) : Fits(w) /\ w.resetsAt = None
<1> DEFINE w == Window("extra-usage", "purchased", "extra-usage", raw.extra.percent, FALSE, None,
                       PercentStatus(raw.extra.percent))
           off == raw.extra = None \/ ~raw.extra.enabled
<1>1. Claude!ExtraUsage(raw) = IF off THEN <<>> ELSE <<w>>
  BY ClaudePercent, Zenon DEF Claude!ExtraUsage, Claude!Window, Window
<1>2. w.resetsAt = None
  BY DEF Window
<1>3. ~off => raw.extra.percent \in Option(Percent)
  BY ClaudeRaw DEF Option
<1>4. ~off => Fits(w)
  BY <1>3, WindowFits DEF Meters
<1> HIDE DEF w, off
<1> QED
  BY <1>1, <1>2, <1>4, ListedNone, ListedOne

\* The windows an account shows are those the report carries, and extra usage.
LEMMA ReportedAre ==
    ASSUME NEW raw \in Claude!RawReports
    PROVE  /\ Listed(Claude!Reported(raw))
           /\ \A w \in ToSet(Claude!Reported(raw)) : \E id \in WindowNames :
                 raw.windows[id] \in Claude!RawWindows /\ w = Claude!PlanWindow(id, raw.windows[id])
<1> DEFINE ids == Claude!WindowIds
           Part(i) == IF raw.windows[ids[i]] = None THEN <<>>
                      ELSE <<Claude!PlanWindow(ids[i], raw.windows[ids[i]])>>
           parts == [i \in DOMAIN ids |-> Part(i)]
<1>1. Claude!Reported(raw) = FlattenSeq(parts)
  BY ClaudeFlatten, Zenon DEF Claude!Reported
<1>2. DOMAIN ids = 1..4 /\ \A i \in 1..4 : ids[i] \in WindowNames
  BY ClaudeRaw
<1> HIDE DEF ids
<1>3. ASSUME NEW i \in 1..4
      PROVE  /\ Listed(Part(i))
             /\ \A w \in ToSet(Part(i)) :
                   raw.windows[ids[i]] \in Claude!RawWindows
                     /\ w = Claude!PlanWindow(ids[i], raw.windows[ids[i]])
  <2>1. raw.windows[ids[i]] \in Option(Claude!RawWindows)
    BY <1>2, ClaudeRaw
  <2>2. CASE raw.windows[ids[i]] = None
    BY <2>2, ListedNone
  <2>3. CASE raw.windows[ids[i]] # None
    BY <2>1, <2>3, ListedOne DEF Option
  <2> QED
    BY <2>2, <2>3
<1>4. DOMAIN parts = 1..4 /\ parts = [i \in 1..4 |-> parts[i]] /\ \A i \in 1..4 : parts[i] = Part(i)
  BY <1>2
<1> HIDE DEF parts, Part
<1>5. Listed(parts) /\ ToSet(parts) = {parts[i] : i \in 1..4}
  BY <1>4, ListedMap
<1>6. \A s \in ToSet(parts) : Listed(s)
  BY <1>3, <1>4, <1>5
<1>7. /\ Listed(FlattenSeq(parts))
      /\ ToSet(FlattenSeq(parts)) = UNION {ToSet(s) : s \in ToSet(parts)}
  BY <1>5, <1>6, ListedFlat
<1>8. ASSUME NEW w \in ToSet(FlattenSeq(parts))
      PROVE  \E id \in WindowNames :
                 raw.windows[id] \in Claude!RawWindows /\ w = Claude!PlanWindow(id, raw.windows[id])
  <2>1. PICK i \in 1..4 : w \in ToSet(Part(i))
    BY <1>4, <1>5, <1>7
  <2> QED
    BY <1>2, <1>3, <2>1
<1> QED
  BY <1>1, <1>7, <1>8

LEMMA ClaudeAccountIs ==
    ASSUME NEW raw \in Claude!RawReports, Claude!ClaudeAccount(raw) # Refused
    PROVE  LET account == Claude!ClaudeAccount(raw)
           IN  /\ IsPlanAccount(account)
               /\ \A w \in ToSet(account.allowances) :
                     w.resetsAt # None => IsMeant(w.resetsAt, raw.windows[w.id].resetsAt)
<1> DEFINE account == Claude!ClaudeAccount(raw)
           windows == Claude!Reported(raw)
           extra == Claude!ExtraUsage(raw)
           bad == Refused \in {windows[i].resetsAt : i \in DOMAIN windows}
           plan == Claude!PlanAccount("claude-local", "claude", "anthropic.plan", windows \o extra, <<>>)
<1>1. account = IF bad THEN Refused ELSE plan
  BY Zenon DEF Claude!ClaudeAccount
<1>2. ~bad /\ account = plan
  <2> HIDE DEF bad, plan, account
  <2>1. account # Refused
    BY DEF account
  <2> QED
    BY <1>1, <2>1, Zenon
<1>3. \A w \in ToSet(windows) : w.resetsAt # Refused
  BY <1>2, Zenon DEF ToSet
<1> HIDE DEF bad
<1>5. Listed(windows) /\ Listed(extra) /\ \A w \in ToSet(extra) : Fits(w) /\ w.resetsAt = None
  BY ReportedAre, ExtraIs
<1>6. ASSUME NEW w \in ToSet(windows)
      PROVE  /\ Fits(w)
             /\ w.resetsAt # None => IsMeant(w.resetsAt, raw.windows[w.id].resetsAt)
  <2>1. PICK id \in WindowNames :
            raw.windows[id] \in Claude!RawWindows /\ w = Claude!PlanWindow(id, raw.windows[id])
    BY <1>6, ReportedAre
  <2> DEFINE window == raw.windows[id]
  <2>2. /\ Fits(w) /\ w.id = id
        /\ w.resetsAt = IF window.resetsAt = None THEN None ELSE ParseTimestamp(window.resetsAt)
    BY <2>1, ClaudeWindowIs
  <2>3. ASSUME w.resetsAt # None
        PROVE  IsMeant(w.resetsAt, window.resetsAt)
    <3>1. window.resetsAt # None /\ w.resetsAt = ParseTimestamp(window.resetsAt)
      BY <2>2, <2>3
    <3>2. window.resetsAt \in WrittenInstants
      BY <2>1, <3>1, ClaudeRaw DEF Option
    <3>3. ParseTimestamp(window.resetsAt) # Refused
      BY <1>3, <3>1
    <3> QED
      BY <3>1, <3>2, <3>3, ParsedIsMeant
  <2> QED
    BY <2>2, <2>3
<1> HIDE DEF windows, extra, account
<1>4. account.status = WorstStatus(windows \o extra) /\ account.allowances = windows \o extra
  BY <1>2, ClaudeWorst, Zenon DEF Claude!PlanAccount
<1>7. Listed(windows \o extra) /\ ToSet(windows \o extra) = ToSet(windows) \cup ToSet(extra)
  BY <1>5, ListedBoth
<1>8. IsPlanAccount(account)
  BY <1>4, <1>5, <1>6, <1>7 DEF IsPlanAccount
<1>9. \A w \in ToSet(account.allowances) :
          w.resetsAt # None => IsMeant(w.resetsAt, raw.windows[w.id].resetsAt)
  BY <1>4, <1>5, <1>6, <1>7
<1> QED
  BY <1>8, <1>9 DEF account

-----------------------------------------------------------------------------
(***************************************************************************)
(* A Cursor plan.                                                          *)
(***************************************************************************)
LEMMA CursorPercent == ASSUME NEW p PROVE Cursor!PercentStatus(p) = PercentStatus(p)
  BY SMT DEF Cursor!PercentStatus, PercentStatus, Cursor!Reaches, Reaches

LEMMA CursorWorst == ASSUME NEW windows PROVE Cursor!WorstStatus(windows) = WorstStatus(windows)
  BY Zenon DEF Cursor!WorstStatus, WorstStatus, Cursor!Worst, Worst, Cursor!Severity, Severity

LEMMA CursorRaw ==
    /\ Cursor!RawMeters =
         [enabled : Option(BOOLEAN), used : Option(Int), limit : Option(Int),
          auto : Option(Percent), api : Option(Percent), total : Option(Percent)]
    /\ Cursor!RawPlanReports =
         [unlimited : Option(BOOLEAN), cycleEnd : Option(Instants),
          plan : Option(Cursor!RawMeters), onDemand : Option(Cursor!RawMeters)]
<1>1. Cursor!Instants = Instants
  BY DEF Cursor!Instants, Instants, Cursor!Dates, Dates, Cursor!DayMinutes, DayMinutes
<1>2. Cursor!Percent = Percent
  BY DEF Cursor!Percent, Percent
<1> QED
  BY <1>1, <1>2 DEF Cursor!RawMeters, Cursor!RawPlanReports, Cursor!Option, Option

\* A window of a Cursor plan.
LEMMA CursorWindowFits ==
    ASSUME NEW id, NEW meter \in Meters, NEW label, NEW percent \in Option(Percent),
           NEW unlimited \in BOOLEAN, NEW resetsAt
    PROVE  Fits(Cursor!Window(id, meter, label, percent, unlimited, resetsAt,
                              Cursor!PercentStatus(percent)))
<1>1. Cursor!Window(id, meter, label, percent, unlimited, resetsAt, Cursor!PercentStatus(percent))
        = Window(id, meter, label, percent, unlimited, resetsAt, PercentStatus(percent))
  BY CursorPercent, Zenon DEF Cursor!Window, Window
<1> QED
  BY <1>1, WindowFits

LEMMA CursorPercentOf ==
    ASSUME NEW meter \in Cursor!RawMeters
    PROVE  Cursor!PercentOf(meter) \in Option(Percent)
<1>1. meter.used \in Option(Int) /\ meter.limit \in Option(Int)
  BY CursorRaw
<1> DEFINE some == meter.used # None /\ meter.limit # None /\ meter.limit > 0
<1>2. Cursor!PercentOf(meter) = IF some THEN [num |-> 100 * meter.used, den |-> meter.limit] ELSE None
  BY Zenon DEF Cursor!PercentOf, Cursor!Fraction
<1>3. some => [num |-> 100 * meter.used, den |-> meter.limit] \in Percent
  BY <1>1 DEF Option, Percent
<1> HIDE DEF some
<1> QED
  BY <1>2, <1>3 DEF Option

\* A sequence of windows that fit.
Good(windows) == Listed(windows) /\ \A w \in ToSet(windows) : Fits(w)

LEMMA GoodNone == Good(<<>>)
  BY ListedNone DEF Good

LEMMA GoodOne == ASSUME NEW w, Fits(w) PROVE Good(<<w>>)
  BY ListedOne DEF Good

LEMMA GoodBoth == ASSUME NEW a, NEW b, Good(a), Good(b) PROVE Good(a \o b)
  BY ListedBoth DEF Good

LEMMA PoolIsGood ==
    ASSUME NEW raw, NEW id, NEW percent \in Option(Percent)
    PROVE  Good(Cursor!Pool(raw, id, percent))
<1> DEFINE w == Cursor!Window(id, "plan", id, percent, raw.unlimited = TRUE, raw.cycleEnd,
                              Cursor!PercentStatus(percent))
<1>1. Cursor!Pool(raw, id, percent) = IF percent = None THEN <<>> ELSE <<w>>
  BY Zenon DEF Cursor!Pool
<1>2. Fits(w)
  BY CursorWindowFits DEF Meters
<1> HIDE DEF w
<1> QED
  BY <1>1, <1>2, GoodNone, GoodOne

LEMMA PlanWindowsAreGood ==
    ASSUME NEW raw \in Cursor!RawPlanReports
    PROVE  Good(Cursor!PlanWindows(raw))
<1> DEFINE plan == raw.plan
           on == Cursor!MeterOn(plan, TRUE)
           percent == IF plan.total # None THEN plan.total ELSE Cursor!PercentOf(plan)
           w == Cursor!Window("cursor-plan", "plan", "cursor-plan", percent, raw.unlimited = TRUE,
                              raw.cycleEnd, Cursor!PercentStatus(percent))
           pools == Cursor!Pool(raw, "cursor-plan-models", plan.auto)
                      \o Cursor!Pool(raw, "cursor-plan-other", plan.api)
           split == plan.auto # None \/ plan.api # None
<1>1. Cursor!PlanWindows(raw) = IF ~on THEN <<>> ELSE IF split THEN pools ELSE <<w>>
  BY Zenon DEF Cursor!PlanWindows
<1>2. on => plan \in Cursor!RawMeters
  BY CursorRaw DEF Cursor!MeterOn, Option
<1>3. on => /\ plan.auto \in Option(Percent) /\ plan.api \in Option(Percent)
            /\ percent \in Option(Percent)
  BY <1>2, CursorRaw, CursorPercentOf
<1> HIDE DEF on, percent, split
<1>4. on => Good(pools)
  BY <1>3, PoolIsGood, GoodBoth
<1>5. on => Fits(w)
  BY <1>3, CursorWindowFits DEF Meters
<1> HIDE DEF w, pools
<1> QED
  BY <1>1, <1>4, <1>5, GoodNone, GoodOne

LEMMA OnDemandIsGood ==
    ASSUME NEW raw \in Cursor!RawPlanReports
    PROVE  Good(Cursor!OnDemandWindows(raw))
<1> DEFINE on == Cursor!MeterOn(raw.onDemand, FALSE)
           percent == Cursor!PercentOf(raw.onDemand)
           w == Cursor!Window("cursor-on-demand", "purchased", "cursor-on-demand", percent, FALSE,
                              raw.cycleEnd, Cursor!PercentStatus(percent))
<1>1. Cursor!OnDemandWindows(raw) = IF ~on THEN <<>> ELSE <<w>>
  BY Zenon DEF Cursor!OnDemandWindows
<1>2. on => raw.onDemand \in Cursor!RawMeters
  BY CursorRaw DEF Cursor!MeterOn, Option
<1>3. on => percent \in Option(Percent)
  BY <1>2, CursorPercentOf
<1> HIDE DEF on, percent
<1>4. on => Fits(w)
  BY <1>3, CursorWindowFits DEF Meters
<1> HIDE DEF w
<1> QED
  BY <1>1, <1>4, GoodNone, GoodOne

LEMMA CursorPlanIs ==
    ASSUME NEW raw \in Cursor!RawPlanReports
    PROVE  IsPlanAccount(Cursor!CursorPlanAccount(raw))
<1> DEFINE windows == Cursor!PlanWindows(raw) \o Cursor!OnDemandWindows(raw)
           account == Cursor!CursorPlanAccount(raw)
<1>1. account.status = WorstStatus(windows) /\ account.allowances = windows
  BY CursorWorst, Zenon DEF Cursor!CursorPlanAccount, Cursor!PlanAccount
<1>2. Good(windows)
  BY PlanWindowsAreGood, OnDemandIsGood, GoodBoth
<1> HIDE DEF windows, account
<1> QED
  BY <1>1, <1>2 DEF IsPlanAccount, Good, account

-----------------------------------------------------------------------------
(***************************************************************************)
(* OpenAI.                                                                 *)
(***************************************************************************)
LEMMA OpenAiRows == ASSUME NEW pages PROVE OpenAi!Rows(pages) = Rows(pages)
  BY Zenon DEF OpenAi!FlattenSeq, FlattenSeq, OpenAi!Rows, Rows

LEMMA OpenAiSet == ASSUME NEW s PROVE OpenAi!ToSet(s) = ToSet(s)
  BY Zenon DEF OpenAi!ToSet, ToSet

LEMMA OpenAiInstant == ASSUME NEW minutes PROVE OpenAi!UnixToUtc(minutes) = UnixToUtc(minutes)
<1>1. \A year, month, day : OpenAi!Date(year, month, day) = Date(year, month, day)
  BY Zenon DEF OpenAi!Date, Date
<1>2. \A a, b : OpenAi!Quotient(a, b) = Quotient(a, b)
  BY Zenon DEF OpenAi!Quotient, Quotient
<1>3. \A year, day : OpenAi!MarchDate(year, day) = MarchDate(year, day)
  BY <1>1, SMT DEF OpenAi!MarchDate, MarchDate
<1>4. \A era, day : OpenAi!EraDate(era, day) = EraDate(era, day)
  BY <1>3, SMT DEF OpenAi!EraDate, EraDate
<1>5. \A days : OpenAi!CivilFromDays(days) = CivilFromDays(days)
  BY <1>2, <1>4, SMT DEF OpenAi!CivilFromDays, CivilFromDays
<1>6. OpenAi!DayMinutes = DayMinutes
  BY DEF OpenAi!DayMinutes, DayMinutes
<1> QED
  BY <1>5, <1>6, Zenon DEF OpenAi!UnixToUtc, UnixToUtc, OpenAi!Instant, Instant

\* Rows with a start and an end.
Timed(rows) == Listed(rows) /\ \A r \in ToSet(rows) : r.start \in Int /\ r.end \in Int

LEMMA PagesAreTimed ==
    ASSUME NEW feed, NEW pages \in Seq(OpenAi!RawPages(feed) \cup {Refused}), OpenAi!Parsed(pages)
    PROVE  Listed(pages) /\ \A page \in ToSet(pages) : Timed(page)
<1>1. Listed(pages) /\ ToSet(pages) \subseteq OpenAi!RawPages(feed) \cup {Refused}
  BY ListedOf
<1>2. Refused \notin ToSet(pages)
  BY OpenAiSet, Zenon DEF OpenAi!Parsed
<1> DEFINE results == Seq(IF feed = "usage" THEN OpenAi!RawUsageResults ELSE OpenAi!RawCostResults)
           T == [start : Int, end : Int, results : results]
<1>3. OpenAi!RawPages(feed) = Seq(T)
  BY Zenon DEF OpenAi!RawPages
<1> HIDE DEF results
<1>4. ASSUME NEW page \in Seq(T)
      PROVE  Timed(page)
  <2>1. Listed(page) /\ ToSet(page) \subseteq T
    BY <1>4, ListedOf
  <2> QED
    BY <2>1 DEF Timed
<1> QED
  BY <1>1, <1>2, <1>3, <1>4

\* The rows of a feed are those of its pages.
LEMMA RowsAre ==
    ASSUME NEW pages, Listed(pages), \A page \in ToSet(pages) : Timed(page)
    PROVE  Timed(Rows(pages)) /\ ToSet(Rows(pages)) = UNION {ToSet(page) : page \in ToSet(pages)}
<1>1. /\ Listed(FlattenSeq(pages))
      /\ ToSet(FlattenSeq(pages)) = UNION {ToSet(page) : page \in ToSet(pages)}
  BY ListedFlat DEF Timed
<1>2. \A r \in ToSet(FlattenSeq(pages)) : r.start \in Int /\ r.end \in Int
  BY <1>1 DEF Timed
<1> QED
  BY <1>1, <1>2 DEF Rows, Timed

LEMMA SpansAre ==
    ASSUME NEW rows, Timed(rows)
    PROVE  /\ OpenAi!Spans(rows) = {<<r.start, r.end>> : r \in ToSet(rows)}
           /\ OpenAi!Spans(rows) \in SUBSET AllSpans /\ IsFiniteSet(OpenAi!Spans(rows))
<1>1. OpenAi!Spans(rows) = {<<r.start, r.end>> : r \in ToSet(rows)}
  BY OpenAiSet, Zenon DEF OpenAi!Spans, OpenAi!Span
<1>2. OpenAi!Spans(rows) \in SUBSET AllSpans
  BY <1>1 DEF Timed, AllSpans
<1>3. IsFiniteSet(OpenAi!Spans(rows))
  <2> DEFINE n == Len(rows)
             S == OpenAi!Spans(rows)
             f == [i \in 1..n |-> <<rows[i].start, rows[i].end>>]
  <2>1. n \in Nat /\ DOMAIN rows = 1..n
    BY DEF Timed, Listed
  <2>2. ToSet(rows) = {rows[i] : i \in 1..n}
    BY <2>1 DEF ToSet
  <2> HIDE DEF n, S
  <2>3. S = {<<rows[i].start, rows[i].end>> : i \in 1..n}
    BY <1>1, <2>2 DEF S
  <2>4. f \in Surjection(1..n, S)
    BY <2>3 DEF Surjection
  <2>5. IsFiniteSet(1..n)
    BY <2>1, FS_Interval
  <2> HIDE DEF f
  <2>6. IsFiniteSet(S)
    BY <2>4, <2>5, FS_Surjection
  <2> QED
    BY <2>6 DEF S
<1> QED
  BY <1>1, <1>2, <1>3

\* The buckets have the spans of the rows, those of the usage and of the costs.
LEMMA BucketSpans ==
    ASSUME NEW usage, NEW costs, Timed(usage), Timed(costs)
    PROVE  {<<MinuteNumber(b.start), MinuteNumber(b.end)>> : b \in ToSet(OpenAi!MergeBuckets(usage, costs))}
               = {<<r.start, r.end>> : r \in ToSet(usage) \cup ToSet(costs)}
<1> DEFINE S == OpenAi!Spans(usage) \cup OpenAi!Spans(costs)
           order == OpenAi!InOrder(S, OpenAi!SpanLess)
           buckets == OpenAi!MergeBuckets(usage, costs)
           n == Cardinality(S)
           Bucket2(i) == OpenAi!MergedBucket(usage, costs, order[i])
<1>1. /\ S \in SUBSET AllSpans /\ IsFiniteSet(S)
      /\ S = {<<r.start, r.end>> : r \in ToSet(usage) \cup ToSet(costs)}
  <2>1. /\ OpenAi!Spans(usage) = {<<r.start, r.end>> : r \in ToSet(usage)}
        /\ OpenAi!Spans(costs) = {<<r.start, r.end>> : r \in ToSet(costs)}
        /\ OpenAi!Spans(usage) \in SUBSET AllSpans /\ IsFiniteSet(OpenAi!Spans(usage))
        /\ OpenAi!Spans(costs) \in SUBSET AllSpans /\ IsFiniteSet(OpenAi!Spans(costs))
    BY SpansAre
  <2>2. IsFiniteSet(S)
    BY <2>1, FS_Union
  <2> QED
    BY <2>1, <2>2
<1>2. buckets = [i \in DOMAIN order |-> Bucket2(i)]
  BY Zenon DEF OpenAi!MergeBuckets
<1> HIDE DEF S, buckets
<1>3. order \in [1..n -> S] /\ n \in Nat /\ \A s \in S : \E i \in 1..n : order[i] = s
  <2> HIDE DEF order
  <2> QED
    BY <1>1, InOrderIs DEF Lists, order
<1> HIDE DEF order, n, Bucket2
<1>4. ToSet(buckets) = {Bucket2(i) : i \in 1..n}
  BY <1>2, <1>3 DEF ToSet
<1>5. ASSUME NEW i \in 1..n
      PROVE  <<MinuteNumber(Bucket2(i).start), MinuteNumber(Bucket2(i).end)>> = order[i]
  <2>1. order[i] \in AllSpans
    BY <1>1, <1>3
  <2>2. Bucket2(i).start = UnixToUtc(order[i][1]) /\ Bucket2(i).end = UnixToUtc(order[i][2])
    BY OpenAiInstant DEF Bucket2, OpenAi!MergedBucket, OpenAi!Bucket
  <2>3. /\ order[i][1] \in Int /\ order[i][2] \in Int /\ order[i] = <<order[i][1], order[i][2]>>
    BY <2>1 DEF AllSpans
  <2>4. /\ MinuteNumber(UnixToUtc(order[i][1])) = order[i][1]
        /\ MinuteNumber(UnixToUtc(order[i][2])) = order[i][2]
    BY <2>3, UtcIsTheInstant
  <2> QED
    BY <2>2, <2>3, <2>4
<1> DEFINE P(b) == <<MinuteNumber(b.start), MinuteNumber(b.end)>>
<1>6. {P(b) : b \in ToSet(buckets)} = S
  <2>1. \A i \in 1..n : P(Bucket2(i)) = order[i]
    BY <1>5
  <2> HIDE DEF P
  <2>2. {P(b) : b \in ToSet(buckets)} = {P(Bucket2(i)) : i \in 1..n}
    BY <1>4
  <2>3. {P(Bucket2(i)) : i \in 1..n} = {order[i] : i \in 1..n}
    BY <2>1
  <2> QED
    BY <1>3, <2>2, <2>3
<1> QED
  BY <1>1, <1>6 DEF buckets

LEMMA OpenAiAccountIs ==
    ASSUME NEW raw,
           raw.usage \in Seq(OpenAi!RawPages("usage") \cup {Refused}),
           raw.costs \in Seq(OpenAi!RawPages("costs") \cup {Refused}),
           OpenAi!OpenAiAccount(raw) # Refused
    PROVE  {<<MinuteNumber(b.start), MinuteNumber(b.end)>> :
                b \in ToSet(OpenAi!OpenAiAccount(raw).buckets)}
               = {<<r.start, r.end>> : r \in ToSet(Rows(raw.usage \o raw.costs))}
<1> DEFINE account == OpenAi!OpenAiAccount(raw)
           usage == OpenAi!Rows(raw.usage)
           costs == OpenAi!Rows(raw.costs)
           buckets == OpenAi!MergeBuckets(usage, costs)
           models == OpenAi!ModelTotals(OpenAi!Results(usage))
           spent == [p \in OpenAi!Periods |-> OpenAi!SpentSince(raw.starts[p], costs)]
           budget == [p \in OpenAi!Periods |->
                         OpenAi!CalculateBudgetState(OpenAi!Dollars(spent[p]), None, None)]
           bad == \/ ~OpenAi!Parsed(raw.usage) \/ ~OpenAi!Parsed(raw.costs)
                  \/ OpenAi!Broken(buckets, models)
                  \/ Refused \in {spent[p] : p \in OpenAi!Periods}
           platform == OpenAi!PlatformAccount("openai-local", "openai", "openai.platform", budget,
                                              buckets, OpenAi!ModelBreakdown(models))
<1>1. account = IF bad THEN Refused ELSE platform
  BY Zenon DEF OpenAi!OpenAiAccount
<1>2. ~bad /\ account = platform
  <2> HIDE DEF bad, platform, account
  <2>1. account # Refused
    BY DEF account
  <2> QED
    BY <1>1, <2>1, Zenon
<1>3. OpenAi!Parsed(raw.usage) /\ OpenAi!Parsed(raw.costs)
  BY <1>2, Zenon
<1> HIDE DEF bad, models, spent, budget, account
<1>4. account.buckets = buckets
  <2> HIDE DEF buckets
  <2> QED
    BY <1>2, Zenon DEF OpenAi!PlatformAccount
<1>5. /\ Listed(raw.usage) /\ \A page \in ToSet(raw.usage) : Timed(page)
      /\ Listed(raw.costs) /\ \A page \in ToSet(raw.costs) : Timed(page)
  BY <1>3, PagesAreTimed
<1>6. usage = Rows(raw.usage) /\ costs = Rows(raw.costs)
  BY OpenAiRows
<1>7. /\ Timed(usage) /\ ToSet(usage) = UNION {ToSet(page) : page \in ToSet(raw.usage)}
      /\ Timed(costs) /\ ToSet(costs) = UNION {ToSet(page) : page \in ToSet(raw.costs)}
  <2> HIDE DEF usage, costs
  <2> QED
    BY <1>5, <1>6, RowsAre
<1>8. /\ Listed(raw.usage \o raw.costs)
      /\ ToSet(raw.usage \o raw.costs) = ToSet(raw.usage) \cup ToSet(raw.costs)
  BY <1>5, ListedBoth
<1>9. ToSet(Rows(raw.usage \o raw.costs)) = ToSet(usage) \cup ToSet(costs)
  <2>1. \A page \in ToSet(raw.usage \o raw.costs) : Timed(page)
    BY <1>5, <1>8
  <2>2. ToSet(Rows(raw.usage \o raw.costs))
          = UNION {ToSet(page) : page \in ToSet(raw.usage \o raw.costs)}
    BY <1>8, <2>1, RowsAre
  <2> HIDE DEF usage, costs
  <2> QED
    BY <1>7, <1>8, <2>2
<1>10. {<<MinuteNumber(b.start), MinuteNumber(b.end)>> : b \in ToSet(buckets)}
         = {<<r.start, r.end>> : r \in ToSet(usage) \cup ToSet(costs)}
  <2> HIDE DEF usage, costs
  <2> QED
    BY <1>7, BucketSpans
<1> HIDE DEF buckets, usage, costs
<1> QED
  BY <1>4, <1>9, <1>10 DEF account

-----------------------------------------------------------------------------
(***************************************************************************)
(* The types of accounts.                                                  *)
(***************************************************************************)
\* What a report tells of a period: what was spent, or nothing.
SpendStates ==
    [spent : Option(Money), limit : {None}, remaining : {None}, percent : {None},
     projected : {None}, status : {"unknown"}]

TypedAccount(account) ==
    /\ IsAccount(account)
    /\ \A b \in ToSet(account.buckets) : b \in UsageBuckets
    /\ account.budget \in [Periods -> SpendStates]

LEMMA SpendIs ==
    ASSUME NEW spent \in Option(Money)
    PROVE  CalculateBudgetState(spent, None, None) \in SpendStates
  BY DEF CalculateBudgetState, SpendStates

LEMMA NoSpendIs == UnknownBudget \in SpendStates
  BY SpendIs DEF UnknownBudget, Option

LEMMA SpendIsBudget == SpendStates \subseteq BudgetStates
  BY StatusesAre DEF SpendStates, BudgetStates, Option

LEMMA DollarsAreMoney == ASSUME NEW minor \in Int PROVE Dollars(minor) \in Money
  BY DollarAssumption DEF Dollars, Money

LEMMA AccountIs ==
    ASSUME NEW id, NEW provider, NEW connection \in Connections, NEW status \in Statuses,
           NEW budget \in [Periods -> SpendStates], NEW allowances, Listed(allowances),
           \A w \in ToSet(allowances) : IsAllowance(w),
           NEW buckets, \A b \in ToSet(buckets) : b \in UsageBuckets, NEW models
    PROVE  TypedAccount([id |-> id, provider |-> provider, connection |-> connection,
                         status |-> status, budget |-> budget, allowances |-> allowances,
                         buckets |-> buckets, models |-> models])
<1> DEFINE account == [id |-> id, provider |-> provider, connection |-> connection,
                       status |-> status, budget |-> budget, allowances |-> allowances,
                       buckets |-> buckets, models |-> models]
<1>1. HasFields(account, {"id", "provider", "connection", "status", "budget", "allowances"})
  BY DEF HasFields
<1>2. /\ account.connection = connection /\ account.status = status /\ account.budget = budget
      /\ account.allowances = allowances /\ account.buckets = buckets
  OBVIOUS
<1> HIDE DEF account
<1>3. budget \in [Periods -> BudgetStates]
  BY SpendIsBudget
<1>4. allowances \in Seq(ToSet(allowances))
  BY DEF Listed
<1>5. connection \in Option(Connections)
  BY DEF Option
<1>6. IsAccount(account)
  BY <1>1, <1>2, <1>3, <1>4, <1>5, Zenon DEF IsAccount
<1>7. TypedAccount(account)
  BY <1>2, <1>6, Zenon DEF TypedAccount
<1> QED
  BY <1>7 DEF account

LEMMA PlanIsTyped ==
    ASSUME NEW id, NEW provider, NEW connection \in Connections, NEW allowances, Listed(allowances),
           \A w \in ToSet(allowances) : Fits(w),
           NEW buckets, \A b \in ToSet(buckets) : b \in UsageBuckets
    PROVE  TypedAccount(PlanAccount(id, provider, connection, allowances, buckets))
<1> DEFINE status == WorstStatus(allowances)
           budget == NoBudgets
<1>1. budget \in [Periods -> SpendStates]
  BY NoSpendIs DEF NoBudgets
<1>2. status \in Statuses
  <2> DEFINE S == {allowances[i].status : i \in DOMAIN allowances}
  <2>1. status = Worst(S)
    BY DEF WorstStatus
  <2>2. S \subseteq Statuses
    BY DEF ToSet, Fits
  <2> HIDE DEF S, status
  <2>3. CASE S = {}
    BY <2>1, <2>3, StatusesAre DEF Worst
  <2>4. CASE S # {}
    BY <2>1, <2>2, <2>4, WorstIsTop
  <2> QED
    BY <2>3, <2>4
<1>3. PlanAccount(id, provider, connection, allowances, buckets)
        = [id |-> id, provider |-> provider, connection |-> connection,
           status |-> status, budget |-> budget, allowances |-> allowances,
           buckets |-> buckets, models |-> <<>>]
  BY Zenon DEF PlanAccount
<1>4. \A w \in ToSet(allowances) : IsAllowance(w)
  BY Zenon DEF Fits
<1> HIDE DEF status, budget
<1> QED
  BY <1>1, <1>2, <1>3, <1>4, AccountIs

LEMMA BucketIs ==
    ASSUME NEW start \in Instants, NEW end \in Instants, NEW cost \in Option(Money),
           NEW input \in Counts, NEW output \in Counts, NEW cached \in Counts,
           NEW total \in Counts, NEW requests \in Counts
    PROVE  Bucket(start, end, cost, input, output, cached, total, requests) \in UsageBuckets
  BY DEF Bucket, UsageBuckets

LEMMA MidnightIs == ASSUME NEW date \in Dates PROVE Midnight(date) \in Instants
  BY DEF Midnight, Instant, Instants, DayMinutes

LEMMA ConnectionsAre ==
    {"openai.plan", "openai.platform", "anthropic.plan", "anthropic.platform",
     "cursor.plan", "cursor.platform"} \subseteq Connections
  BY DEF Connections

LEMMA CodexPlan ==
    ASSUME NEW id, NEW provider, NEW connection, NEW allowances, NEW buckets
    PROVE  Codex!PlanAccount(id, provider, connection, allowances, buckets)
             = PlanAccount(id, provider, connection, allowances, buckets)
<1>1. Codex!UnknownBudget = UnknownBudget
  BY Zenon DEF Codex!UnknownBudget, UnknownBudget, Codex!CalculateBudgetState, CalculateBudgetState,
               Codex!Wrap, Wrap, Codex!Fraction, Fraction, Codex!Reaches, Reaches,
               Codex!DefaultWarnAt, DefaultWarnAt
<1>2. Codex!NoBudgets = NoBudgets
  BY <1>1, Zenon DEF Codex!NoBudgets, NoBudgets, Codex!Periods, Periods
<1> QED
  BY <1>2, CodexWorst, Zenon DEF Codex!PlanAccount, PlanAccount

LEMMA ClaudePlan ==
    ASSUME NEW id, NEW provider, NEW connection, NEW allowances, NEW buckets
    PROVE  Claude!PlanAccount(id, provider, connection, allowances, buckets)
             = PlanAccount(id, provider, connection, allowances, buckets)
<1>1. Claude!UnknownBudget = UnknownBudget
  BY Zenon DEF Claude!UnknownBudget, UnknownBudget, Claude!CalculateBudgetState, CalculateBudgetState,
               Claude!Wrap, Wrap, Claude!Fraction, Fraction, Claude!Reaches, Reaches,
               Claude!DefaultWarnAt, DefaultWarnAt
<1>2. Claude!NoBudgets = NoBudgets
  BY <1>1, Zenon DEF Claude!NoBudgets, NoBudgets, Claude!Periods, Periods
<1> QED
  BY <1>2, ClaudeWorst, Zenon DEF Claude!PlanAccount, PlanAccount

LEMMA CursorPlan ==
    ASSUME NEW id, NEW provider, NEW connection, NEW allowances, NEW buckets
    PROVE  Cursor!PlanAccount(id, provider, connection, allowances, buckets)
             = PlanAccount(id, provider, connection, allowances, buckets)
<1>1. Cursor!UnknownBudget = UnknownBudget
  BY Zenon DEF Cursor!UnknownBudget, UnknownBudget, Cursor!CalculateBudgetState, CalculateBudgetState,
               Cursor!Wrap, Wrap, Cursor!Fraction, Fraction, Cursor!Reaches, Reaches,
               Cursor!DefaultWarnAt, DefaultWarnAt
<1>2. Cursor!NoBudgets = NoBudgets
  BY <1>1, Zenon DEF Cursor!NoBudgets, NoBudgets, Cursor!Periods, Periods
<1> QED
  BY <1>2, CursorWorst, Zenon DEF Cursor!PlanAccount, PlanAccount

\* A day of Codex tokens.
LEMMA CodexBucketIs ==
    ASSUME NEW row \in Codex!RawUsageBuckets, Codex!IsDate(row.date)
    PROVE  Codex!UsageBucket(row) \in UsageBuckets
<1>1. row.date \in Dates /\ IsDate(row.date) /\ row.tokens \in 0..MaxCount
  BY CodexRaw, CodexDate
<1>2. Codex!UsageBucket(row) = Bucket(Midnight(row.date), Midnight(NextDate(row.date)), None, None,
                                      None, None, row.tokens, None)
  BY CodexNextDate, Zenon DEF Codex!UsageBucket, Codex!Bucket, Bucket, Codex!Midnight, Midnight,
                              Codex!Instant, Instant
<1>3. NextDate(row.date) \in Dates
  BY <1>1, NextDay
<1>4. Midnight(row.date) \in Instants /\ Midnight(NextDate(row.date)) \in Instants
  BY <1>1, <1>3, MidnightIs
<1>5. row.tokens \in Counts /\ None \in Counts /\ None \in Option(Money)
  BY <1>1 DEF Counts, Option
<1> QED
  BY <1>2, <1>4, <1>5, BucketIs

LEMMA CodexTyped ==
    ASSUME NEW raw \in Codex!RawReports, Codex!CodexAccount(raw) # Refused
    PROVE  TypedAccount(Codex!CodexAccount(raw))
<1> DEFINE account == Codex!CodexAccount(raw)
           limits == Codex!RateLimits(raw)
           windows == Codex!FlattenSeq([i \in DOMAIN limits |-> Codex!LimitWindows(limits[i])])
                        \o Codex!CreditWindows(raw)
           buckets == [i \in DOMAIN raw.days |-> Codex!UsageBucket(raw.days[i])]
           bad == \/ Codex!QuantityRefused(raw)
                  \/ \E row \in Codex!ToSet(raw.days) : ~Codex!IsDate(row.date)
           plan == Codex!PlanAccount("codex-local", "codex", "openai.plan", windows, buckets)
<1>1. account = IF bad THEN Refused ELSE plan
  BY Zenon DEF Codex!CodexAccount
<1>2. account = plan
  <2> HIDE DEF bad, plan, account
  <2>1. account # Refused
    BY DEF account
  <2> QED
    BY <1>1, <2>1, Zenon
<1> HIDE DEF windows, buckets
<1>3. account = PlanAccount("codex-local", "codex", "openai.plan", windows, buckets)
  BY <1>2, CodexPlan, Zenon
<1>4. account.allowances = windows
  <2> HIDE DEF account
  <2> QED
    BY <1>3, Zenon DEF PlanAccount
<1>5. /\ IsPlanAccount(account)
      /\ \A row \in ToSet(raw.days) : Codex!IsDate(row.date)
  BY CodexAccountIs
<1> HIDE DEF account
<1>6. Listed(windows) /\ \A w \in ToSet(windows) : Fits(w)
  BY <1>4, <1>5, Zenon DEF IsPlanAccount
<1>7. ASSUME NEW b \in ToSet(buckets)
      PROVE  b \in UsageBuckets
  <2>1. raw.days \in Seq(Codex!RawUsageBuckets)
    BY CodexRaw
  <2>2. PICK i \in DOMAIN raw.days : b = Codex!UsageBucket(raw.days[i])
    BY DEF ToSet, buckets
  <2>3. raw.days[i] \in Codex!RawUsageBuckets /\ raw.days[i] \in ToSet(raw.days)
    BY <2>1 DEF ToSet
  <2> QED
    BY <1>5, <2>2, <2>3, CodexBucketIs
<1> QED
  BY <1>3, <1>6, <1>7, PlanIsTyped, ConnectionsAre DEF account

LEMMA ClaudeTyped ==
    ASSUME NEW raw \in Claude!RawReports, Claude!ClaudeAccount(raw) # Refused
    PROVE  TypedAccount(Claude!ClaudeAccount(raw))
<1> DEFINE account == Claude!ClaudeAccount(raw)
           reported == Claude!Reported(raw)
           windows == reported \o Claude!ExtraUsage(raw)
           bad == Refused \in {reported[i].resetsAt : i \in DOMAIN reported}
           plan == Claude!PlanAccount("claude-local", "claude", "anthropic.plan", windows, <<>>)
<1>1. account = IF bad THEN Refused ELSE plan
  BY Zenon DEF Claude!ClaudeAccount
<1>2. account = plan
  <2> HIDE DEF bad, plan, account
  <2>1. account # Refused
    BY DEF account
  <2> QED
    BY <1>1, <2>1, Zenon
<1> HIDE DEF windows
<1>3. account = PlanAccount("claude-local", "claude", "anthropic.plan", windows, <<>>)
  BY <1>2, ClaudePlan, Zenon
<1>4. account.allowances = windows
  <2> HIDE DEF account
  <2> QED
    BY <1>3, Zenon DEF PlanAccount
<1>5. IsPlanAccount(account)
  BY ClaudeAccountIs
<1> HIDE DEF account
<1>6. Listed(windows) /\ \A w \in ToSet(windows) : Fits(w)
  BY <1>4, <1>5, Zenon DEF IsPlanAccount
<1>7. \A b \in ToSet(<<>>) : b \in UsageBuckets
  BY ListedNone
<1> QED
  BY <1>3, <1>6, <1>7, PlanIsTyped, ConnectionsAre DEF account

LEMMA CursorPlanTyped ==
    ASSUME NEW raw \in Cursor!RawPlanReports
    PROVE  TypedAccount(Cursor!CursorPlanAccount(raw))
<1> DEFINE account == Cursor!CursorPlanAccount(raw)
           windows == Cursor!PlanWindows(raw) \o Cursor!OnDemandWindows(raw)
<1>1. account = Cursor!PlanAccount("cursor-local", "cursor", "cursor.plan", windows, <<>>)
  BY Zenon DEF Cursor!CursorPlanAccount
<1> HIDE DEF windows
<1>2. account = PlanAccount("cursor-local", "cursor", "cursor.plan", windows, <<>>)
  BY <1>1, CursorPlan, Zenon
<1>3. account.allowances = windows
  <2> HIDE DEF account
  <2> QED
    BY <1>2, Zenon DEF PlanAccount
<1>4. IsPlanAccount(account)
  BY CursorPlanIs
<1> HIDE DEF account
<1>5. Listed(windows) /\ \A w \in ToSet(windows) : Fits(w)
  BY <1>3, <1>4, Zenon DEF IsPlanAccount
<1>6. \A b \in ToSet(<<>>) : b \in UsageBuckets
  BY ListedNone
<1> QED
  BY <1>2, <1>5, <1>6, PlanIsTyped, ConnectionsAre DEF account

LEMMA ListedFinite ==
    ASSUME NEW s, Listed(s)
    PROVE  IsFiniteSet(ToSet(s))
<1> DEFINE n == Len(s)
<1>1. n \in Nat /\ DOMAIN s = 1..n
  BY DEF Listed
<1>2. ToSet(s) = {s[i] : i \in 1..n}
  BY <1>1 DEF ToSet
<1> HIDE DEF n
<1>3. IsFiniteSet(1..n)
  BY <1>1, FS_Interval
<1> DEFINE f == [i \in 1..n |-> s[i]]
<1>4. f \in Surjection(1..n, ToSet(s))
  BY <1>2 DEF Surjection
<1> HIDE DEF f
<1> QED
  BY <1>3, <1>4, FS_Surjection

\* Pages that parse are pages of rows.
LEMMA ParsedRows ==
    ASSUME NEW T, NEW pages \in Seq(Seq(T) \cup {Refused}), Refused \notin ToSet(pages)
    PROVE  pages \in Seq(Seq(T)) /\ Rows(pages) \in Seq(T)
<1>1. \A i \in 1..Len(pages) : pages[i] \in Seq(T)
  <2> TAKE i \in 1..Len(pages)
  <2>1. pages[i] \in ToSet(pages)
    BY DEF ToSet
  <2> QED
    BY <2>1
<1>2. pages \in Seq(Seq(T))
  BY <1>1
<1> QED
  BY <1>2, FlattenIs DEF Rows

\* The elements of a sequence that are in a set.
Among(s, P) == FlattenSeq([i \in DOMAIN s |-> IF s[i] \in P THEN <<s[i]>> ELSE <<>>])

LEMMA AmongIs ==
    ASSUME NEW T, NEW s \in Seq(T), NEW P
    PROVE  Among(s, P) \in Seq(T) /\ ToSet(Among(s, P)) = ToSet(s) \cap P
<1> DEFINE n == Len(s)
           parts == [i \in 1..n |-> IF s[i] \in P THEN <<s[i]>> ELSE <<>>]
<1>1. n \in Nat /\ DOMAIN s = 1..n /\ \A i \in 1..n : s[i] \in T
  OBVIOUS
<1>2. Among(s, P) = FlattenSeq(parts)
  BY <1>1 DEF Among
<1>3. ToSet(s) = {s[i] : i \in 1..n}
  BY <1>1 DEF ToSet
<1> HIDE DEF n
<1>4. parts \in Seq(Seq(T)) /\ DOMAIN parts = 1..n
  BY <1>1
<1>5. \A i \in 1..n : ToSet(parts[i]) = {s[i]} \cap P
  <2> TAKE i \in 1..n
  <2>1. parts[i] = IF s[i] \in P THEN <<s[i]>> ELSE <<>>
    OBVIOUS
  <2> HIDE DEF parts
  <2> QED
    BY <2>1, ListedNone, ListedOne
<1> HIDE DEF parts
<1>6. /\ FlattenSeq(parts) \in Seq(T)
      /\ ToSet(FlattenSeq(parts)) = UNION {ToSet(parts[i]) : i \in DOMAIN parts}
  BY <1>4, FlattenIs
<1>7. UNION {ToSet(parts[i]) : i \in DOMAIN parts} = ToSet(s) \cap P
  BY <1>3, <1>4, <1>5
<1> QED
  BY <1>2, <1>6, <1>7

LEMMA RowsTyped ==
    ASSUME NEW T, NEW rows \in Seq(T)
    PROVE  ToSet(rows) \subseteq T /\ IsFiniteSet(ToSet(rows)) /\ Listed(rows)
  BY ListedOf, ListedFinite

\* The counts of an OpenAI result join the totals, or refuse them.
LEMMA OpenAiRaw ==
    /\ OpenAi!UsageFields = {"input", "output", "cached", "requests"}
    /\ OpenAi!RawUsageResults = [input : Nat, output : Nat, cached : Option(Nat), requests : Nat,
                                 model : Option(STRING)]
    /\ OpenAi!RawCostResults = [amount : OpenAi!RawAmounts, currency : Option(STRING)]
    /\ OpenAi!RawAmounts = {None, Refused} \cup [digits : Int, fraction : Nat, exponent : Int]
  BY DEF OpenAi!UsageFields, OpenAi!RawUsageResults, OpenAi!RawCostResults, OpenAi!RawAmounts,
         OpenAi!Option, Option

LEMMA OpenAiZero == ASSUME NEW x PROVE OpenAi!OrZero(x) = OrZero(x)
  BY Zenon DEF OpenAi!OrZero, OrZero

LEMMA OpenAiCount == ASSUME NEW a, NEW b PROVE OpenAi!CheckedCount(a, b) = CheckedCount(a, b)
  BY Zenon DEF OpenAi!CheckedCount, CheckedCount

LEMMA CountIs ==
    ASSUME NEW a \in (0..MaxCount) \cup {Refused}, NEW b \in Nat
    PROVE  CheckedCount(a, b) \in (0..MaxCount) \cup {Refused}
  BY WidthAssumption DEF CheckedCount

OpenAiTotals == [OpenAi!UsageFields -> (0..MaxCount) \cup {Refused}]

LEMMA OpenAiAdds ==
    ASSUME NEW v \in OpenAiTotals, NEW x \in OpenAi!RawUsageResults
    PROVE  OpenAi!AddUsage(v, x) \in OpenAiTotals
<1>1. ASSUME NEW f \in OpenAi!UsageFields
      PROVE  OpenAi!CheckedCount(v[f], OpenAi!OrZero(x[f])) \in (0..MaxCount) \cup {Refused}
  <2>1. v[f] \in (0..MaxCount) \cup {Refused}
    BY DEF OpenAiTotals
  <2>2. x[f] \in Option(Nat)
    BY OpenAiRaw DEF Option
  <2>3. OrZero(x[f]) \in Nat
    BY <2>2 DEF OrZero, Option
  <2> QED
    BY <2>1, <2>3, OpenAiZero, OpenAiCount, CountIs
<1> QED
  BY <1>1 DEF OpenAi!AddUsage, OpenAiTotals

LEMMA OpenAiNothing == OpenAi!NoUsage \in OpenAiTotals
<1>1. 0 \in (0..MaxCount) \cup {Refused}
  BY WidthAssumption
<1> QED
  BY <1>1 DEF OpenAi!NoUsage, OpenAiTotals

LEMMA SaturatingIs ==
    ASSUME NEW a \in Nat, NEW b \in Nat
    PROVE  SaturatingCount(a, b) \in 0..MaxCount
  BY WidthAssumption DEF SaturatingCount

LEMMA AnthropicRaw ==
    /\ Anthropic!UsageFields = {"input", "output", "cached"}
    /\ Anthropic!RawUsageResults = [input : Nat, output : Nat, read : Nat, hourly : Nat, brief : Nat,
                                    model : Option(STRING)]
    /\ Anthropic!RawCostResults = [amount : Anthropic!RawAmounts, currency : Option(STRING)]
    /\ Anthropic!RawAmounts = {None, Refused} \cup [whole : Int, tenth : 0..9]
  BY DEF Anthropic!UsageFields, Anthropic!RawUsageResults, Anthropic!RawCostResults,
         Anthropic!RawAmounts, Anthropic!Option, Option

AnthropicTotals == [input : 0..MaxCount, output : 0..MaxCount, cached : 0..MaxCount]

LEMMA AnthropicCount ==
    ASSUME NEW a, NEW b
    PROVE  Anthropic!SaturatingCount(a, b) = SaturatingCount(a, b)
  BY Zenon DEF Anthropic!SaturatingCount, SaturatingCount

LEMMA AnthropicAdds ==
    ASSUME NEW v \in AnthropicTotals, NEW x \in Anthropic!RawUsageResults
    PROVE  Anthropic!AddUsage(v, x) \in AnthropicTotals
<1>1. /\ v.input \in 0..MaxCount /\ v.output \in 0..MaxCount /\ v.cached \in 0..MaxCount
      /\ x.input \in Nat /\ x.output \in Nat /\ x.read \in Nat /\ x.hourly \in Nat /\ x.brief \in Nat
  BY AnthropicRaw DEF AnthropicTotals
<1>5. 0..MaxCount \subseteq Nat
  OBVIOUS
<1> DEFINE created == SaturatingCount(x.hourly, x.brief)
           read == SaturatingCount(v.cached, x.read)
<1>2. Anthropic!AddUsage(v, x) = [input |-> SaturatingCount(v.input, x.input),
                                  output |-> SaturatingCount(v.output, x.output),
                                  cached |-> SaturatingCount(read, created)]
  BY AnthropicCount, Zenon DEF Anthropic!AddUsage
<1>3. created \in 0..MaxCount /\ read \in 0..MaxCount
  <2>1. created \in 0..MaxCount
    BY <1>1, SaturatingIs, Zenon
  <2>2. v.cached \in Nat
    BY <1>1, <1>5
  <2>3. read \in 0..MaxCount
    BY <1>1, <2>2, SaturatingIs, Zenon
  <2> QED
    BY <2>1, <2>3
<1> HIDE DEF created, read
<1>4. /\ SaturatingCount(v.input, x.input) \in 0..MaxCount
      /\ SaturatingCount(v.output, x.output) \in 0..MaxCount
      /\ SaturatingCount(read, created) \in 0..MaxCount
  <2>1. v.input \in Nat /\ v.output \in Nat /\ read \in Nat /\ created \in Nat
    BY <1>1, <1>3, <1>5
  <2> QED
    BY <1>1, <2>1, SaturatingIs, Zenon
<1> QED
  BY <1>2, <1>4 DEF AnthropicTotals

LEMMA AnthropicNothing == Anthropic!NoUsage \in AnthropicTotals
<1>1. 0 \in 0..MaxCount
  BY WidthAssumption
<1>2. Anthropic!NoUsage = [f \in {"input", "output", "cached"} |-> 0]
  BY AnthropicRaw DEF Anthropic!NoUsage
<1>3. [f \in {"input", "output", "cached"} |-> 0] = [input |-> 0, output |-> 0, cached |-> 0]
  OBVIOUS
<1> QED
  BY <1>1, <1>2, <1>3 DEF AnthropicTotals

LEMMA CursorTeamRaw ==
    /\ Cursor!RawDailyUsageRows = [day : Option(Dates), included : Option(Nat),
                                   usageBased : Option(Nat), apiKey : Option(Nat)]
    /\ Cursor!RawSpendMembers = [overall : Option(Int), included : Option(Int), onDemand : Option(Int)]
  BY DEF Cursor!RawDailyUsageRows, Cursor!RawSpendMembers, Cursor!Option, Option, Cursor!Dates, Dates

LEMMA RowRequestsAre ==
    ASSUME NEW row \in Cursor!RawDailyUsageRows
    PROVE  Cursor!RowRequests(row) \in Option(0..MaxCount)
<1>1. /\ row.included \in Option(Nat) /\ row.usageBased \in Option(Nat) /\ row.apiKey \in Option(Nat)
  BY CursorTeamRaw
<1> DEFINE unknown == None \in {row.included, row.usageBased, row.apiKey}
           two == SaturatingCount(row.included, row.usageBased)
<1>2. Cursor!RowRequests(row) = IF unknown THEN None ELSE SaturatingCount(two, row.apiKey)
  BY Zenon DEF Cursor!RowRequests, Cursor!SaturatingCount, SaturatingCount
<1>3. ~unknown => row.included \in Nat /\ row.usageBased \in Nat /\ row.apiKey \in Nat
  BY <1>1 DEF Option
<1>4. ~unknown => two \in 0..MaxCount
  BY <1>3, SaturatingIs, Zenon
<1> HIDE DEF unknown, two
<1>5. ~unknown => SaturatingCount(two, row.apiKey) \in 0..MaxCount
  <2>1. 0..MaxCount \subseteq Nat
    OBVIOUS
  <2>2. ~unknown => two \in Nat
    BY <1>4, <2>1
  <2> QED
    BY <1>3, <2>2, SaturatingIs, Zenon
<1> QED
  BY <1>2, <1>5 DEF Option

LEMMA CursorAdds ==
    ASSUME NEW v \in Option(0..MaxCount), NEW row \in Cursor!RawDailyUsageRows
    PROVE  Cursor!AddRequests(v, row) \in Option(0..MaxCount)
<1>1. Cursor!RowRequests(row) \in Option(0..MaxCount)
  BY RowRequestsAre
<1> DEFINE r == Cursor!RowRequests(row)
<1>2. Cursor!AddRequests(v, row) = IF v = None \/ r = None THEN None ELSE SaturatingCount(v, r)
  BY Zenon DEF Cursor!AddRequests, Cursor!SaturatingCount, SaturatingCount
<1> HIDE DEF r
<1>3. v # None /\ r # None => SaturatingCount(v, r) \in 0..MaxCount
  BY <1>1, SaturatingIs DEF Option, r
<1> QED
  BY <1>2, <1>3 DEF Option

Minor == Int \cup {Refused}

LEMMA MinorIs == ASSUME NEW a, NEW b PROVE CheckedMinor(a, b) \in Minor
  BY MoneyAssumption DEF CheckedMinor, IfFits, Minor

LEMMA AnthropicMinor ==
    ASSUME NEW a, NEW b
    PROVE  Anthropic!CheckedMinor(a, b) = CheckedMinor(a, b)
  BY Zenon DEF Anthropic!CheckedMinor, CheckedMinor, Anthropic!IfFits, IfFits

LEMMA CostAdds ==
    ASSUME NEW v \in Minor, NEW x
    PROVE  Anthropic!AddCost(v, x) \in Minor
<1>1. \/ Anthropic!AddCost(v, x) = Refused
      \/ Anthropic!AddCost(v, x) = v
      \/ Anthropic!AddCost(v, x) = CheckedMinor(v, Anthropic!CentsFromDecimal(x.amount))
  BY AnthropicMinor, Zenon DEF Anthropic!AddCost
<1> QED
  BY <1>1, MinorIs DEF Minor

\* The totals of OpenAI results, result by result.
LEMMA OpenAiUsageChain ==
    ASSUME NEW n \in Nat, NEW w, DOMAIN w = 1..n,
           \A i \in 1..n : w[i] \in OpenAi!RawUsageResults
    PROVE  \E c \in [0..n -> OpenAiTotals] :
               /\ c[0] = OpenAi!NoUsage /\ \A i \in 1..n : c[i] = OpenAi!AddUsage(c[i - 1], w[i])
               /\ OpenAi!UsageTotals(w) = c[n]
<1> DEFINE V == OpenAiTotals
           base == OpenAi!NoUsage
           Step(v, x) == OpenAi!AddUsage(v, x)
           Folds(g) == g = [s \in SUBSET (1..n) |->
                               IF s = {} THEN base ELSE Step(g[s \ {Max(s)}], w[Max(s)])]
           G == CHOOSE g : Folds(g)
           h == [p \in (1..n) \X V |-> Step(p[2], w[p[1]])]
<1>1. base \in V /\ \A i \in 1..n, v \in V : Step(v, w[i]) \in V
  BY OpenAiAdds, OpenAiNothing
<1>2. OpenAi!UsageTotals(w) = G[1..n]
  BY Zenon DEF OpenAi!UsageTotals, OpenAi!FoldLeft, OpenAi!MapThenFoldSet, OpenAi!Max, Max
<1> HIDE DEF V, base, Step
<1>3. h \in [(1..n) \X V -> V] /\ \A i \in 1..n, v \in V : h[<<i, v>>] = Step(v, w[i])
  BY <1>1
<1> HIDE DEF h
<1>4. Folds(G)
  <2>1. PICK g : FoldOf(g, n, base, h) /\ \A s \in SUBSET (1..n) : g[s] \in V
    BY <1>1, <1>3, FoldExists
  <2>2. ASSUME NEW s \in SUBSET (1..n), s # {}
        PROVE  h[<<Max(s), g[s \ {Max(s)}]>>] = Step(g[s \ {Max(s)}], w[Max(s)])
    <3>1. Max(s) \in 1..n
      BY <1>1, <2>2, MaxIsThere
    <3> QED
      BY <1>3, <2>1, <3>1
  <2>3. Folds(g)
    BY <2>1, <2>2 DEF FoldOf
  <2> QED
    BY <2>3
<1> HIDE DEF G
<1>5. FoldedBy(G, n, V, base, h)
  <2>1. ASSUME NEW s \in SUBSET (1..n), s # {}, G[s \ {Max(s)}] \in V
        PROVE  G[s] = h[<<Max(s), G[s \ {Max(s)}]>>]
    <3>1. Max(s) \in 1..n
      BY <1>1, <2>1, MaxIsThere
    <3>2. G[s] = Step(G[s \ {Max(s)}], w[Max(s)])
      BY <1>4, <2>1
    <3> QED
      BY <1>3, <2>1, <3>1, <3>2
  <2>2. G[{}] = base
    BY <1>4
  <2> QED
    BY <1>1, <1>3, <2>1, <2>2 DEF FoldedBy
<1>6. PICK c : ChainOf(c, n, V, base, h) /\ c[n] = G[1..n]
  BY <1>5, FoldedChain
<1>7. \A i \in 1..n : c[i] = Step(c[i - 1], w[i])
  <2> TAKE i \in 1..n
  <2>1. i - 1 \in 0..n
    OBVIOUS
  <2> QED
    BY <1>3, <1>6, <2>1 DEF ChainOf
<1> QED
  BY <1>2, <1>6, <1>7 DEF V, base, Step, ChainOf

\* The totals of Anthropic results, result by result.
LEMMA AnthropicUsageChain ==
    ASSUME NEW n \in Nat, NEW w, DOMAIN w = 1..n,
           \A i \in 1..n : w[i] \in Anthropic!RawUsageResults
    PROVE  \E c \in [0..n -> AnthropicTotals] :
               /\ c[0] = Anthropic!NoUsage /\ \A i \in 1..n : c[i] = Anthropic!AddUsage(c[i - 1], w[i])
               /\ Anthropic!UsageTotals(w) = c[n]
<1> DEFINE V == AnthropicTotals
           base == Anthropic!NoUsage
           Step(v, x) == Anthropic!AddUsage(v, x)
           Folds(g) == g = [s \in SUBSET (1..n) |->
                               IF s = {} THEN base ELSE Step(g[s \ {Max(s)}], w[Max(s)])]
           G == CHOOSE g : Folds(g)
           h == [p \in (1..n) \X V |-> Step(p[2], w[p[1]])]
<1>1. base \in V /\ \A i \in 1..n, v \in V : Step(v, w[i]) \in V
  BY AnthropicAdds, AnthropicNothing
<1>2. Anthropic!UsageTotals(w) = G[1..n]
  BY Zenon DEF Anthropic!UsageTotals, Anthropic!FoldLeft, Anthropic!MapThenFoldSet, Anthropic!Max, Max
<1> HIDE DEF V, base, Step
<1>3. h \in [(1..n) \X V -> V] /\ \A i \in 1..n, v \in V : h[<<i, v>>] = Step(v, w[i])
  BY <1>1
<1> HIDE DEF h
<1>4. Folds(G)
  <2>1. PICK g : FoldOf(g, n, base, h) /\ \A s \in SUBSET (1..n) : g[s] \in V
    BY <1>1, <1>3, FoldExists
  <2>2. ASSUME NEW s \in SUBSET (1..n), s # {}
        PROVE  h[<<Max(s), g[s \ {Max(s)}]>>] = Step(g[s \ {Max(s)}], w[Max(s)])
    <3>1. Max(s) \in 1..n
      BY <1>1, <2>2, MaxIsThere
    <3> QED
      BY <1>3, <2>1, <3>1
  <2>3. Folds(g)
    BY <2>1, <2>2 DEF FoldOf
  <2> QED
    BY <2>3
<1> HIDE DEF G
<1>5. FoldedBy(G, n, V, base, h)
  <2>1. ASSUME NEW s \in SUBSET (1..n), s # {}, G[s \ {Max(s)}] \in V
        PROVE  G[s] = h[<<Max(s), G[s \ {Max(s)}]>>]
    <3>1. Max(s) \in 1..n
      BY <1>1, <2>1, MaxIsThere
    <3>2. G[s] = Step(G[s \ {Max(s)}], w[Max(s)])
      BY <1>4, <2>1
    <3> QED
      BY <1>3, <2>1, <3>1, <3>2
  <2>2. G[{}] = base
    BY <1>4
  <2> QED
    BY <1>1, <1>3, <2>1, <2>2 DEF FoldedBy
<1>6. PICK c : ChainOf(c, n, V, base, h) /\ c[n] = G[1..n]
  BY <1>5, FoldedChain
<1>7. \A i \in 1..n : c[i] = Step(c[i - 1], w[i])
  <2> TAKE i \in 1..n
  <2>1. i - 1 \in 0..n
    OBVIOUS
  <2> QED
    BY <1>3, <1>6, <2>1 DEF ChainOf
<1> QED
  BY <1>2, <1>6, <1>7 DEF V, base, Step, ChainOf

\* The cents of a bucket, charge by charge.
LEMMA CostChain ==
    ASSUME NEW n \in Nat, NEW w, DOMAIN w = 1..n
    PROVE  \E c \in [0..n -> Minor] :
               /\ c[0] = 0 /\ \A i \in 1..n : c[i] = Anthropic!AddCost(c[i - 1], w[i])
               /\ Anthropic!FoldLeft(Anthropic!AddCost, 0, w) = c[n]
<1> DEFINE V == Minor
           base == 0
           Step(v, x) == Anthropic!AddCost(v, x)
           Folds(g) == g = [s \in SUBSET (1..n) |->
                               IF s = {} THEN base ELSE Step(g[s \ {Max(s)}], w[Max(s)])]
           G == CHOOSE g : Folds(g)
           h == [p \in (1..n) \X V |-> Step(p[2], w[p[1]])]
<1>1. base \in V /\ \A i \in 1..n, v \in V : Step(v, w[i]) \in V
  BY CostAdds DEF Minor
<1>2. Anthropic!FoldLeft(Anthropic!AddCost, 0, w) = G[1..n]
  BY Zenon DEF Anthropic!FoldLeft, Anthropic!MapThenFoldSet, Anthropic!Max, Max
<1> HIDE DEF V, base, Step
<1>3. h \in [(1..n) \X V -> V] /\ \A i \in 1..n, v \in V : h[<<i, v>>] = Step(v, w[i])
  BY <1>1
<1> HIDE DEF h
<1>4. Folds(G)
  <2>1. PICK g : FoldOf(g, n, base, h) /\ \A s \in SUBSET (1..n) : g[s] \in V
    BY <1>1, <1>3, FoldExists
  <2>2. ASSUME NEW s \in SUBSET (1..n), s # {}
        PROVE  h[<<Max(s), g[s \ {Max(s)}]>>] = Step(g[s \ {Max(s)}], w[Max(s)])
    <3>1. Max(s) \in 1..n
      BY <1>1, <2>2, MaxIsThere
    <3> QED
      BY <1>3, <2>1, <3>1
  <2>3. Folds(g)
    BY <2>1, <2>2 DEF FoldOf
  <2> QED
    BY <2>3
<1> HIDE DEF G
<1>5. FoldedBy(G, n, V, base, h)
  <2>1. ASSUME NEW s \in SUBSET (1..n), s # {}, G[s \ {Max(s)}] \in V
        PROVE  G[s] = h[<<Max(s), G[s \ {Max(s)}]>>]
    <3>1. Max(s) \in 1..n
      BY <1>1, <2>1, MaxIsThere
    <3>2. G[s] = Step(G[s \ {Max(s)}], w[Max(s)])
      BY <1>4, <2>1
    <3> QED
      BY <1>3, <2>1, <3>1, <3>2
  <2>2. G[{}] = base
    BY <1>4
  <2> QED
    BY <1>1, <1>3, <2>1, <2>2 DEF FoldedBy
<1>6. PICK c : ChainOf(c, n, V, base, h) /\ c[n] = G[1..n]
  BY <1>5, FoldedChain
<1>7. \A i \in 1..n : c[i] = Step(c[i - 1], w[i])
  <2> TAKE i \in 1..n
  <2>1. i - 1 \in 0..n
    OBVIOUS
  <2> QED
    BY <1>3, <1>6, <2>1 DEF ChainOf
<1> QED
  BY <1>2, <1>6, <1>7 DEF V, base, Step, ChainOf

\* A sum of money that stays refused once it does not fit.
LEMMA MinorChain ==
    ASSUME NEW n \in Nat, NEW w, DOMAIN w = 1..n
    PROVE  \E c \in [0..n -> Minor] :
               /\ c[0] = 0 /\ \A i \in 1..n : c[i] = CheckedMinor(c[i - 1], w[i])
               /\ FoldLeft(CheckedMinor, 0, w) = c[n]
<1> DEFINE V == Minor
           base == 0
           Step(v, x) == CheckedMinor(v, x)
           Folds(g) == g = [s \in SUBSET (1..n) |->
                               IF s = {} THEN base ELSE Step(g[s \ {Max(s)}], w[Max(s)])]
           G == CHOOSE g : Folds(g)
           h == [p \in (1..n) \X V |-> Step(p[2], w[p[1]])]
<1>1. base \in V /\ \A i \in 1..n, v \in V : Step(v, w[i]) \in V
  BY MinorIs DEF Minor
<1>2. FoldLeft(CheckedMinor, 0, w) = G[1..n]
  BY Zenon DEF FoldLeft, MapThenFoldSet
<1> HIDE DEF V, base, Step
<1>3. h \in [(1..n) \X V -> V] /\ \A i \in 1..n, v \in V : h[<<i, v>>] = Step(v, w[i])
  BY <1>1
<1> HIDE DEF h
<1>4. Folds(G)
  <2>1. PICK g : FoldOf(g, n, base, h) /\ \A s \in SUBSET (1..n) : g[s] \in V
    BY <1>1, <1>3, FoldExists
  <2>2. ASSUME NEW s \in SUBSET (1..n), s # {}
        PROVE  h[<<Max(s), g[s \ {Max(s)}]>>] = Step(g[s \ {Max(s)}], w[Max(s)])
    <3>1. Max(s) \in 1..n
      BY <1>1, <2>2, MaxIsThere
    <3> QED
      BY <1>3, <2>1, <3>1
  <2>3. Folds(g)
    BY <2>1, <2>2 DEF FoldOf
  <2> QED
    BY <2>3
<1> HIDE DEF G
<1>5. FoldedBy(G, n, V, base, h)
  <2>1. ASSUME NEW s \in SUBSET (1..n), s # {}, G[s \ {Max(s)}] \in V
        PROVE  G[s] = h[<<Max(s), G[s \ {Max(s)}]>>]
    <3>1. Max(s) \in 1..n
      BY <1>1, <2>1, MaxIsThere
    <3>2. G[s] = Step(G[s \ {Max(s)}], w[Max(s)])
      BY <1>4, <2>1
    <3> QED
      BY <1>3, <2>1, <3>1, <3>2
  <2>2. G[{}] = base
    BY <1>4
  <2> QED
    BY <1>1, <1>3, <2>1, <2>2 DEF FoldedBy
<1>6. PICK c : ChainOf(c, n, V, base, h) /\ c[n] = G[1..n]
  BY <1>5, FoldedChain
<1>7. \A i \in 1..n : c[i] = Step(c[i - 1], w[i])
  <2> TAKE i \in 1..n
  <2>1. i - 1 \in 0..n
    OBVIOUS
  <2> QED
    BY <1>3, <1>6, <2>1 DEF ChainOf
<1> QED
  BY <1>2, <1>6, <1>7 DEF V, base, Step, ChainOf

\* The requests of a day, row by row.
LEMMA RequestsChain ==
    ASSUME NEW n \in Nat, NEW w, DOMAIN w = 1..n,
           \A i \in 1..n : w[i] \in Cursor!RawDailyUsageRows
    PROVE  \E c \in [0..n -> Option(0..MaxCount)] :
               /\ c[0] = 0 /\ \A i \in 1..n : c[i] = Cursor!AddRequests(c[i - 1], w[i])
               /\ Cursor!FoldLeft(Cursor!AddRequests, 0, w) = c[n]
<1> DEFINE V == Option(0..MaxCount)
           base == 0
           Step(v, x) == Cursor!AddRequests(v, x)
           Folds(g) == g = [s \in SUBSET (1..n) |->
                               IF s = {} THEN base ELSE Step(g[s \ {Max(s)}], w[Max(s)])]
           G == CHOOSE g : Folds(g)
           h == [p \in (1..n) \X V |-> Step(p[2], w[p[1]])]
<1>1. base \in V /\ \A i \in 1..n, v \in V : Step(v, w[i]) \in V
  BY CursorAdds, WidthAssumption DEF Option
<1>2. Cursor!FoldLeft(Cursor!AddRequests, 0, w) = G[1..n]
  BY Zenon DEF Cursor!FoldLeft, Cursor!MapThenFoldSet, Cursor!Max, Max
<1> HIDE DEF V, base, Step
<1>3. h \in [(1..n) \X V -> V] /\ \A i \in 1..n, v \in V : h[<<i, v>>] = Step(v, w[i])
  BY <1>1
<1> HIDE DEF h
<1>4. Folds(G)
  <2>1. PICK g : FoldOf(g, n, base, h) /\ \A s \in SUBSET (1..n) : g[s] \in V
    BY <1>1, <1>3, FoldExists
  <2>2. ASSUME NEW s \in SUBSET (1..n), s # {}
        PROVE  h[<<Max(s), g[s \ {Max(s)}]>>] = Step(g[s \ {Max(s)}], w[Max(s)])
    <3>1. Max(s) \in 1..n
      BY <1>1, <2>2, MaxIsThere
    <3> QED
      BY <1>3, <2>1, <3>1
  <2>3. Folds(g)
    BY <2>1, <2>2 DEF FoldOf
  <2> QED
    BY <2>3
<1> HIDE DEF G
<1>5. FoldedBy(G, n, V, base, h)
  <2>1. ASSUME NEW s \in SUBSET (1..n), s # {}, G[s \ {Max(s)}] \in V
        PROVE  G[s] = h[<<Max(s), G[s \ {Max(s)}]>>]
    <3>1. Max(s) \in 1..n
      BY <1>1, <2>1, MaxIsThere
    <3>2. G[s] = Step(G[s \ {Max(s)}], w[Max(s)])
      BY <1>4, <2>1
    <3> QED
      BY <1>3, <2>1, <3>1, <3>2
  <2>2. G[{}] = base
    BY <1>4
  <2> QED
    BY <1>1, <1>3, <2>1, <2>2 DEF FoldedBy
<1>6. PICK c : ChainOf(c, n, V, base, h) /\ c[n] = G[1..n]
  BY <1>5, FoldedChain
<1>7. \A i \in 1..n : c[i] = Step(c[i - 1], w[i])
  <2> TAKE i \in 1..n
  <2>1. i - 1 \in 0..n
    OBVIOUS
  <2> QED
    BY <1>3, <1>6, <2>1 DEF ChainOf
<1> QED
  BY <1>2, <1>6, <1>7 DEF V, base, Step, ChainOf

LEMMA AnthropicFold == ASSUME NEW w PROVE Anthropic!FoldLeft(Anthropic!CheckedMinor, 0, w)
                                            = FoldLeft(CheckedMinor, 0, w)
  BY Zenon DEF Anthropic!CheckedMinor, CheckedMinor, Anthropic!IfFits, IfFits, Anthropic!FoldLeft,
               FoldLeft, Anthropic!MapThenFoldSet, MapThenFoldSet, Anthropic!Max, Max

LEMMA CursorFold == ASSUME NEW w PROVE Cursor!FoldLeft(Cursor!CheckedMinor, 0, w)
                                         = FoldLeft(CheckedMinor, 0, w)
  BY Zenon DEF Cursor!CheckedMinor, CheckedMinor, Cursor!IfFits, IfFits, Cursor!FoldLeft,
               FoldLeft, Cursor!MapThenFoldSet, MapThenFoldSet, Cursor!Max, Max

LEMMA PlatformIsTyped ==
    ASSUME NEW id, NEW provider, NEW connection \in Connections,
           NEW budget \in [Periods -> SpendStates],
           NEW buckets, \A b \in ToSet(buckets) : b \in UsageBuckets, NEW models
    PROVE  TypedAccount(PlatformAccount(id, provider, connection, budget, buckets, models))
<1>1. PlatformAccount(id, provider, connection, budget, buckets, models)
        = [id |-> id, provider |-> provider, connection |-> connection,
           status |-> "ok", budget |-> budget, allowances |-> <<>>,
           buckets |-> buckets, models |-> models]
  BY Zenon DEF PlatformAccount
<1>2. Listed(<<>>) /\ \A w \in ToSet(<<>>) : IsAllowance(w)
  BY ListedNone
<1> QED
  BY <1>1, <1>2, AccountIs, StatusesAre

-----------------------------------------------------------------------------
(***************************************************************************)
(* A Cursor team.                                                          *)
(***************************************************************************)
DatePairs == {p \in Dates \X Dates : Before(p[1], p[2])}

LEMMA DateOrder ==
    ASSUME NEW S \in SUBSET Dates
    PROVE  Strict(DatePairs, S)
<1>1. ASSUME NEW a \in Dates, NEW b \in Dates, NEW c \in Dates
      PROVE  /\ ~Before(a, a)
             /\ Before(a, b) /\ Before(b, c) => Before(a, c)
             /\ a = b \/ Before(a, b) \/ Before(b, a)
  BY SMT DEF Before, Dates
<1>2. ASSUME NEW a \in Dates, NEW b \in Dates
      PROVE  <<a, b>> \in DatePairs <=> Before(a, b)
  BY DEF DatePairs
<1> QED
  BY <1>1, <1>2 DEF Strict

LEMMA CursorOrder ==
    ASSUME NEW S \in SUBSET Dates, IsFiniteSet(S)
    PROVE  Lists(Cursor!InOrder(S, Cursor!Before), S, DatePairs)
<1> DEFINE order == Cursor!InOrder(S, Cursor!Before)
           n == Cardinality(S)
           Sorted(f) == \A i, j \in DOMAIN f : i < j => Before(f[i], f[j])
<1>1. order = CHOOSE f \in [1..n -> S] : Sorted(f)
  BY Zenon DEF Cursor!InOrder, Cursor!Cardinality, Cardinality, Cursor!Before, Before
<1>2. ASSUME NEW f \in [1..n -> S]
      PROVE  Sorted(f) <=> Increases(f, S, DatePairs)
  BY DEF Increases, DatePairs
<1> HIDE DEF order, Sorted
<1>3. \E f : Increases(f, S, DatePairs)
  BY DateOrder, OrderExists
<1>4. \E f \in [1..n -> S] : Sorted(f)
  BY <1>2, <1>3 DEF Increases
<1>5. Increases(order, S, DatePairs)
  BY <1>1, <1>2, <1>4, Zenon
<1> QED
  BY <1>5, DateOrder, OrderLists DEF order

LEMMA CursorSet == ASSUME NEW s PROVE Cursor!ToSet(s) = ToSet(s)
  BY Zenon DEF Cursor!ToSet, ToSet

LEMMA CursorFlatten == ASSUME NEW s PROVE Cursor!FlattenSeq(s) = FlattenSeq(s)
  BY Zenon DEF Cursor!FlattenSeq, FlattenSeq

LEMMA CursorRows == ASSUME NEW pages PROVE Cursor!Rows(pages) = Rows(pages)
  BY CursorFlatten, Zenon DEF Cursor!Rows, Rows

LEMMA CursorSpend ==
    ASSUME NEW spent
    PROVE  /\ Cursor!CalculateBudgetState(spent, None, None) = CalculateBudgetState(spent, None, None)
           /\ Cursor!NoBudgets = NoBudgets
           /\ \A minor : Cursor!Dollars(minor) = Dollars(minor)
<1>1. \A s : Cursor!CalculateBudgetState(s, None, None) = CalculateBudgetState(s, None, None)
  BY Zenon DEF Cursor!CalculateBudgetState, CalculateBudgetState, Cursor!Wrap, Wrap, Cursor!Fraction,
               Fraction, Cursor!Reaches, Reaches, Cursor!DefaultWarnAt, DefaultWarnAt
<1>2. Cursor!NoBudgets = NoBudgets
  BY <1>1, Zenon DEF Cursor!NoBudgets, NoBudgets, Cursor!Periods, Periods, Cursor!UnknownBudget,
                     UnknownBudget
<1> QED
  BY <1>1, <1>2, Zenon DEF Cursor!Dollars, Dollars

\* The rows of a day of a team.
DayRows(rows, day) == Among(rows, {r \in ToSet(rows) : r.day = day})

LEMMA DayRowsAre ==
    ASSUME NEW rows, NEW day
    PROVE  Cursor!Chosen(rows, LAMBDA r : r.day = day) = DayRows(rows, day)
<1> DEFINE P == {r \in ToSet(rows) : r.day = day}
           parts == [i \in DOMAIN rows |-> IF rows[i].day = day THEN <<rows[i]>> ELSE <<>>]
           among == [i \in DOMAIN rows |-> IF rows[i] \in P THEN <<rows[i]>> ELSE <<>>]
<1>1. Cursor!Chosen(rows, LAMBDA r : r.day = day) = FlattenSeq(parts)
  BY CursorFlatten, Zenon DEF Cursor!Chosen
<1>2. \A i \in DOMAIN rows : rows[i] \in P <=> rows[i].day = day
  BY DEF ToSet
<1> HIDE DEF P
<1>3. parts = among
  BY <1>2, Zenon
<1> HIDE DEF parts, among
<1>4. DayRows(rows, day) = FlattenSeq(among)
  BY Zenon DEF DayRows, Among, P, among
<1> QED
  BY <1>1, <1>3, <1>4

LEMMA RequestsAre ==
    ASSUME NEW rows \in Seq(Cursor!RawDailyUsageRows), NEW day
    PROVE  Cursor!RequestsOf(rows, day) \in Counts
<1> DEFINE same == DayRows(rows, day)
           n == Len(same)
<1>1. Cursor!RequestsOf(rows, day) = Cursor!FoldLeft(Cursor!AddRequests, 0, same)
  BY DayRowsAre, Zenon DEF Cursor!RequestsOf
<1>2. same \in Seq(Cursor!RawDailyUsageRows)
  BY AmongIs DEF DayRows
<1> HIDE DEF same
<1>3. n \in Nat /\ DOMAIN same = 1..n /\ \A i \in 1..n : same[i] \in Cursor!RawDailyUsageRows
  BY <1>2
<1> HIDE DEF n
<1>4. PICK c \in [0..n -> Option(0..MaxCount)] : Cursor!FoldLeft(Cursor!AddRequests, 0, same) = c[n]
  BY <1>3, RequestsChain
<1>5. n \in 0..n
  BY <1>3
<1> QED
  BY <1>1, <1>4, <1>5 DEF Counts

LEMMA TeamBucketIs ==
    ASSUME NEW rows \in Seq(Cursor!RawDailyUsageRows), NEW day \in Dates, IsDate(day)
    PROVE  Cursor!DayBucket(rows, day) \in UsageBuckets
<1>1. \A date : Cursor!IsDate(date) = IsDate(date)
  BY Zenon DEF Cursor!IsDate, IsDate, Cursor!DaysInMonth, DaysInMonth, Cursor!IsLeapYear, IsLeapYear
<1>2. Cursor!NextDate(day) = NextDate(day)
  BY <1>1, Zenon DEF Cursor!NextDate, NextDate, Cursor!Date, Date, Cursor!DaysInMonth, DaysInMonth,
                     Cursor!IsLeapYear, IsLeapYear
<1>3. Cursor!DayBucket(rows, day) = Bucket(Midnight(day), Midnight(NextDate(day)), None, None, None,
                                           None, None, Cursor!RequestsOf(rows, day))
  BY <1>2, Zenon DEF Cursor!DayBucket, Cursor!Bucket, Bucket, Cursor!Midnight, Midnight,
                     Cursor!Instant, Instant
<1>4. NextDate(day) \in Dates
  BY NextDay
<1>5. Midnight(day) \in Instants /\ Midnight(NextDate(day)) \in Instants
  BY <1>4, MidnightIs
<1>6. Cursor!RequestsOf(rows, day) \in Counts
  BY RequestsAre
<1>7. None \in Counts /\ None \in Option(Money)
  BY DEF Counts, Option
<1> QED
  BY <1>3, <1>5, <1>6, <1>7, BucketIs

\* What the members of a team spent, on the pages that list members.
LEMMA MembersAre ==
    ASSUME NEW pages \in Seq(Option(Seq(Cursor!RawSpendMembers)))
    PROVE  Cursor!Members(pages) \in Seq(Cursor!RawSpendMembers)
<1> DEFINE T == Seq(Cursor!RawSpendMembers)
           parts == [i \in DOMAIN pages |-> IF pages[i] # None THEN <<pages[i]>> ELSE <<>>]
           listing == FlattenSeq(parts)
<1>1. Cursor!Members(pages) = FlattenSeq(listing)
  BY CursorFlatten, Zenon DEF Cursor!Members, Cursor!Chosen
<1>2. parts \in Seq(Seq(T))
  <2>1. DOMAIN parts = 1..Len(pages) /\ \A i \in 1..Len(pages) : pages[i] \in Option(T)
    OBVIOUS
  <2> HIDE DEF T
  <2>2. \A i \in 1..Len(pages) : parts[i] \in Seq(T)
    BY <2>1 DEF Option
  <2> QED
    BY <2>1, <2>2
<1> HIDE DEF parts
<1>3. listing \in Seq(T)
  BY <1>2, FlattenIs
<1> HIDE DEF listing
<1> QED
  BY <1>1, <1>3, FlattenIs

LEMMA CentsAre ==
    ASSUME NEW pages \in Seq(Option(Seq(Cursor!RawSpendMembers)))
    PROVE  Cursor!SpentCents(pages) \in Minor
<1> DEFINE members == Cursor!Members(pages)
           spends == [i \in DOMAIN members |-> Cursor!MemberSpend(members[i])]
           T == {spends[i] : i \in DOMAIN members}
           parts == [i \in DOMAIN spends |-> IF spends[i] # None THEN <<spends[i]>> ELSE <<>>]
           known == FlattenSeq(parts)
           cents == [i \in DOMAIN known |-> Cursor!IfFits(Cursor!RoundCents(known[i]))]
           n == Len(known)
<1>1. Cursor!SpentCents(pages) = FoldLeft(CheckedMinor, 0, cents)
  BY CursorFlatten, CursorFold, Zenon DEF Cursor!SpentCents, Cursor!Chosen
<1>2. parts \in Seq(Seq(T))
  <2>1. members \in Seq(Cursor!RawSpendMembers)
    BY MembersAre
  <2> HIDE DEF members
  <2>2. DOMAIN members = 1..Len(members) /\ Len(members) \in Nat
    BY <2>1
  <2>3. DOMAIN spends = 1..Len(members) /\ \A i \in 1..Len(members) : spends[i] \in T
    BY <2>2
  <2> HIDE DEF spends, T
  <2>4. \A i \in 1..Len(members) : parts[i] \in Seq(T)
    BY <2>3
  <2> QED
    BY <2>2, <2>3, <2>4
<1> HIDE DEF parts, T
<1>3. known \in Seq(T)
  BY <1>2, FlattenIs
<1> HIDE DEF known
<1>4. n \in Nat /\ DOMAIN cents = 1..n
  BY <1>3
<1> HIDE DEF cents, n
<1>5. PICK c \in [0..n -> Minor] : FoldLeft(CheckedMinor, 0, cents) = c[n]
  BY <1>4, MinorChain
<1>6. n \in 0..n
  BY <1>4
<1> QED
  BY <1>1, <1>5, <1>6

\* The days of a team's rows, each once.
LEMMA TeamDaysAre ==
    ASSUME NEW rows \in Seq(Cursor!RawDailyUsageRows),
           \A row \in ToSet(rows) : row.day # None /\ IsDate(row.day),
           NEW b \in ToSet([i \in DOMAIN Cursor!InOrder({r.day : r \in ToSet(rows)} \ {None}, Cursor!Before) |->
                               Cursor!DayBucket(rows,
                                   Cursor!InOrder({r.day : r \in ToSet(rows)} \ {None}, Cursor!Before)[i])])
    PROVE  b \in UsageBuckets
<1> DEFINE S == {r.day : r \in ToSet(rows)}
           days == Cursor!InOrder(S \ {None}, Cursor!Before)
<1>1. ToSet(rows) \subseteq Cursor!RawDailyUsageRows /\ IsFiniteSet(ToSet(rows))
  BY RowsTyped
<1>2. S \subseteq Dates /\ \A day \in S : IsDate(day)
  BY <1>1, CursorTeamRaw DEF Option
<1>3. IsFiniteSet(S)
  <2> DEFINE f == [r \in ToSet(rows) |-> r.day]
  <2>1. f \in Surjection(ToSet(rows), S)
    BY DEF Surjection
  <2> HIDE DEF f, S
  <2> QED
    BY <1>1, <2>1, FS_Surjection
<1> HIDE DEF S
<1>4. S \ {None} \in SUBSET Dates /\ IsFiniteSet(S \ {None})
  BY <1>2, <1>3, FS_Subset
<1>5. Lists(days, S \ {None}, DatePairs)
  BY <1>4, CursorOrder
<1>6. PICK i \in DOMAIN days : b = Cursor!DayBucket(rows, days[i])
  BY DEF ToSet, S
<1> HIDE DEF days
<1>7. days[i] \in S
  BY <1>5, <1>6 DEF Lists, Increases, ToSet
<1> QED
  BY <1>2, <1>6, <1>7, TeamBucketIs

LEMMA CursorTeamTyped ==
    ASSUME NEW raw,
           raw.usage \in Seq(Cursor!RawPages("usage") \cup {Refused}),
           raw.costs \in Seq(Cursor!RawPages("costs") \cup {Refused}),
           Cursor!CursorPlatformAccount(raw) # Refused
    PROVE  TypedAccount(Cursor!CursorPlatformAccount(raw))
<1> DEFINE account == Cursor!CursorPlatformAccount(raw)
           rows == Cursor!Rows(raw.usage)
           days == Cursor!InOrder({r.day : r \in Cursor!ToSet(rows)} \ {None}, Cursor!Before)
           cents == Cursor!SpentCents(raw.costs)
           spent == IF Cursor!SpendComplete(raw.costs) THEN Cursor!Dollars(cents) ELSE None
           budget == [Cursor!NoBudgets EXCEPT !["month"] =
                          Cursor!CalculateBudgetState(spent, None, None)]
           buckets == [i \in DOMAIN days |-> Cursor!DayBucket(rows, days[i])]
           bad == \/ ~Cursor!Parsed(raw.usage) \/ ~Cursor!Parsed(raw.costs)
                  \/ \E row \in Cursor!ToSet(rows) : row.day = None \/ ~Cursor!IsDate(row.day)
                  \/ cents = Refused
           platform == Cursor!PlatformAccount("cursor-team-local", "cursor", "cursor.platform",
                                              budget, buckets, <<>>)
<1>1. account = IF bad THEN Refused ELSE platform
  BY Zenon DEF Cursor!CursorPlatformAccount
<1>2. ~bad /\ account = platform
  <2> HIDE DEF bad, platform, account
  <2>1. account # Refused
    BY DEF account
  <2> QED
    BY <1>1, <2>1, Zenon
<1> HIDE DEF account
<1>3. /\ Refused \notin ToSet(raw.usage) /\ Refused \notin ToSet(raw.costs)
      /\ \A row \in ToSet(rows) : row.day # None /\ IsDate(row.day)
      /\ cents # Refused
  <2>1. \A date : Cursor!IsDate(date) = IsDate(date)
    BY Zenon DEF Cursor!IsDate, IsDate, Cursor!DaysInMonth, DaysInMonth, Cursor!IsLeapYear, IsLeapYear
  <2> HIDE DEF rows, cents
  <2> QED
    BY <1>2, <2>1, CursorSet, Zenon DEF Cursor!Parsed
<1> HIDE DEF bad
<1>4. rows \in Seq(Cursor!RawDailyUsageRows)
  <2>1. Cursor!RawPages("usage") = Seq(Cursor!RawDailyUsageRows)
    BY DEF Cursor!RawPages
  <2> QED
    BY <1>3, <2>1, ParsedRows, CursorRows
<1>5. cents \in Int
  <2>1. Cursor!RawPages("costs") = Option(Seq(Cursor!RawSpendMembers))
    BY DEF Cursor!RawPages, Cursor!Option, Option
  <2>2. raw.costs \in Seq(Option(Seq(Cursor!RawSpendMembers)))
    <3>1. \A i \in 1..Len(raw.costs) : raw.costs[i] \in ToSet(raw.costs)
      BY <2>1 DEF ToSet
    <3> HIDE DEF rows, cents
    <3> QED
      BY <1>3, <2>1, <3>1
  <2>3. cents \in Minor
    BY <2>2, CentsAre
  <2> QED
    BY <1>3, <2>3 DEF Minor
<1>6. budget \in [Periods -> SpendStates]
  <2> HIDE DEF cents
  <2>1. spent \in Option(Money)
    BY <1>5, CursorSpend, DollarsAreMoney DEF Option
  <2> HIDE DEF spent
  <2>2. Cursor!CalculateBudgetState(spent, None, None) \in SpendStates
    BY <2>1, CursorSpend, SpendIs
  <2>3. Cursor!NoBudgets \in [Periods -> SpendStates]
    BY CursorSpend, NoSpendIs DEF NoBudgets
  <2> QED
    BY <2>2, <2>3
<1>7. \A b \in ToSet(buckets) : b \in UsageBuckets
  <2>1. days = Cursor!InOrder({r.day : r \in ToSet(rows)} \ {None}, Cursor!Before)
    BY CursorSet, Zenon
  <2> HIDE DEF rows
  <2> TAKE b \in ToSet(buckets)
  <2> QED
    BY <1>3, <1>4, <2>1, TeamDaysAre
<1> HIDE DEF budget, buckets
<1>8. account = PlatformAccount("cursor-team-local", "cursor", "cursor.platform",
                                budget, buckets, <<>>)
  BY <1>2, Zenon DEF Cursor!PlatformAccount, PlatformAccount
<1> QED
  BY <1>6, <1>7, <1>8, PlatformIsTyped, ConnectionsAre DEF account

-----------------------------------------------------------------------------
(***************************************************************************)
(* An Anthropic organization.                                              *)
(***************************************************************************)
LEMMA AnthropicSet == ASSUME NEW s PROVE Anthropic!ToSet(s) = ToSet(s)
  BY Zenon DEF Anthropic!ToSet, ToSet

LEMMA AnthropicFlatten == ASSUME NEW s PROVE Anthropic!FlattenSeq(s) = FlattenSeq(s)
  BY Zenon DEF Anthropic!FlattenSeq, FlattenSeq

LEMMA AnthropicRows == ASSUME NEW pages PROVE Anthropic!Rows(pages) = Rows(pages)
  BY AnthropicFlatten, Zenon DEF Anthropic!Rows, Rows

LEMMA AnthropicSpend ==
    /\ \A spent : Anthropic!CalculateBudgetState(spent, None, None) = CalculateBudgetState(spent, None, None)
    /\ \A minor : Anthropic!Dollars(minor) = Dollars(minor)
    /\ Anthropic!Periods = Periods
  BY Zenon DEF Anthropic!CalculateBudgetState, CalculateBudgetState, Anthropic!Wrap, Wrap,
               Anthropic!Fraction, Fraction, Anthropic!Reaches, Reaches, Anthropic!DefaultWarnAt,
               DefaultWarnAt, Anthropic!Dollars, Dollars, Anthropic!Periods, Periods

LEMMA AnthropicEarlier ==
    ASSUME NEW a, NEW b
    PROVE  /\ Anthropic!Earlier(a, b) = Earlier(a, b)
           /\ Anthropic!NotEarlier(a, b) = NotEarlier(a, b)
  BY Zenon DEF Anthropic!Earlier, Earlier, Anthropic!NotEarlier, NotEarlier, Anthropic!Before, Before

UsageRows == [start : Instants, end : Instants, results : Seq(Anthropic!RawUsageResults)]
CostRows == [start : Instants, end : Instants, results : Seq(Anthropic!RawCostResults)]

LEMMA AnthropicPages ==
    Anthropic!RawPages("usage") = Seq(UsageRows) /\ Anthropic!RawPages("costs") = Seq(CostRows)
<1>1. Anthropic!Instants = Instants
  BY DEF Anthropic!Instants, Instants, Anthropic!Dates, Dates, Anthropic!DayMinutes, DayMinutes
<1> QED
  BY <1>1, Zenon DEF Anthropic!RawPages, UsageRows, CostRows

InstantPairs == {p \in Instants \X Instants : Earlier(p[1], p[2])}

LEMMA InstantOrder ==
    ASSUME NEW S \in SUBSET Instants
    PROVE  Strict(InstantPairs, S)
<1>1. ASSUME NEW a \in Instants, NEW b \in Instants, NEW c \in Instants
      PROVE  /\ ~Earlier(a, a)
             /\ Earlier(a, b) /\ Earlier(b, c) => Earlier(a, c)
             /\ a = b \/ Earlier(a, b) \/ Earlier(b, a)
  <2>1. /\ a.date \in Dates /\ b.date \in Dates /\ c.date \in Dates
        /\ a.minute \in Int /\ b.minute \in Int /\ c.minute \in Int
        /\ a.date = b.date /\ a.minute = b.minute => a = b
    BY SMTT(30) DEF Instants, DayMinutes
  <2>2. ASSUME NEW x \in Dates, NEW y \in Dates, NEW z \in Dates
        PROVE  /\ ~Before(x, x)
               /\ Before(x, y) /\ Before(y, z) => Before(x, z)
               /\ x = y \/ Before(x, y) \/ Before(y, x)
    BY SMT DEF Before, Dates
  <2> QED
    BY <2>1, <2>2 DEF Earlier
<1>2. ASSUME NEW a \in Instants, NEW b \in Instants
      PROVE  <<a, b>> \in InstantPairs <=> Earlier(a, b)
  BY DEF InstantPairs
<1> QED
  BY <1>1, <1>2 DEF Strict

LEMMA AnthropicOrder ==
    ASSUME NEW S \in SUBSET Instants, IsFiniteSet(S)
    PROVE  Lists(Anthropic!InOrder(S, Anthropic!Earlier), S, InstantPairs)
<1> DEFINE order == Anthropic!InOrder(S, Anthropic!Earlier)
           n == Cardinality(S)
           Sorted(f) == \A i, j \in DOMAIN f : i < j => Earlier(f[i], f[j])
<1>1. order = CHOOSE f \in [1..n -> S] : Sorted(f)
  BY AnthropicEarlier, ZenonT(40) DEF Anthropic!InOrder, Anthropic!Cardinality, Cardinality
<1>2. ASSUME NEW f \in [1..n -> S]
      PROVE  Sorted(f) <=> Increases(f, S, InstantPairs)
  BY DEF Increases, InstantPairs
<1> HIDE DEF order, Sorted
<1>3. \E f : Increases(f, S, InstantPairs)
  BY InstantOrder, OrderExists
<1>4. \E f \in [1..n -> S] : Sorted(f)
  BY <1>2, <1>3 DEF Increases
<1>5. Increases(order, S, InstantPairs)
  BY <1>1, <1>2, <1>4, Zenon
<1> QED
  BY <1>5, InstantOrder, OrderLists DEF order

\* The buckets of usage that begin on a day, and those of costs that begin at an instant.
LEMMA UsageOfDayIs ==
    ASSUME NEW usage, NEW day
    PROVE  Anthropic!UsageOfDay(usage, day) = Among(usage, {x \in ToSet(usage) : Anthropic!DayStart(x) = day})
<1> DEFINE P == {x \in ToSet(usage) : Anthropic!DayStart(x) = day}
           parts == [i \in DOMAIN usage |-> IF Anthropic!DayStart(usage[i]) = day THEN <<usage[i]>> ELSE <<>>]
           among == [i \in DOMAIN usage |-> IF usage[i] \in P THEN <<usage[i]>> ELSE <<>>]
<1>1. Anthropic!UsageOfDay(usage, day) = FlattenSeq(parts)
  BY AnthropicFlatten, Zenon DEF Anthropic!UsageOfDay, Anthropic!Chosen
<1>2. \A i \in DOMAIN usage : usage[i] \in P <=> Anthropic!DayStart(usage[i]) = day
  BY DEF ToSet
<1> HIDE DEF P
<1>3. parts = among
  BY <1>2, Zenon
<1> HIDE DEF parts, among
<1>4. Among(usage, P) = FlattenSeq(among)
  BY Zenon DEF Among, among
<1> QED
  BY <1>1, <1>3, <1>4 DEF P

LEMMA CostsFromIs ==
    ASSUME NEW costs, NEW start
    PROVE  Anthropic!CostsFrom(costs, start) = Among(costs, {x \in ToSet(costs) : x.start = start})
<1> DEFINE P == {x \in ToSet(costs) : x.start = start}
           parts == [i \in DOMAIN costs |-> IF costs[i].start = start THEN <<costs[i]>> ELSE <<>>]
           among == [i \in DOMAIN costs |-> IF costs[i] \in P THEN <<costs[i]>> ELSE <<>>]
<1>1. Anthropic!CostsFrom(costs, start) = FlattenSeq(parts)
  BY AnthropicFlatten, Zenon DEF Anthropic!CostsFrom, Anthropic!Chosen
<1>2. \A i \in DOMAIN costs : costs[i] \in P <=> costs[i].start = start
  BY DEF ToSet
<1> HIDE DEF P
<1>3. parts = among
  BY <1>2, Zenon
<1> HIDE DEF parts, among
<1>4. Among(costs, P) = FlattenSeq(among)
  BY Zenon DEF Among, among
<1> QED
  BY <1>1, <1>3, <1>4 DEF P

LEMMA EndIsThere ==
    ASSUME NEW buckets, Listed(buckets), buckets # <<>>,
           \A b \in ToSet(buckets) : b.end \in Instants
    PROVE  /\ Anthropic!LastEnd(buckets) \in {b.end : b \in ToSet(buckets)}
           /\ \A b \in ToSet(buckets) : NotEarlier(Anthropic!LastEnd(buckets), b.end)
<1> DEFINE S == {b.end : b \in ToSet(buckets)}
<1>1. Anthropic!LastEnd(buckets)
        = CHOOSE end \in S : \A b \in ToSet(buckets) : NotEarlier(end, b.end)
  BY AnthropicSet, AnthropicEarlier, Zenon DEF Anthropic!LastEnd
<1>2. S \in SUBSET Instants /\ S # {}
  <2>1. ToSet(buckets) # {}
    BY DEF Listed, ToSet
  <2> QED
    BY <2>1
<1>3. IsFiniteSet(S)
  <2> DEFINE f == [b \in ToSet(buckets) |-> b.end]
  <2>1. f \in Surjection(ToSet(buckets), S)
    BY DEF Surjection
  <2> HIDE DEF f, S
  <2> QED
    BY <2>1, ListedFinite, FS_Surjection
<1>4. \A b \in ToSet(buckets) : b.end \in S
  OBVIOUS
<1> HIDE DEF S
<1>5. PICK last \in S : \A s \in S : <<last, s>> \notin InstantPairs
  BY <1>2, <1>3, InstantOrder, LastOne
<1>6. \A b \in ToSet(buckets) : NotEarlier(last, b.end)
  BY <1>2, <1>4, <1>5 DEF NotEarlier, InstantPairs
<1> QED
  BY <1>1, <1>5, <1>6, Zenon DEF S

LEMMA ResultsAre ==
    ASSUME NEW rows \in Seq(UsageRows)
    PROVE  Anthropic!Results(rows) \in Seq(Anthropic!RawUsageResults)
<1> DEFINE parts == [i \in DOMAIN rows |-> rows[i].results]
<1>1. Anthropic!Results(rows) = FlattenSeq(parts)
  BY AnthropicFlatten, Zenon DEF Anthropic!Results
<1>2. parts \in Seq(Seq(Anthropic!RawUsageResults))
  <2>1. DOMAIN rows = 1..Len(rows) /\ \A i \in 1..Len(rows) : rows[i] \in UsageRows
    OBVIOUS
  <2>2. \A i \in 1..Len(rows) : rows[i].results \in Seq(Anthropic!RawUsageResults)
    BY <2>1 DEF UsageRows
  <2> QED
    BY <2>1, <2>2
<1> HIDE DEF parts
<1> QED
  BY <1>1, <1>2, FlattenIs

LEMMA UsageTotalsAre ==
    ASSUME NEW results \in Seq(Anthropic!RawUsageResults)
    PROVE  Anthropic!UsageTotals(results) \in AnthropicTotals
<1> DEFINE n == Len(results)
<1>1. n \in Nat /\ DOMAIN results = 1..n /\ \A i \in 1..n : results[i] \in Anthropic!RawUsageResults
  OBVIOUS
<1> HIDE DEF n
<1>2. PICK c \in [0..n -> AnthropicTotals] : Anthropic!UsageTotals(results) = c[n]
  BY <1>1, AnthropicUsageChain
<1>3. n \in 0..n
  BY <1>1
<1> QED
  BY <1>2, <1>3

LEMMA CentsFromAre ==
    ASSUME NEW costs \in Seq(CostRows), NEW start
    PROVE  Anthropic!CentsFrom(costs, start) \in Minor
<1> DEFINE same == Anthropic!CostsFrom(costs, start)
           n == Len(same)
           cents == [i \in DOMAIN same |-> Anthropic!BucketCents(same[i])]
<1>1. same \in Seq(CostRows)
  BY CostsFromIs, AmongIs
<1>2. Anthropic!CentsFrom(costs, start) = FoldLeft(CheckedMinor, 0, cents)
  BY AnthropicFold, Zenon DEF Anthropic!CentsFrom
<1> HIDE DEF same
<1>3. n \in Nat /\ DOMAIN cents = 1..n
  BY <1>1
<1> HIDE DEF n, cents
<1>4. PICK c \in [0..n -> Minor] : FoldLeft(CheckedMinor, 0, cents) = c[n]
  BY <1>3, MinorChain
<1>5. n \in 0..n
  BY <1>3
<1> QED
  BY <1>2, <1>4, <1>5

\* A day with usage, with costs or with both.
LEMMA AnthropicBucketIs ==
    ASSUME NEW usage \in Seq(UsageRows), NEW costs \in Seq(CostRows),
           NEW start \in Anthropic!UsageDays(usage) \cup Anthropic!CostDays(costs),
           Anthropic!MergedBucket(usage, costs, start).cost # Refused
    PROVE  Anthropic!MergedBucket(usage, costs, start) \in UsageBuckets
<1> DEFINE used == Anthropic!UsageOfDay(usage, start)
           charged == Anthropic!CostsFrom(costs, start)
           totals == Anthropic!UsageTotals(Anthropic!Results(used))
           cents == Anthropic!CentsFrom(costs, start)
           end == Anthropic!LastEnd(used \o charged)
           total == SaturatingCount(SaturatingCount(totals.input, totals.output), totals.cached)
           cost == IF charged = <<>> THEN None ELSE IF cents = Refused THEN Refused ELSE Dollars(cents)
           input == IF used = <<>> THEN None ELSE totals.input
           output == IF used = <<>> THEN None ELSE totals.output
           cached == IF used = <<>> THEN None ELSE totals.cached
           all == IF used = <<>> THEN None ELSE total
           merged == Anthropic!MergedBucket(usage, costs, start)
<1>1. merged = Bucket(start, end, cost, input, output, cached, all, None)
  BY AnthropicCount, AnthropicSpend, Zenon DEF Anthropic!MergedBucket, Anthropic!Bucket, Bucket
<1>2. /\ used \in Seq(UsageRows)
      /\ ToSet(used) = {b \in ToSet(usage) : Anthropic!DayStart(b) = start}
  <2>1. used = Among(usage, {x \in ToSet(usage) : Anthropic!DayStart(x) = start})
    BY UsageOfDayIs
  <2> QED
    BY <2>1, AmongIs
<1>3. /\ charged \in Seq(CostRows)
      /\ ToSet(charged) = {b \in ToSet(costs) : b.start = start}
  <2>1. charged = Among(costs, {x \in ToSet(costs) : x.start = start})
    BY CostsFromIs
  <2> QED
    BY <2>1, AmongIs
<1>4. totals \in AnthropicTotals
  <2> HIDE DEF used
  <2> QED
    BY <1>2, ResultsAre, UsageTotalsAre
<1>5. cents \in Minor
  BY CentsFromAre
<1>6. ToSet(usage) \subseteq UsageRows /\ ToSet(costs) \subseteq CostRows
  BY ListedOf
<1>7. start \in Instants
  <2>1. \A b \in ToSet(usage) : Anthropic!DayStart(b) = Midnight(b.start.date) /\ b.start.date \in Dates
    BY <1>6, Zenon DEF Anthropic!DayStart, Anthropic!Midnight, Midnight, Anthropic!Instant, Instant,
                       UsageRows, Instants
  <2>2. \A b \in ToSet(costs) : b.start \in Instants
    BY <1>6 DEF CostRows
  <2> QED
    BY <2>1, <2>2, MidnightIs, AnthropicSet, Zenon DEF Anthropic!UsageDays, Anthropic!CostDays
<1>8. ToSet(used) # {} \/ ToSet(charged) # {}
  <2> HIDE DEF used, charged
  <2> QED
    BY <1>2, <1>3, AnthropicSet, Zenon DEF Anthropic!UsageDays, Anthropic!CostDays
<1> HIDE DEF used, charged, totals, cents, merged
<1>9. end \in Instants
  <2>1. /\ Listed(used) /\ ToSet(used) \subseteq UsageRows
        /\ Listed(charged) /\ ToSet(charged) \subseteq CostRows
    BY <1>2, <1>3, ListedOf
  <2>2. Listed(used \o charged) /\ ToSet(used \o charged) = ToSet(used) \cup ToSet(charged)
    BY <2>1, ListedBoth
  <2>3. \A b \in ToSet(used \o charged) : b.end \in Instants
    BY <2>1, <2>2 DEF UsageRows, CostRows
  <2>4. used \o charged # <<>>
    BY <1>8, <2>2, ListedNone
  <2> QED
    BY <2>2, <2>3, <2>4, EndIsThere
<1>10. total \in 0..MaxCount /\ totals.input \in 0..MaxCount /\ totals.output \in 0..MaxCount
         /\ totals.cached \in 0..MaxCount
  <2>1. /\ totals.input \in 0..MaxCount /\ totals.output \in 0..MaxCount
        /\ totals.cached \in 0..MaxCount
    BY <1>4 DEF AnthropicTotals
  <2>2. \A k \in 0..MaxCount : k \in Nat
    OBVIOUS
  <2>3. SaturatingCount(totals.input, totals.output) \in 0..MaxCount
    BY <2>1, <2>2, SaturatingIs
  <2> QED
    BY <2>1, <2>2, <2>3, SaturatingIs
<1> HIDE DEF end, total
<1>11. cost \in Option(Money)
  <2>1. cost # Refused
    <3> HIDE DEF cost, input, output, cached, all
    <3>1. merged.cost = cost
      BY <1>1 DEF Bucket
    <3> QED
      BY <3>1 DEF merged
  <2> QED
    BY <1>5, <2>1, DollarsAreMoney DEF Minor, Option
<1>12. input \in Counts /\ output \in Counts /\ cached \in Counts /\ all \in Counts /\ None \in Counts
  BY <1>10 DEF Counts, Option
<1> HIDE DEF cost, input, output, cached, all
<1> QED
  BY <1>1, <1>7, <1>9, <1>11, <1>12, BucketIs DEF merged

\* The days of the buckets, finitely many of them.
LEMMA AnthropicDays ==
    ASSUME NEW usage \in Seq(UsageRows), NEW costs \in Seq(CostRows)
    PROVE  LET S == Anthropic!UsageDays(usage) \cup Anthropic!CostDays(costs)
           IN S \in SUBSET Instants /\ IsFiniteSet(S)
<1> DEFINE U == {Anthropic!DayStart(b) : b \in ToSet(usage)}
           C == {b.start : b \in ToSet(costs)}
<1>1. Anthropic!UsageDays(usage) = U /\ Anthropic!CostDays(costs) = C
  BY AnthropicSet, Zenon DEF Anthropic!UsageDays, Anthropic!CostDays
<1>2. /\ ToSet(usage) \subseteq UsageRows /\ IsFiniteSet(ToSet(usage))
      /\ ToSet(costs) \subseteq CostRows /\ IsFiniteSet(ToSet(costs))
  BY RowsTyped
<1>3. U \subseteq Instants
  <2>1. \A b \in ToSet(usage) : Anthropic!DayStart(b) = Midnight(b.start.date) /\ b.start.date \in Dates
    BY <1>2, Zenon DEF Anthropic!DayStart, Anthropic!Midnight, Midnight, Anthropic!Instant, Instant,
                       UsageRows, Instants
  <2> QED
    BY <2>1, MidnightIs, Zenon
<1>4. C \subseteq Instants
  BY <1>2 DEF CostRows
<1>5. IsFiniteSet(U)
  <2> DEFINE f == [b \in ToSet(usage) |-> Anthropic!DayStart(b)]
  <2>1. f \in Surjection(ToSet(usage), U)
    BY DEF Surjection
  <2> HIDE DEF f, U
  <2> QED
    BY <1>2, <2>1, FS_Surjection
<1>6. IsFiniteSet(C)
  <2> DEFINE f == [b \in ToSet(costs) |-> b.start]
  <2>1. f \in Surjection(ToSet(costs), C)
    BY DEF Surjection
  <2> HIDE DEF f, C
  <2> QED
    BY <1>2, <2>1, FS_Surjection
<1> HIDE DEF U, C
<1>7. IsFiniteSet(U \cup C)
  BY <1>5, <1>6, FS_Union
<1> QED
  BY <1>1, <1>3, <1>4, <1>7

LEMMA AnthropicBucketsAre ==
    ASSUME NEW usage \in Seq(UsageRows), NEW costs \in Seq(CostRows),
           NEW order, order = Anthropic!InOrder(Anthropic!UsageDays(usage) \cup Anthropic!CostDays(costs),
                                                Anthropic!Earlier)
    PROVE  LET S == Anthropic!UsageDays(usage) \cup Anthropic!CostDays(costs)
           IN /\ Lists(order, S, InstantPairs)
              /\ Anthropic!MergeBuckets(usage, costs)
                   = [i \in DOMAIN order |-> Anthropic!MergedBucket(usage, costs, order[i])]
<1> DEFINE S == Anthropic!UsageDays(usage) \cup Anthropic!CostDays(costs)
<1>1. S \in SUBSET Instants /\ IsFiniteSet(S)
  BY AnthropicDays
<1> HIDE DEF S
<1>2. Lists(Anthropic!InOrder(S, Anthropic!Earlier), S, InstantPairs)
  BY <1>1, AnthropicOrder
<1>3. Anthropic!MergeBuckets(usage, costs)
        = [i \in DOMAIN order |-> Anthropic!MergedBucket(usage, costs, order[i])]
  BY Zenon DEF Anthropic!MergeBuckets
<1> QED
  BY <1>2, <1>3 DEF S

\* What was spent since a start, unless the sum does not fit.
LEMMA AnthropicBudgetIs ==
    ASSUME NEW buckets, Listed(buckets), NEW start, Anthropic!BudgetFor(start, buckets) # Refused
    PROVE  Anthropic!BudgetFor(start, buckets) \in SpendStates
<1> DEFINE P == {x \in ToSet(buckets) : Anthropic!NotEarlier(x.start, start)}
           parts == [i \in DOMAIN buckets |->
                        IF Anthropic!NotEarlier(buckets[i].start, start) THEN <<buckets[i]>> ELSE <<>>]
           since == FlattenSeq(parts)
           parts2 == [i \in DOMAIN since |-> IF since[i].cost # None THEN <<since[i]>> ELSE <<>>]
           priced == FlattenSeq(parts2)
           costs == [i \in DOMAIN priced |-> priced[i].cost.minor]
           total == FoldLeft(CheckedMinor, 0, costs)
           T == ToSet(buckets)
           n == Len(priced)
<1>1. since = Anthropic!Chosen(buckets, LAMBDA b : Anthropic!NotEarlier(b.start, start))
  BY AnthropicFlatten, Zenon DEF Anthropic!Chosen
<1>2. priced = Anthropic!Chosen(since, LAMBDA b : b.cost # None)
  <2> HIDE DEF since
  <2> QED
    BY AnthropicFlatten, Zenon DEF Anthropic!Chosen
<1>3. since \in Seq(T)
  <2>1. parts \in Seq(Seq(T))
    <3>1. DOMAIN buckets = 1..Len(buckets) /\ Len(buckets) \in Nat
            /\ \A i \in 1..Len(buckets) : buckets[i] \in T
      BY DEF Listed, ToSet
    <3> HIDE DEF T
    <3>2. \A i \in 1..Len(buckets) : parts[i] \in Seq(T)
      BY <3>1
    <3> QED
      BY <3>1, <3>2
  <2> HIDE DEF parts
  <2> QED
    BY <2>1, FlattenIs
<1> HIDE DEF since, T
<1>4. priced \in Seq(T)
  <2>1. parts2 \in Seq(Seq(T))
    <3>1. DOMAIN since = 1..Len(since) /\ Len(since) \in Nat /\ \A i \in 1..Len(since) : since[i] \in T
      BY <1>3
    <3>2. \A i \in 1..Len(since) : parts2[i] \in Seq(T)
      BY <3>1
    <3> QED
      BY <3>1, <3>2
  <2> HIDE DEF parts2
  <2> QED
    BY <2>1, FlattenIs
<1> HIDE DEF priced
<1>5. total \in Minor
  <2>1. n \in Nat /\ DOMAIN costs = 1..n
    BY <1>4
  <2> HIDE DEF n, costs
  <2>2. PICK c \in [0..n -> Minor] : total = c[n]
    BY <2>1, MinorChain
  <2>3. n \in 0..n
    BY <2>1
  <2> QED
    BY <2>2, <2>3
<1> DEFINE spent == IF since # <<>> /\ priced = since THEN Dollars(total) ELSE None
<1>6. Anthropic!BudgetFor(start, buckets)
        = IF total = Refused THEN Refused ELSE CalculateBudgetState(spent, None, None)
  <2> DEFINE since2 == Anthropic!Chosen(buckets, LAMBDA b : Anthropic!NotEarlier(b.start, start))
             priced2 == Anthropic!Chosen(since2, LAMBDA b : b.cost # None)
             total2 == Anthropic!FoldLeft(Anthropic!CheckedMinor, 0,
                                          [i \in DOMAIN priced2 |-> priced2[i].cost.minor])
             spent2 == IF since2 # <<>> /\ priced2 = since2 THEN Anthropic!Dollars(total2) ELSE None
  <2>1. Anthropic!BudgetFor(start, buckets)
          = IF total2 = Refused THEN Refused ELSE Anthropic!CalculateBudgetState(spent2, None, None)
    BY Zenon DEF Anthropic!BudgetFor
  <2>2. since2 = since /\ priced2 = priced
    BY <1>1, <1>2, Zenon
  <2> HIDE DEF since2, priced2
  <2>3. total2 = total
    BY <2>2, AnthropicFold, Zenon
  <2> HIDE DEF total2, total
  <2>4. spent2 = spent
    BY <2>2, <2>3, AnthropicSpend, Zenon
  <2> HIDE DEF spent, spent2
  <2> QED
    BY <2>1, <2>3, <2>4, AnthropicSpend, Zenon
<1> HIDE DEF total
<1>7. total # Refused
  <2> HIDE DEF spent
  <2> QED
    BY <1>6, Zenon
<1>8. spent \in Option(Money)
  BY <1>5, <1>7, DollarsAreMoney DEF Minor, Option
<1> HIDE DEF spent
<1> QED
  BY <1>6, <1>7, <1>8, SpendIs

LEMMA AnthropicTyped ==
    ASSUME NEW raw,
           raw.usage \in Seq(Anthropic!RawPages("usage") \cup {Refused}),
           raw.costs \in Seq(Anthropic!RawPages("costs") \cup {Refused}),
           Anthropic!AnthropicAccount(raw) # Refused
    PROVE  TypedAccount(Anthropic!AnthropicAccount(raw))
<1> DEFINE account == Anthropic!AnthropicAccount(raw)
           usage == Anthropic!Rows(raw.usage)
           costs == Anthropic!Rows(raw.costs)
           buckets == Anthropic!MergeBuckets(usage, costs)
           budget == [p \in Anthropic!Periods |-> Anthropic!BudgetFor(raw.starts[p], buckets)]
           bad == \/ ~Anthropic!Parsed(raw.usage) \/ ~Anthropic!Parsed(raw.costs)
                  \/ Refused \in {buckets[i].cost : i \in DOMAIN buckets}
                  \/ Refused \in {budget[p] : p \in Anthropic!Periods}
           models == Anthropic!ModelBreakdown(Anthropic!Results(usage))
           platform == Anthropic!PlatformAccount("anthropic-local", "claude", "anthropic.platform",
                                                 budget, buckets, models)
<1>1. account = IF bad THEN Refused ELSE platform
  BY Zenon DEF Anthropic!AnthropicAccount
<1>2. ~bad /\ account = platform
  <2> HIDE DEF bad, platform, account
  <2>1. account # Refused
    BY DEF account
  <2> QED
    BY <1>1, <2>1, Zenon
<1> HIDE DEF account
<1>3. /\ Refused \notin ToSet(raw.usage) /\ Refused \notin ToSet(raw.costs)
      /\ \A i \in DOMAIN buckets : buckets[i].cost # Refused
      /\ \A p \in Periods : budget[p] # Refused
  <2> HIDE DEF buckets, budget
  <2> QED
    BY <1>2, AnthropicSet, AnthropicSpend, Zenon DEF Anthropic!Parsed
<1> HIDE DEF bad
<1>4. usage \in Seq(UsageRows) /\ costs \in Seq(CostRows)
  BY <1>3, AnthropicPages, ParsedRows, AnthropicRows
<1> DEFINE S == Anthropic!UsageDays(usage) \cup Anthropic!CostDays(costs)
           order == Anthropic!InOrder(S, Anthropic!Earlier)
<1> HIDE DEF usage, costs
<1>5. /\ Lists(order, S, InstantPairs)
      /\ buckets = [i \in DOMAIN order |-> Anthropic!MergedBucket(usage, costs, order[i])]
  BY <1>4, AnthropicBucketsAre
<1> HIDE DEF order, buckets
<1>6. DOMAIN order = 1..Cardinality(S) /\ Cardinality(S) \in Nat /\ \A i \in DOMAIN order : order[i] \in S
  <2> HIDE DEF S
  <2> QED
    BY <1>5 DEF Lists
<1>7. \A b \in ToSet(buckets) : b \in UsageBuckets
  <2> TAKE b \in ToSet(buckets)
  <2>1. PICK i \in DOMAIN order : b = Anthropic!MergedBucket(usage, costs, order[i]) /\ b.cost # Refused
    BY <1>3, <1>5 DEF ToSet
  <2> QED
    BY <1>4, <1>6, <2>1, AnthropicBucketIs
<1>8. Listed(buckets)
  <2> DEFINE n == Cardinality(S)
  <2>1. n \in Nat /\ DOMAIN buckets = 1..n /\ buckets = [i \in 1..n |-> buckets[i]]
    <3> HIDE DEF S
    <3> QED
      BY <1>5, <1>6
  <2> HIDE DEF n
  <2>2. \A i \in 1..n : buckets[i] \in ToSet(buckets)
    BY <2>1 DEF ToSet
  <2> QED
    BY <2>1, <2>2, SMTT(30) DEF Listed
<1>9. budget \in [Periods -> SpendStates]
  <2>1. \A p \in Periods : budget[p] = Anthropic!BudgetFor(raw.starts[p], buckets)
    BY AnthropicSpend
  <2>2. \A p \in Periods : budget[p] \in SpendStates
    <3> TAKE p \in Periods
    <3>1. budget[p] # Refused
      BY <1>3
    <3>2. Anthropic!BudgetFor(raw.starts[p], buckets) # Refused
      BY <2>1, <3>1
    <3> QED
      BY <1>8, <2>1, <3>2, AnthropicBudgetIs
  <2> QED
    BY <2>2, AnthropicSpend
<1> HIDE DEF budget, models
<1>10. account = PlatformAccount("anthropic-local", "claude", "anthropic.platform",
                                 budget, buckets, models)
  BY <1>2, Zenon DEF Anthropic!PlatformAccount, PlatformAccount
<1> QED
  BY <1>7, <1>9, <1>10, PlatformIsTyped, ConnectionsAre DEF account

-----------------------------------------------------------------------------
(***************************************************************************)
(* The types of an OpenAI account.                                         *)
(***************************************************************************)
OpenAiUsageRows == [start : Int, end : Int, results : Seq(OpenAi!RawUsageResults)]
OpenAiCostRows == [start : Int, end : Int, results : Seq(OpenAi!RawCostResults)]

LEMMA OpenAiPages ==
    /\ OpenAi!RawPages("usage") = Seq(OpenAiUsageRows)
    /\ OpenAi!RawPages("costs") = Seq(OpenAiCostRows)
  BY Zenon DEF OpenAi!RawPages, OpenAiUsageRows, OpenAiCostRows

LEMMA OpenAiFlatten == ASSUME NEW s PROVE OpenAi!FlattenSeq(s) = FlattenSeq(s)
  BY Zenon DEF OpenAi!FlattenSeq, FlattenSeq

LEMMA OpenAiSpend ==
    /\ \A spent : OpenAi!CalculateBudgetState(spent, None, None) = CalculateBudgetState(spent, None, None)
    /\ \A minor : OpenAi!Dollars(minor) = Dollars(minor)
    /\ OpenAi!Periods = Periods
  BY Zenon DEF OpenAi!CalculateBudgetState, CalculateBudgetState, OpenAi!Wrap, Wrap,
               OpenAi!Fraction, Fraction, OpenAi!Reaches, Reaches, OpenAi!DefaultWarnAt,
               DefaultWarnAt, OpenAi!Dollars, Dollars, OpenAi!Periods, Periods

\* The buckets of a span.
LEMMA OfSpanIs ==
    ASSUME NEW buckets, NEW span
    PROVE  OpenAi!OfSpan(buckets, span) = Among(buckets, {x \in ToSet(buckets) : OpenAi!Span(x) = span})
<1> DEFINE P == {x \in ToSet(buckets) : OpenAi!Span(x) = span}
           parts == [i \in DOMAIN buckets |-> IF OpenAi!Span(buckets[i]) = span THEN <<buckets[i]>> ELSE <<>>]
           among == [i \in DOMAIN buckets |-> IF buckets[i] \in P THEN <<buckets[i]>> ELSE <<>>]
<1>1. OpenAi!OfSpan(buckets, span) = FlattenSeq(parts)
  BY OpenAiFlatten, Zenon DEF OpenAi!OfSpan, OpenAi!Chosen
<1>2. \A i \in DOMAIN buckets : buckets[i] \in P <=> OpenAi!Span(buckets[i]) = span
  BY DEF ToSet
<1> HIDE DEF P
<1>3. parts = among
  BY <1>2, Zenon
<1> HIDE DEF parts, among
<1>4. Among(buckets, P) = FlattenSeq(among)
  BY Zenon DEF Among, among
<1> QED
  BY <1>1, <1>3, <1>4 DEF P

LEMMA OpenAiResultsAre ==
    ASSUME NEW rows \in Seq(OpenAiUsageRows)
    PROVE  OpenAi!Results(rows) \in Seq(OpenAi!RawUsageResults)
<1> DEFINE parts == [i \in DOMAIN rows |-> rows[i].results]
<1>1. OpenAi!Results(rows) = FlattenSeq(parts)
  BY OpenAiFlatten, Zenon DEF OpenAi!Results
<1>2. parts \in Seq(Seq(OpenAi!RawUsageResults))
  <2>1. DOMAIN rows = 1..Len(rows) /\ \A i \in 1..Len(rows) : rows[i] \in OpenAiUsageRows
    OBVIOUS
  <2>2. \A i \in 1..Len(rows) : rows[i].results \in Seq(OpenAi!RawUsageResults)
    BY <2>1 DEF OpenAiUsageRows
  <2> QED
    BY <2>1, <2>2
<1> HIDE DEF parts
<1> QED
  BY <1>1, <1>2, FlattenIs

LEMMA OpenAiTotalsAre ==
    ASSUME NEW results \in Seq(OpenAi!RawUsageResults)
    PROVE  OpenAi!UsageTotals(results) \in OpenAiTotals
<1> DEFINE n == Len(results)
<1>1. n \in Nat /\ DOMAIN results = 1..n /\ \A i \in 1..n : results[i] \in OpenAi!RawUsageResults
  OBVIOUS
<1> HIDE DEF n
<1>2. PICK c \in [0..n -> OpenAiTotals] : OpenAi!UsageTotals(results) = c[n]
  BY <1>1, OpenAiUsageChain
<1>3. n \in 0..n
  BY <1>1
<1> QED
  BY <1>2, <1>3

LEMMA OpenAiCentsAre == ASSUME NEW amount PROVE OpenAi!ToMinorUnits(amount) \in Minor
<1>1. \A x : OpenAi!IfFits(x) \in Minor
  BY MoneyAssumption DEF OpenAi!IfFits, Minor
<1>2. Refused \in Minor /\ 0 \in Minor
  BY DEF Minor
<1>3. \/ OpenAi!ToMinorUnits(amount) \in {Refused, 0}
      \/ \E x : OpenAi!ToMinorUnits(amount) = OpenAi!IfFits(x)
  BY Zenon DEF OpenAi!ToMinorUnits
<1> QED
  BY <1>1, <1>2, <1>3

\* No value of the bucket is Refused.
Whole(b) == Refused \notin {b.cost, b.input, b.output, b.cached, b.requests}

LEMMA OpenAiBucketIs ==
    ASSUME NEW usage \in Seq(OpenAiUsageRows), NEW costs, NEW span \in AllSpans,
           Whole(OpenAi!MergedBucket(usage, costs, span))
    PROVE  OpenAi!MergedBucket(usage, costs, span) \in UsageBuckets
<1> DEFINE totals == IF span \in OpenAi!Spans(usage)
                     THEN OpenAi!UsageTotals(OpenAi!Results(OpenAi!OfSpan(usage, span)))
                     ELSE [f \in OpenAi!UsageFields |-> None]
           cents == IF span \in OpenAi!Spans(costs)
                    THEN OpenAi!ToMinorUnits(OpenAi!CostOfSpan(costs, span)) ELSE None
           cost == IF cents \in {None, Refused} THEN cents ELSE Dollars(cents)
           merged == OpenAi!MergedBucket(usage, costs, span)
<1>1. merged = Bucket(UnixToUtc(span[1]), UnixToUtc(span[2]), cost, totals.input, totals.output,
                      totals.cached, None, totals.requests)
  BY OpenAiInstant, OpenAiSpend, Zenon DEF OpenAi!MergedBucket, OpenAi!Bucket, Bucket
<1>2. /\ totals.input \in Counts \cup {Refused} /\ totals.output \in Counts \cup {Refused}
      /\ totals.cached \in Counts \cup {Refused} /\ totals.requests \in Counts \cup {Refused}
  <2> DEFINE used == OpenAi!OfSpan(usage, span)
             reported == OpenAi!UsageTotals(OpenAi!Results(used))
             none == [f \in OpenAi!UsageFields |-> None]
  <2>1. used \in Seq(OpenAiUsageRows)
    BY OfSpanIs, AmongIs
  <2> HIDE DEF used
  <2>2. reported \in OpenAiTotals
    BY <2>1, OpenAiResultsAre, OpenAiTotalsAre
  <2> HIDE DEF reported
  <2>3. /\ reported.input \in Counts \cup {Refused} /\ reported.output \in Counts \cup {Refused}
        /\ reported.cached \in Counts \cup {Refused} /\ reported.requests \in Counts \cup {Refused}
    BY <2>2, OpenAiRaw DEF OpenAiTotals, Counts, Option
  <2>4. none.input = None /\ none.output = None /\ none.cached = None /\ none.requests = None
    BY OpenAiRaw
  <2>5. None \in Counts
    BY DEF Counts, Option
  <2>6. totals = IF span \in OpenAi!Spans(usage) THEN reported ELSE none
    BY DEF used, reported
  <2> HIDE DEF none, totals
  <2> QED
    BY <2>3, <2>4, <2>5, <2>6
<1>3. cents \in Minor \cup {None}
  BY OpenAiCentsAre
<1> HIDE DEF totals, cents
<1>4. /\ span[1] \in Int /\ span[2] \in Int
      /\ UnixToUtc(span[1]) \in Instants /\ UnixToUtc(span[2]) \in Instants
  <2>1. span[1] \in Int /\ span[2] \in Int
    BY DEF AllSpans
  <2> QED
    BY <2>1, UtcIsTheInstant
<1>5. /\ cost # Refused /\ totals.input # Refused /\ totals.output # Refused
      /\ totals.cached # Refused /\ totals.requests # Refused
  <2> HIDE DEF cost, merged
  <2>1. Whole(merged)
    BY DEF merged
  <2>2. /\ merged.cost = cost /\ merged.input = totals.input /\ merged.output = totals.output
        /\ merged.cached = totals.cached /\ merged.requests = totals.requests
    BY <1>1 DEF Bucket
  <2> QED
    BY <2>1, <2>2 DEF Whole
<1>6. cost \in Option(Money)
  BY <1>3, <1>5, DollarsAreMoney DEF Minor, Option
<1>7. /\ totals.input \in Counts /\ totals.output \in Counts /\ totals.cached \in Counts
      /\ totals.requests \in Counts /\ None \in Counts
  BY <1>2, <1>5 DEF Counts, Option
<1> HIDE DEF cost, merged
<1> QED
  BY <1>1, <1>4, <1>6, <1>7, BucketIs DEF merged

LEMMA OpenAiTyped ==
    ASSUME NEW raw,
           raw.usage \in Seq(OpenAi!RawPages("usage") \cup {Refused}),
           raw.costs \in Seq(OpenAi!RawPages("costs") \cup {Refused}),
           OpenAi!OpenAiAccount(raw) # Refused
    PROVE  TypedAccount(OpenAi!OpenAiAccount(raw))
<1> DEFINE account == OpenAi!OpenAiAccount(raw)
           usage == OpenAi!Rows(raw.usage)
           costs == OpenAi!Rows(raw.costs)
           buckets == OpenAi!MergeBuckets(usage, costs)
           models == OpenAi!ModelTotals(OpenAi!Results(usage))
           spent == [p \in OpenAi!Periods |-> OpenAi!SpentSince(raw.starts[p], costs)]
           budget == [p \in OpenAi!Periods |->
                         OpenAi!CalculateBudgetState(OpenAi!Dollars(spent[p]), None, None)]
           bad == \/ ~OpenAi!Parsed(raw.usage) \/ ~OpenAi!Parsed(raw.costs)
                  \/ OpenAi!Broken(buckets, models)
                  \/ Refused \in {spent[p] : p \in OpenAi!Periods}
           breakdown == OpenAi!ModelBreakdown(models)
           platform == OpenAi!PlatformAccount("openai-local", "openai", "openai.platform", budget,
                                              buckets, breakdown)
<1>1. account = IF bad THEN Refused ELSE platform
  BY Zenon DEF OpenAi!OpenAiAccount
<1>2. ~bad /\ account = platform
  <2> HIDE DEF bad, platform, account
  <2>1. account # Refused
    BY DEF account
  <2> QED
    BY <1>1, <2>1, Zenon
<1> HIDE DEF account
<1>3. /\ OpenAi!Parsed(raw.usage) /\ OpenAi!Parsed(raw.costs)
      /\ Refused \notin ToSet(raw.usage) /\ Refused \notin ToSet(raw.costs)
      /\ \A b \in ToSet(buckets) : Whole(b)
      /\ \A p \in Periods : spent[p] # Refused
  <2> HIDE DEF buckets, spent, models
  <2> QED
    BY <1>2, OpenAiSet, OpenAiSpend, Zenon DEF OpenAi!Parsed, OpenAi!Broken, Whole
<1> HIDE DEF bad
<1>4. usage \in Seq(OpenAiUsageRows) /\ costs \in Seq(OpenAiCostRows)
  BY <1>3, OpenAiPages, ParsedRows, OpenAiRows
<1>5. Timed(usage) /\ Timed(costs)
  <2>1. /\ Listed(usage) /\ ToSet(usage) \subseteq OpenAiUsageRows
        /\ Listed(costs) /\ ToSet(costs) \subseteq OpenAiCostRows
    BY <1>4, ListedOf
  <2> HIDE DEF usage, costs
  <2> QED
    BY <2>1 DEF Timed, OpenAiUsageRows, OpenAiCostRows
<1> DEFINE S == OpenAi!Spans(usage) \cup OpenAi!Spans(costs)
           order == OpenAi!InOrder(S, OpenAi!SpanLess)
<1> HIDE DEF usage, costs
<1>6. S \in SUBSET AllSpans /\ IsFiniteSet(S)
  <2>1. /\ OpenAi!Spans(usage) \in SUBSET AllSpans /\ IsFiniteSet(OpenAi!Spans(usage))
        /\ OpenAi!Spans(costs) \in SUBSET AllSpans /\ IsFiniteSet(OpenAi!Spans(costs))
    BY <1>5, SpansAre
  <2>2. IsFiniteSet(S)
    BY <2>1, FS_Union
  <2> QED
    BY <2>1, <2>2
<1>7. buckets = [i \in DOMAIN order |-> OpenAi!MergedBucket(usage, costs, order[i])]
  BY Zenon DEF OpenAi!MergeBuckets
<1> HIDE DEF S
<1>8. \A i \in DOMAIN order : order[i] \in AllSpans
  BY <1>6, InOrderIs DEF Lists
<1> HIDE DEF order, buckets
<1>9. \A b \in ToSet(buckets) : b \in UsageBuckets
  <2> TAKE b \in ToSet(buckets)
  <2>1. PICK i \in DOMAIN order : b = OpenAi!MergedBucket(usage, costs, order[i])
    BY <1>7 DEF ToSet
  <2>2. Whole(OpenAi!MergedBucket(usage, costs, order[i])) /\ order[i] \in AllSpans
    BY <1>3, <1>8, <2>1
  <2> QED
    BY <1>4, <2>1, <2>2, OpenAiBucketIs
<1>10. budget \in [Periods -> SpendStates]
  <2>1. \A p \in Periods : spent[p] \in Int
    <3> TAKE p \in Periods
    <3>1. spent[p] = OpenAi!SpentSince(raw.starts[p], costs)
      BY OpenAiSpend
    <3>2. \E amount : OpenAi!SpentSince(raw.starts[p], costs) = OpenAi!ToMinorUnits(amount)
      BY Zenon DEF OpenAi!SpentSince
    <3>3. OpenAi!SpentSince(raw.starts[p], costs) \in Minor
      BY <3>2, OpenAiCentsAre
    <3> QED
      BY <1>3, <3>1, <3>3 DEF Minor
  <2> HIDE DEF spent
  <2>2. \A p \in Periods : CalculateBudgetState(Dollars(spent[p]), None, None) \in SpendStates
    <3> TAKE p \in Periods
    <3>1. Dollars(spent[p]) \in Option(Money)
      BY <2>1, DollarsAreMoney DEF Option
    <3> QED
      BY <3>1, SpendIs
  <2> QED
    BY <2>2, OpenAiSpend
<1> HIDE DEF budget, breakdown
<1>11. account = PlatformAccount("openai-local", "openai", "openai.platform", budget, buckets, breakdown)
  BY <1>2, Zenon DEF OpenAi!PlatformAccount, PlatformAccount
<1> QED
  BY <1>9, <1>10, <1>11, PlatformIsTyped, ConnectionsAre DEF account

-----------------------------------------------------------------------------
(***************************************************************************)
(* What is asked for and answered.                                         *)
(***************************************************************************)
\* A report is one the provider that is asked may give, and the envelope is made
\* of it.
OfPages(o, pages) ==
    \A feed \in Feeds : pages[feed] \in Seq(RawPages(o, feed) \cup {Refused})

ReportInv ==
    /\ source # None =>
          \/ source \in DOMAIN Summaries /\ report \in RawReports(source)
          \/ source \in DOMAIN Pages /\ OfPages(source, report)
                /\ report = [usage |-> report.usage, costs |-> report.costs, starts |-> report.starts]
    /\ envelope # None => source # None /\ envelope = ReportEnvelope(source, 0, report)

LEMMA ReportInit == Init => ReportInv
  BY DEF Init, ReportInv

LEMMA ReportStep == ReportInv /\ [Next]_vars => ReportInv'
<1> SUFFICES ASSUME ReportInv, [Next]_vars PROVE ReportInv'
  OBVIOUS
<1> DEFINE Pair(r) == r = [usage |-> r.usage, costs |-> r.costs, starts |-> r.starts]
<1>1. ASSUME NEW p \in DOMAIN Summaries, AskPlan(p) PROVE ReportInv'
  <2>1. source' = p /\ report' \in Summaries[p] /\ envelope' = None
    BY <1>1 DEF AskPlan, ReportInv
  <2>2. report' \in RawReports(p)
    BY <2>1, ReportAssumption
  <2> QED
    BY <2>1, <2>2 DEF ReportInv
<1>2. ASSUME NEW o \in DOMAIN Pages, AskPlatform(o) PROVE ReportInv'
  <2>1. /\ source' = o /\ envelope' = None
        /\ report' = [usage |-> <<>>, costs |-> <<>>, starts |-> Starts[o]]
    BY <1>2 DEF AskPlatform, ReportInv
  <2>2. report'.usage = <<>> /\ report'.costs = <<>> /\ Pair(report')
    BY <2>1
  <2>3. \A feed \in Feeds : report'[feed] = <<>>
    BY <2>1 DEF Feeds
  <2>4. OfPages(o, report')
    <3>1. \A feed \in Feeds : <<>> \in Seq(RawPages(o, feed) \cup {Refused})
      OBVIOUS
    <3> QED
      BY <2>3, <3>1 DEF OfPages
  <2> QED
    BY <2>1, <2>2, <2>4 DEF ReportInv
<1>3. ASSUME NEW feed \in Feeds, Page(feed) PROVE ReportInv'
  <2>0. PICK page \in Pages[source][feed] : report' = [report EXCEPT ![feed] = Append(@, page)]
    BY <1>3 DEF Page
  <2>1. source \in DOMAIN Pages /\ source' = source /\ envelope = None /\ envelope' = None
    BY <1>3 DEF Page
  <2>2. CASE source = None
    BY <2>1, <2>2 DEF ReportInv
  <2>3. CASE source # None
    <3>1. page \in RawPages(source, feed) \cup {Refused}
      BY <2>0, <2>1, ReportAssumption
    <3>2. CASE source \in DOMAIN Summaries
      \* No provider is a plan and an organization.
      BY <2>1, <3>2, ReportAssumption DEF Plans, Platforms
    <3>3. CASE OfPages(source, report) /\ Pair(report)
      <4>1. report[feed] \in Seq(RawPages(source, feed) \cup {Refused})
        BY <3>3 DEF OfPages
      <4>2. Append(report[feed], page) \in Seq(RawPages(source, feed) \cup {Refused})
        BY <3>1, <4>1
      <4>3. feed \in {"usage", "costs"}
        BY DEF Feeds
      <4>4. /\ report'[feed] = Append(report[feed], page)
            /\ \A f \in Feeds : f # feed => report'[f] = report[f]
            /\ Pair(report')
        BY <2>0, <3>3, <4>3 DEF Feeds
      <4>5. OfPages(source, report')
        BY <3>3, <4>2, <4>4 DEF OfPages
      <4> QED
        BY <2>1, <4>4, <4>5 DEF ReportInv
    <3> QED
      BY <2>3, <3>2, <3>3 DEF ReportInv
  <2> QED
    BY <2>2, <2>3
<1>4. CASE Answer
  BY <1>4 DEF Answer, ReportInv
<1>5. CASE Close
  BY <1>5 DEF Close, ReportInv
<1>6. CASE UNCHANGED vars
  BY <1>6 DEF vars, ReportInv
<1> QED
  BY <1>1, <1>2, <1>3, <1>4, <1>5, <1>6 DEF Next

\* What is shown of an account is what its adapter made of the report.
LEMMA ShownIs ==
    ASSUME ReportInv, Accepted
    PROVE  /\ source # None /\ Account = Normalize(source, report) /\ Account # Refused
           /\ envelope.payload.accounts = <<Account>>
           /\ envelope.payload.status = Worst({Account.status})
<1> DEFINE account == Normalize(source, report)
           board == BuildDashboard(0, <<account>>)
<1>1. source # None /\ envelope = ReportEnvelope(source, 0, report)
  BY DEF ReportInv, Accepted
<1>2. envelope = Envelope(IF account = Refused THEN Refused ELSE board)
  BY <1>1, Zenon DEF ReportEnvelope
<1>3. board.accounts = <<account>>
           /\ board.status = Worst({<<account>>[i].status : i \in DOMAIN <<account>>})
  BY Zenon DEF BuildDashboard
<1> HIDE DEF account, board
<1>4. account # Refused /\ envelope = [status |-> "success", payload |-> board]
  BY <1>2 DEF Envelope, Accepted
<1>5. Account = account
  BY <1>3, <1>4 DEF Account
<1>6. {<<account>>[i].status : i \in DOMAIN <<account>>} = {account.status}
  OBVIOUS
<1> QED
  BY <1>1, <1>3, <1>4, <1>5, <1>6 DEF account

LEMMA PlanStatus ==
    ASSUME NEW account, IsPlanAccount(account)
    PROVE  account.status \in Statuses /\ Worst({account.status}) = account.status
<1> DEFINE windows == account.allowances
           S == {windows[i].status : i \in DOMAIN windows}
<1>1. account.status = Worst(S) /\ \A w \in ToSet(windows) : Fits(w)
  BY DEF IsPlanAccount, WorstStatus
<1>2. S \subseteq Statuses
  BY <1>1 DEF ToSet, Fits
<1> HIDE DEF S
<1>3. account.status \in Statuses
  <2>1. CASE S = {}
    BY <1>1, <2>1, StatusesAre DEF Worst
  <2>2. CASE S # {}
    BY <1>1, <1>2, <2>2, WorstIsTop
  <2> QED
    BY <2>1, <2>2
<1>4. Worst({account.status}) \in {account.status}
  BY <1>3, WorstIsTop
<1> QED
  BY <1>3, <1>4

\* Each plan adapter gives an account that is limited as it is spent.
LEMMA PlanAccountIs ==
    ASSUME ReportInv, Accepted, source \in Plans
    PROVE  /\ report \in RawReports(source)
           /\ IsPlanAccount(Account)
<1>1. report \in RawReports(source)
  <2>1. source \notin DOMAIN Pages
    BY ReportAssumption DEF Plans, Platforms
  <2> QED
    BY <2>1, ShownIs DEF ReportInv
<1>2. Account = Normalize(source, report) /\ Account # Refused
  BY ShownIs
<1> HIDE DEF Account
<1>3. CASE source = "codex"
  <2>1. Account = Codex!CodexAccount(report) /\ report \in Codex!RawReports
    BY <1>1, <1>2, <1>3 DEF Normalize, RawReports
  <2> QED
    BY <1>1, <1>2, <2>1, CodexAccountIs
<1>4. CASE source = "claude"
  <2>1. Account = Claude!ClaudeAccount(report) /\ report \in Claude!RawReports
    BY <1>1, <1>2, <1>4 DEF Normalize, RawReports
  <2> QED
    BY <1>1, <1>2, <2>1, ClaudeAccountIs
<1>5. CASE source = "cursorPlan"
  <2>1. Account = Cursor!CursorPlanAccount(report) /\ report \in Cursor!RawPlanReports
    BY <1>1, <1>2, <1>5 DEF Normalize, RawReports
  <2> QED
    BY <1>1, <2>1, CursorPlanIs
<1> QED
  BY <1>3, <1>4, <1>5 DEF Plans

\* The account that is shown is typed, whichever adapter made it.
LEMMA ShownTyped ==
    ASSUME ReportInv, Accepted
    PROVE  /\ source \in Sources /\ TypedAccount(Account)
           /\ envelope.payload = BuildDashboard(0, <<Account>>)
<1> DEFINE account == Normalize(source, report)
           board == BuildDashboard(0, <<account>>)
<1>1. Account = account /\ account # Refused /\ source # None
  BY ShownIs
<1>2. envelope.payload = BuildDashboard(0, <<Account>>)
  <2>1. envelope = Envelope(board)
    <3>1. envelope = ReportEnvelope(source, 0, report)
      BY DEF ReportInv, Accepted
    <3> HIDE DEF board, account
    <3>2. envelope = Envelope(IF account = Refused THEN Refused ELSE board)
      BY <3>1, Zenon DEF ReportEnvelope, board, account
    <3> QED
      BY <1>1, <3>2, Zenon
  <2> HIDE DEF board, Account
  <2>2. envelope = [status |-> "success", payload |-> board]
    BY <2>1 DEF Envelope, Accepted
  <2>3. envelope.payload = board
    BY <2>2
  <2> QED
    BY <1>1, <2>3 DEF board
<1> HIDE DEF Account, account, board
<1>3. CASE source \in DOMAIN Summaries /\ report \in RawReports(source)
  <2>1. source \in Plans
    BY <1>3, ReportAssumption
  <2>2. CASE source = "codex"
    <3>1. account = Codex!CodexAccount(report) /\ report \in Codex!RawReports
      BY <1>3, <2>2 DEF Normalize, RawReports, account
    <3> QED
      BY <1>1, <1>2, <2>1, <3>1, CodexTyped DEF Sources
  <2>3. CASE source = "claude"
    <3>1. account = Claude!ClaudeAccount(report) /\ report \in Claude!RawReports
      BY <1>3, <2>3 DEF Normalize, RawReports, account
    <3> QED
      BY <1>1, <1>2, <2>1, <3>1, ClaudeTyped DEF Sources
  <2>4. CASE source = "cursorPlan"
    <3>1. account = Cursor!CursorPlanAccount(report) /\ report \in Cursor!RawPlanReports
      BY <1>3, <2>4 DEF Normalize, RawReports, account
    <3> QED
      BY <1>1, <1>2, <2>1, <3>1, CursorPlanTyped DEF Sources
  <2> QED
    BY <2>1, <2>2, <2>3, <2>4 DEF Plans
<1>4. CASE source \in DOMAIN Pages /\ OfPages(source, report)
  <2>1. source \in Platforms
    BY <1>4, ReportAssumption
  <2>2. /\ report.usage \in Seq(RawPages(source, "usage") \cup {Refused})
        /\ report.costs \in Seq(RawPages(source, "costs") \cup {Refused})
    BY <1>4 DEF OfPages, Feeds
  <2>3. CASE source = "openai"
    <3>1. /\ account = OpenAi!OpenAiAccount(report)
          /\ \A feed : RawPages(source, feed) = OpenAi!RawPages(feed)
      BY <2>3 DEF Normalize, RawPages, account
    <3> QED
      BY <1>1, <1>2, <2>1, <2>2, <3>1, OpenAiTyped DEF Sources
  <2>4. CASE source = "anthropic"
    <3>1. /\ account = Anthropic!AnthropicAccount(report)
          /\ \A feed : RawPages(source, feed) = Anthropic!RawPages(feed)
      BY <2>4 DEF Normalize, RawPages, account
    <3> QED
      BY <1>1, <1>2, <2>1, <2>2, <3>1, AnthropicTyped DEF Sources
  <2>5. CASE source = "cursorPlatform"
    <3>1. /\ account = Cursor!CursorPlatformAccount(report)
          /\ \A feed : RawPages(source, feed) = Cursor!RawPages(feed)
      BY <2>5 DEF Normalize, RawPages, account
    <3> QED
      BY <1>1, <1>2, <2>1, <2>2, <3>1, CursorTeamTyped DEF Sources
  <2> QED
    BY <2>1, <2>3, <2>4, <2>5 DEF Platforms
<1> QED
  BY <1>1, <1>3, <1>4 DEF ReportInv

LEMMA SpentHolds == ReportInv => SpentIsLimited
<1> SUFFICES ASSUME ReportInv, source \in Plans, Accepted
             PROVE  /\ \A w \in ToSet(Account.allowances) :
                          ~w.unlimited => (w.status = "rateLimited" <=> IsExhausted(w))
                    /\ envelope.payload.status = "ok" =>
                          ExhaustedWindows(envelope.payload) = {} /\ Account.allowances # <<>>
  BY Zenon DEF SpentIsLimited
<1>1. IsPlanAccount(Account)
  BY PlanAccountIs
<1>2. /\ envelope.payload.accounts = <<Account>>
      /\ envelope.payload.status = Account.status
  BY <1>1, ShownIs, PlanStatus
<1> DEFINE board == envelope.payload
<1> HIDE DEF Account
<1>3. ASSUME board.status = "ok"
      PROVE  ExhaustedWindows(board) = {} /\ Account.allowances # <<>>
  <2>1. Account.allowances # <<>> /\ \A w \in ToSet(Account.allowances) : ~IsExhausted(w)
    BY <1>1, <1>2, <1>3, HealthyPlan
  <2>2. ToSet(board.accounts) = {Account}
    BY <1>2, ListedOne
  <2> HIDE DEF board
  <2>3. \A p \in WindowsOf(board) : p[2] \in ToSet(Account.allowances)
    BY <2>2 DEF WindowsOf
  <2>4. {p \in WindowsOf(board) : IsExhausted(p[2])} = {}
    BY <2>1, <2>3
  <2>5. KeysOf({}) = {}
    BY DEF KeysOf
  <2> QED
    BY <2>1, <2>4, <2>5 DEF ExhaustedWindows
<1>4. \A w \in ToSet(Account.allowances) :
          ~w.unlimited => (w.status = "rateLimited" <=> IsExhausted(w))
  BY <1>1 DEF IsPlanAccount, Fits
<1> QED
  BY <1>3, <1>4

LEMMA InstantsHold == ReportInv => InstantsAgree
<1> SUFFICES ASSUME ReportInv, Accepted PROVE InstantsAgree
  BY Zenon DEF InstantsAgree
<1>1. source # None /\ Account = Normalize(source, report) /\ Account # Refused
  BY ShownIs
<1> HIDE DEF Account
<1>2. ASSUME source = "openai"
      PROVE  {<<MinuteNumber(b.start), MinuteNumber(b.end)>> : b \in ToSet(Account.buckets)}
                 = {<<r.start, r.end>> : r \in ToSet(Rows(report.usage \o report.costs))}
  <2>1. OfPages("openai", report)
    BY <1>1, <1>2, ReportAssumption DEF ReportInv, Plans
  <2>2. /\ RawPages("openai", "usage") = OpenAi!RawPages("usage")
        /\ RawPages("openai", "costs") = OpenAi!RawPages("costs")
    BY DEF RawPages
  <2>3. /\ report.usage \in Seq(OpenAi!RawPages("usage") \cup {Refused})
        /\ report.costs \in Seq(OpenAi!RawPages("costs") \cup {Refused})
    BY <2>1, <2>2 DEF OfPages, Feeds
  <2>4. Account = OpenAi!OpenAiAccount(report)
    BY <1>1, <1>2 DEF Normalize
  <2> QED
    BY <1>1, <2>3, <2>4, OpenAiAccountIs
<1>3. ASSUME source = "codex"
      PROVE  /\ \A b \in ToSet(Account.buckets) :
                   IsDate(b.end.date) /\ DayNumber(b.end.date) = DayNumber(b.start.date) + 1
             /\ {MinuteNumber(w.resetsAt) : w \in {v \in ToSet(Account.allowances) :
                                                    v.resetsAt # None}}
                  = UNION {ResetsOf(limit) : limit \in ToSet(Codex!RateLimits(report))}
  <2>1. report \in Codex!RawReports
    BY <1>3, PlanAccountIs DEF RawReports, Plans
  <2>2. Account = Codex!CodexAccount(report)
    BY <1>1, <1>3 DEF Normalize
  <2> QED
    BY <1>1, <2>1, <2>2, CodexInstants
<1>4. ASSUME source = "claude"
      PROVE  \A w \in ToSet(Account.allowances) :
                 w.resetsAt # None => IsMeant(w.resetsAt, report.windows[w.id].resetsAt)
  <2>1. report \in Claude!RawReports
    BY <1>4, PlanAccountIs DEF RawReports, Plans
  <2>2. Account = Claude!ClaudeAccount(report)
    BY <1>1, <1>4 DEF Normalize
  <2> QED
    BY <1>1, <2>1, <2>2, ClaudeAccountIs
<1> QED
  BY <1>2, <1>3, <1>4, Zenon DEF InstantsAgree, ResetsOf, IsMeant

LEMMA ReportsStay == Spec => []ReportInv
  BY ReportInit, ReportStep, PTL DEF Spec

\* An instant the account shows is the one the provider meant: the start and the
\* end of every OpenAI bucket, the day after every day of Codex tokens, the resets
\* of Codex and of Claude windows, for every report and every date.
THEOREM ShownInstantsAgree == Spec => []InstantsAgree
  BY ReportsStay, InstantsHold, PTL

\* A plan's window is shown rate limited exactly when the recoveries remember it
\* as spent, and a plan with a spent window, or with none, is not healthy.
THEOREM SpentWindowsAreLimited == Spec => []SpentIsLimited
  BY ReportsStay, SpentHolds, PTL

-----------------------------------------------------------------------------
(***************************************************************************)
(* The windows of a plan are told apart.                                   *)
(***************************************************************************)
\* A sequence of windows with ids of their own.
Keyed(windows) ==
    /\ Listed(windows)
    /\ \A i, j \in DOMAIN windows : i # j => windows[i].id # windows[j].id

\* Windows of which no two share an id.
Apart(a, b) == \A x \in ToSet(a), y \in ToSet(b) : x.id # y.id

LEMMA KeyedNone == Keyed(<<>>)
  BY ListedNone DEF Keyed

LEMMA KeyedOne == ASSUME NEW w PROVE Keyed(<<w>>)
<1>1. \A i, j \in DOMAIN <<w>> : i = j
  OBVIOUS
<1> QED
  BY <1>1, ListedOne DEF Keyed

LEMMA KeyedBoth ==
    ASSUME NEW a, NEW b, Keyed(a), Keyed(b), Apart(a, b)
    PROVE  Keyed(a \o b) /\ ToSet(a \o b) = ToSet(a) \cup ToSet(b)
<1> DEFINE n == Len(a)
           m == Len(b)
           c == a \o b
<1>1. Listed(c) /\ ToSet(c) = ToSet(a) \cup ToSet(b)
  BY ListedBoth DEF Keyed
<1>2. /\ n \in Nat /\ DOMAIN a = 1..n /\ m \in Nat /\ DOMAIN b = 1..m
      /\ \A i \in 1..n : a[i] \in ToSet(a)
      /\ \A i \in 1..m : b[i] \in ToSet(b)
  BY DEF Keyed, Listed, ToSet
<1>3. /\ DOMAIN c = 1..(n + m)
      /\ \A i \in 1..(n + m) : c[i] = IF i <= n THEN a[i] ELSE b[i - n]
  <2>1. a \in Seq(ToSet(a) \cup ToSet(b)) /\ b \in Seq(ToSet(a) \cup ToSet(b))
    BY DEF Keyed, Listed
  <2> QED
    BY <2>1, ConcatProperties
<1> HIDE DEF c, n, m
<1>4. ASSUME NEW i \in 1..(n + m), NEW j \in 1..(n + m), i # j
      PROVE  c[i].id # c[j].id
  <2>1. CASE i <= n /\ j <= n
    <3>1. i \in 1..n /\ j \in 1..n /\ c[i] = a[i] /\ c[j] = a[j]
      BY <1>2, <1>3, <2>1
    <3> QED
      BY <1>2, <1>4, <3>1 DEF Keyed
  <2>2. CASE i <= n /\ ~(j <= n)
    <3>1. i \in 1..n /\ j - n \in 1..m /\ c[i] = a[i] /\ c[j] = b[j - n]
      BY <1>2, <1>3, <2>2
    <3> QED
      BY <1>2, <3>1 DEF Apart
  <2>3. CASE ~(i <= n) /\ j <= n
    <3>1. j \in 1..n /\ i - n \in 1..m /\ c[j] = a[j] /\ c[i] = b[i - n]
      BY <1>2, <1>3, <2>3
    <3> QED
      BY <1>2, <3>1 DEF Apart
  <2>4. CASE ~(i <= n) /\ ~(j <= n)
    <3>1. /\ i - n \in 1..m /\ j - n \in 1..m /\ i - n # j - n
          /\ c[i] = b[i - n] /\ c[j] = b[j - n]
      BY <1>2, <1>3, <1>4, <2>4
    <3> QED
      BY <1>2, <3>1 DEF Keyed
  <2> QED
    BY <2>1, <2>2, <2>3, <2>4
<1> QED
  BY <1>1, <1>3, <1>4 DEF Keyed, c

LEMMA KeyedFlat ==
    ASSUME NEW seqs, Listed(seqs), \A i \in DOMAIN seqs : Keyed(seqs[i]),
           \A i, j \in DOMAIN seqs : i # j => Apart(seqs[i], seqs[j])
    PROVE  Keyed(FlattenSeq(seqs))
<1> DEFINE n == Len(seqs)
           flat == CHOOSE f : Flat(f, seqs)
           All(k) == UNION {ToSet(seqs[i]) : i \in 1..k}
           Built == {k \in 0..n : k # 0 => Keyed(flat[k]) /\ ToSet(flat[k]) = All(k)}
<1>1. n \in Nat /\ DOMAIN seqs = 1..n
  BY DEF Listed
<1>2. CASE n = 0
  <2>1. FlattenSeq(seqs) = seqs /\ seqs = <<>>
    BY <1>1, <1>2 DEF FlattenSeq, Listed
  <2> QED
    BY <2>1, KeyedNone
<1>3. CASE n # 0
  <2>1. Flat(flat, seqs)
    BY <1>1, FlatExists
  <2>2. FlattenSeq(seqs) = flat[n]
    BY <1>3, Zenon DEF FlattenSeq, Flat
  <2> HIDE DEF flat
  <2>3. \A k \in 1..n : flat[k] = IF k = 1 THEN seqs[k] ELSE flat[k - 1] \o seqs[k]
    BY <2>1 DEF Flat
  <2> HIDE DEF n
  <2>4. 0 \in Built
    BY <1>1
  <2>5. ASSUME NEW k \in 1..n, k - 1 \in Built
        PROVE  k \in Built
    <3>1. CASE k = 1
      <4>1. flat[1] = seqs[1] /\ All(1) = ToSet(seqs[1])
        BY <2>3, <3>1
      <4> QED
        BY <1>1, <3>1, <4>1
    <3>2. CASE k # 1
      <4>1. flat[k] = flat[k - 1] \o seqs[k]
        BY <2>3, <3>2
      <4>2. Keyed(flat[k - 1]) /\ ToSet(flat[k - 1]) = All(k - 1)
        BY <1>1, <2>5, <3>2
      <4>3. Apart(flat[k - 1], seqs[k])
        <5>1. ASSUME NEW x \in ToSet(flat[k - 1]), NEW y \in ToSet(seqs[k])
              PROVE  x.id # y.id
          <6>1. PICK i \in 1..(k - 1) : x \in ToSet(seqs[i])
            BY <4>2, <5>1
          <6>2. i \in DOMAIN seqs /\ k \in DOMAIN seqs /\ i # k
            BY <1>1
          <6> QED
            BY <6>1, <6>2 DEF Apart
        <5> QED
          BY <5>1 DEF Apart
      <4>4. Keyed(seqs[k])
        BY <1>1
      <4>5. Keyed(flat[k]) /\ ToSet(flat[k]) = All(k - 1) \cup ToSet(seqs[k])
        BY <4>1, <4>2, <4>3, <4>4, KeyedBoth
      <4>6. 1..k = 1..(k - 1) \cup {k}
        BY <1>1
      <4>7. All(k) = All(k - 1) \cup ToSet(seqs[k])
        BY <4>6
      <4> QED
        BY <1>1, <4>5, <4>7
    <3> QED
      BY <3>1, <3>2
  <2> HIDE DEF Built
  <2>6. \A k \in 0..n : k \in Built
    BY <1>1, <2>4, <2>5, Stepwise
  <2>7. n \in Built /\ n # 0
    BY <1>1, <1>3, <2>6
  <2> QED
    BY <2>2, <2>7 DEF Built
<1> QED
  BY <1>2, <1>3

\* As many keys as windows.
LEMMA KeysCounted ==
    ASSUME NEW account, Keyed(account.allowances), NEW board, board.accounts = <<account>>
    PROVE  Cardinality(KeysOf(WindowsOf(board))) = Len(account.allowances)
<1> DEFINE windows == account.allowances
           n == Len(windows)
           keys == KeysOf(WindowsOf(board))
           key == [i \in 1..n |-> <<account.id, windows[i].id>>]
<1>1. n \in Nat /\ DOMAIN windows = 1..n
  BY DEF Keyed, Listed
<1>2. ToSet(windows) = {windows[i] : i \in 1..n}
  BY <1>1 DEF ToSet
<1>3. keys = {<<account.id, windows[i].id>> : i \in 1..n}
  <2>1. ToSet(board.accounts) = {account}
    BY ListedOne
  <2>2. WindowsOf(board) = {<<account, w>> : w \in ToSet(windows)}
    BY <2>1, Zenon DEF WindowsOf
  <2>3. keys = {<<p[1].id, p[2].id>> : p \in WindowsOf(board)}
    BY Zenon DEF KeysOf, WindowKey
  <2>4. \A w : <<account, w>>[1] = account /\ <<account, w>>[2] = w
    OBVIOUS
  <2>5. \A p \in WindowsOf(board) : \E w \in ToSet(windows) : p[1] = account /\ p[2] = w
    BY <2>2, <2>4
  <2>6. \A w \in ToSet(windows) : \E p \in WindowsOf(board) : p[1] = account /\ p[2] = w
    BY <2>2, <2>4
  <2>7. keys = {<<account.id, w.id>> : w \in ToSet(windows)}
    BY <2>3, <2>5, <2>6, Zenon
  <2> HIDE DEF windows, n
  <2> QED
    BY <1>2, <2>7
<1> HIDE DEF keys, n
<1>4. key \in Bijection(1..n, keys)
  <2>1. \A i, j \in 1..n : i # j => windows[i].id # windows[j].id
    BY <1>1 DEF Keyed
  <2> HIDE DEF windows
  <2>2. key \in [1..n -> keys] /\ \A i \in 1..n : key[i] = <<account.id, windows[i].id>>
    BY <1>3
  <2>3. \A i, j \in 1..n : key[i] = key[j] => i = j
    BY <2>1, <2>2
  <2>4. \A k \in keys : \E i \in 1..n : key[i] = k
    BY <1>3, <2>2
  <2> DEFINE places == 1..n
  <2>5. \A i, j \in places : key[i] = key[j] => i = j
    BY <2>3
  <2> HIDE DEF key, places, n
  <2>6. DOMAIN key = places /\ key \in [places -> keys]
    BY <2>2 DEF places
  <2>7. key \in Injection(places, keys)
    BY <2>5, <2>6 DEF Injection, IsInjective
  <2>8. key \in Surjection(places, keys)
    BY <2>4, <2>6 DEF Surjection, places
  <2> QED
    BY <2>7, <2>8 DEF Bijection, places
<1>5. IsFiniteSet(1..n) /\ Cardinality(1..n) = n
  <2>1. n \in Nat /\ n \in Int /\ 1 \in Int
    BY <1>1
  <2> HIDE DEF windows, key
  <2>2. /\ IsFiniteSet(1..n)
        /\ Cardinality(1..n) = IF 1 > n THEN 0 ELSE n - 1 + 1
    BY ONLY <2>1, FS_Interval
  <2> QED
    BY ONLY <2>1, <2>2
<1> HIDE DEF key
<1>6. ExistsBijection(1..n, keys)
  BY <1>4 DEF ExistsBijection
<1>7. Cardinality(keys) = n
  BY <1>5, <1>6, FS_Bijection
<1> QED
  BY <1>7 DEF keys, n

\* Limits with ids of their own, and a name that says the length of one window at most.
OwnIds(limits) ==
    \A i, j \in DOMAIN limits : i # j => Codex!LimitId(limits[i]) # Codex!LimitId(limits[j])
SaysOne(limit) == limit.name # None => \A a, b \in limit.name.says : a = b

LEMMA LimitKeyed ==
    ASSUME NEW limit
    PROVE  /\ Keyed(Codex!LimitWindows(limit))
           /\ \A w \in ToSet(Codex!LimitWindows(limit)) :
                 /\ w.id \in {<<Codex!LimitId(limit), "primary">>, <<Codex!LimitId(limit), "secondary">>}
                 /\ w.meter = "plan"
<1> DEFINE p == Codex!PlanAllowance(limit, "primary", limit.primary)
           s == Codex!PlanAllowance(limit, "secondary", limit.secondary)
           a == IF limit.primary = None THEN <<>> ELSE <<p>>
           b == IF limit.secondary = None THEN <<>> ELSE <<s>>
<1>1. Codex!LimitWindows(limit) = a \o b
  BY Zenon DEF Codex!LimitWindows
<1>2. /\ p.id = <<Codex!LimitId(limit), "primary">> /\ p.meter = "plan"
      /\ s.id = <<Codex!LimitId(limit), "secondary">> /\ s.meter = "plan"
  BY DEF Codex!PlanAllowance, Codex!Window
<1>3. p.id # s.id
  BY <1>2
<1> HIDE DEF p, s
<1>4. Keyed(a) /\ ToSet(a) \subseteq {p} /\ Keyed(b) /\ ToSet(b) \subseteq {s}
  BY KeyedNone, KeyedOne, ListedNone, ListedOne
<1> HIDE DEF a, b
<1>5. Apart(a, b)
  BY <1>3, <1>4 DEF Apart
<1>6. Keyed(a \o b) /\ ToSet(a \o b) = ToSet(a) \cup ToSet(b)
  BY <1>4, <1>5, KeyedBoth
<1> QED
  BY <1>1, <1>2, <1>4, <1>6

LEMMA CreditsKeyed ==
    ASSUME NEW raw
    PROVE  /\ Keyed(Codex!CreditWindows(raw))
           /\ \A w \in ToSet(Codex!CreditWindows(raw)) :
                 w.id = <<"codex", "purchased-credits">> /\ w.meter = "purchased"
<1> DEFINE w == Codex!Window(<<"codex", "purchased-credits">>, "purchased",
                             <<"purchased credits">>, None, raw.main.credits.unlimited, None, "ok")
<1>1. Codex!CreditWindows(raw) = <<>> \/ Codex!CreditWindows(raw) = <<w>>
  BY Zenon DEF Codex!CreditWindows
<1>2. w.id = <<"codex", "purchased-credits">> /\ w.meter = "purchased"
  BY DEF Codex!Window
<1> HIDE DEF w
<1> QED
  BY <1>1, <1>2, KeyedNone, KeyedOne, ListedNone, ListedOne

\* The windows of a Codex account have ids of their own where its limits have.
LEMMA CodexKeyed ==
    ASSUME NEW raw \in Codex!RawReports, Codex!CodexAccount(raw) # Refused,
           OwnIds(Codex!RateLimits(raw))
    PROVE  /\ Keyed(Codex!CodexAccount(raw).allowances)
           /\ \A w : w \in ToSet(Codex!CodexAccount(raw).allowances)
                       <=> \/ \E limit \in ToSet(Codex!RateLimits(raw)) : w \in ToSet(Codex!LimitWindows(limit))
                           \/ w \in ToSet(Codex!CreditWindows(raw))
<1> DEFINE account == Codex!CodexAccount(raw)
           limits == Codex!RateLimits(raw)
           parts == [i \in DOMAIN limits |-> Codex!LimitWindows(limits[i])]
           windows == Codex!FlattenSeq(parts)
           credits == Codex!CreditWindows(raw)
           buckets == [i \in DOMAIN raw.days |-> Codex!UsageBucket(raw.days[i])]
           bad == \/ Codex!QuantityRefused(raw)
                  \/ \E row \in Codex!ToSet(raw.days) : ~Codex!IsDate(row.date)
           plan == Codex!PlanAccount("codex-local", "codex", "openai.plan", windows \o credits, buckets)
<1>1. account = IF bad THEN Refused ELSE plan
  BY Zenon DEF Codex!CodexAccount
<1>2. account = plan
  <2> HIDE DEF bad, plan, account
  <2>1. account # Refused
    BY DEF account
  <2> QED
    BY <1>1, <2>1, Zenon
<1> HIDE DEF bad
<1>3. account.allowances = windows \o credits
  <2> HIDE DEF windows, credits, buckets, account
  <2> QED
    BY <1>2, Zenon DEF Codex!PlanAccount
<1>4. limits \in Seq(Codex!RawRateLimits)
  BY LimitsAre
<1>5. DOMAIN limits = 1..Len(limits) /\ Len(limits) \in Nat
  BY <1>4
<1>6. Listed(parts)
  <2> HIDE DEF limits
  <2>1. DOMAIN parts = 1..Len(limits) /\ parts = [i \in 1..Len(limits) |-> parts[i]]
    BY <1>5
  <2> HIDE DEF parts
  <2> QED
    BY <1>5, <2>1, ListedMap
<1>7. DOMAIN parts = DOMAIN limits /\ \A i \in DOMAIN parts : parts[i] = Codex!LimitWindows(limits[i])
  BY Zenon
<1>8. windows = FlattenSeq(parts)
  BY CodexFlatten
<1>9. \A i, j \in DOMAIN limits : i # j => Codex!LimitId(limits[i]) # Codex!LimitId(limits[j])
  BY Zenon DEF OwnIds
<1> HIDE DEF limits, windows, credits, parts, account, plan, buckets
<1>10. \A i \in DOMAIN parts : Keyed(parts[i])
  BY <1>7, LimitKeyed
<1>11. ASSUME NEW i \in DOMAIN parts, NEW j \in DOMAIN parts, i # j
       PROVE  Apart(parts[i], parts[j])
  <2>1. ASSUME NEW x \in ToSet(parts[i]), NEW y \in ToSet(parts[j]), x.id = y.id PROVE FALSE
    <3>1. /\ x.id \in {<<Codex!LimitId(limits[i]), "primary">>, <<Codex!LimitId(limits[i]), "secondary">>}
          /\ y.id \in {<<Codex!LimitId(limits[j]), "primary">>, <<Codex!LimitId(limits[j]), "secondary">>}
      BY <1>7, <2>1, LimitKeyed
    <3>2. Codex!LimitId(limits[i]) # Codex!LimitId(limits[j])
      BY <1>7, <1>9, <1>11
    <3> QED
      BY <2>1, <3>1, <3>2
  <2> QED
    BY <2>1 DEF Apart
<1>12. Keyed(windows)
  BY <1>6, <1>8, <1>10, <1>11, KeyedFlat
<1>13. \A i \in DOMAIN parts : Listed(parts[i])
  BY <1>10 DEF Keyed
<1>14. ToSet(windows) = UNION {ToSet(s) : s \in ToSet(parts)}
  <2>1. \A s \in ToSet(parts) : Listed(s)
    BY <1>13 DEF ToSet
  <2> QED
    BY <1>6, <1>8, <2>1, ListedFlat
<1>15. Apart(windows, credits)
  <2>1. ASSUME NEW x \in ToSet(windows), NEW y \in ToSet(credits), x.id = y.id PROVE FALSE
    <3>1. PICK s \in ToSet(parts) : x \in ToSet(s)
      BY <1>14
    <3>2. PICK i \in DOMAIN parts : s = parts[i]
      BY <3>1 DEF ToSet
    <3>3. x.id \in {<<Codex!LimitId(limits[i]), "primary">>, <<Codex!LimitId(limits[i]), "secondary">>}
      BY <1>7, <3>1, <3>2, LimitKeyed
    <3>4. y.id = <<"codex", "purchased-credits">>
      BY <2>1, CreditsKeyed DEF credits
    <3> QED
      BY <2>1, <3>3, <3>4
  <2> QED
    BY <2>1 DEF Apart
<1>16. Keyed(credits)
  BY CreditsKeyed DEF credits
<1>17. Keyed(windows \o credits) /\ ToSet(windows \o credits) = ToSet(windows) \cup ToSet(credits)
  BY <1>12, <1>15, <1>16, KeyedBoth
<1>18. \A w : w \in ToSet(windows)
                <=> \E limit \in ToSet(limits) : w \in ToSet(Codex!LimitWindows(limit))
  <2>1. ToSet(limits) = {limits[i] : i \in DOMAIN limits} /\ ToSet(parts) = {parts[i] : i \in DOMAIN parts}
    BY Zenon DEF ToSet
  <2>2. \A w : w \in ToSet(windows) <=> \E i \in DOMAIN parts : w \in ToSet(parts[i])
    BY <1>14, <2>1
  <2> QED
    BY <1>7, <2>1, <2>2
<1> QED
  BY <1>3, <1>17, <1>18 DEF account, limits, credits

\* Windows of different lengths have different words.
LEMMA TokensDiffer ==
    ASSUME NEW a \in Nat, NEW b \in Nat, a # b
    PROVE  Codex!WindowToken(a) # Codex!WindowToken(b)
<1>1. Codex!DayMinutes = 1440
  BY DEF Codex!DayMinutes
<1> DEFINE Token(d) == IF d = 1440 THEN <<0, "daily">>
                       ELSE IF d = 10080 THEN <<0, "weekly">>
                       ELSE IF d % 1440 = 0 THEN <<d \div 1440, "d">>
                       ELSE IF d % 60 = 0 THEN <<d \div 60, "h">>
                       ELSE <<d, "m">>
<1>2. Codex!WindowToken(a) = Token(a) /\ Codex!WindowToken(b) = Token(b)
  BY <1>1 DEF Codex!WindowToken
<1>3. \A d \in Nat : /\ d = 1440 * (d \div 1440) + (d % 1440) /\ d \div 1440 \in Nat
                    /\ d = 60 * (d \div 60) + (d % 60) /\ d \div 60 \in Nat
  OBVIOUS
<1>4. Token(a) # Token(b)
  BY <1>3
<1> QED
  BY <1>2, <1>4

\* The two windows of a limit of which the lengths differ have labels of their own.
LEMMA LabelsDiffer ==
    ASSUME NEW limit, limit.primary # None, limit.secondary # None,
           limit.primary.duration \in Nat, limit.secondary.duration \in Nat,
           limit.primary.duration # limit.secondary.duration, SaysOne(limit)
    PROVE  Codex!PlanAllowance(limit, "primary", limit.primary).label
             # Codex!PlanAllowance(limit, "secondary", limit.secondary).label
<1> DEFINE a == limit.primary.duration
           b == limit.secondary.duration
           s == Codex!WindowToken(a)
           t == Codex!WindowToken(b)
           Label(d) == IF limit.name = None THEN Codex!WindowLabel(d) ELSE Codex!NamedLimitLabel(limit, d)
<1>1. /\ Codex!PlanAllowance(limit, "primary", limit.primary).label = Label(a)
      /\ Codex!PlanAllowance(limit, "secondary", limit.secondary).label = Label(b)
  BY DEF Codex!PlanAllowance, Codex!Window
<1>2. a # None /\ b # None
  BY NoneAssumption
<1>3. s # t
  BY TokensDiffer
<1>4. CASE limit.name = None
  <2>1. Label(a) = <<s>> /\ Label(b) = <<t>>
    BY <1>2, <1>4, Zenon DEF Codex!WindowLabel
  <2> HIDE DEF Label, s, t
  <2>2. Label(a) # Label(b)
    BY <1>3, <2>1
  <2> QED
    BY <1>1, <2>2
<1>5. CASE limit.name # None
  <2> DEFINE n == limit.name.text
             says == limit.name.says
  <2>1. /\ Label(a) = IF s \notin says THEN <<n, s>> ELSE <<n>>
        /\ Label(b) = IF t \notin says THEN <<n, t>> ELSE <<n>>
    BY <1>2, <1>5, Zenon DEF Codex!NamedLimitLabel
  <2>2. ~(s \in says /\ t \in says)
    BY <1>3, <1>5, Zenon DEF SaysOne
  <2> HIDE DEF Label, s, t, n, says
  <2>3. /\ <<n, s>> # <<n, t>> /\ <<n, s>> # <<n>> /\ <<n>> # <<n, t>>
    BY <1>3
  <2>4. Label(a) # Label(b)
    BY <2>1, <2>2, <2>3, Zenon
  <2> QED
    BY <1>1, <2>4
<1> QED
  BY <1>4, <1>5

LEMMA CodexLabelled ==
    ASSUME NEW raw \in Codex!RawReports, Codex!CodexAccount(raw) # Refused,
           OwnIds(Codex!RateLimits(raw)),
           NEW limit \in ToSet(Codex!RateLimits(raw)), SaysOne(limit),
           Cardinality({w.duration : w \in {limit.primary, limit.secondary} \ {None}} \ {None}) = 2
    PROVE  Cardinality({w.label : w \in {v \in ToSet(Codex!CodexAccount(raw).allowances) :
                                            v.meter = "plan" /\ v.id[1] = Codex!LimitId(limit)}}) = 2
<1> DEFINE limits == Codex!RateLimits(raw)
           shown == ToSet(Codex!CodexAccount(raw).allowances)
           durations == {w.duration : w \in {limit.primary, limit.secondary} \ {None}} \ {None}
           p == Codex!PlanAllowance(limit, "primary", limit.primary)
           q == Codex!PlanAllowance(limit, "secondary", limit.secondary)
           own == {v \in shown : v.meter = "plan" /\ v.id[1] = Codex!LimitId(limit)}
           labels == {w.label : w \in own}
<1>1. limit \in Codex!RawRateLimits
  BY LimitsAre DEF ToSet
<1>2. /\ limit.primary \in Option(Codex!RawRateLimitWindows)
      /\ limit.secondary \in Option(Codex!RawRateLimitWindows)
  BY <1>1, CodexRaw
<1>3. /\ limit.primary # None => limit.primary.duration \in Option(Nat)
      /\ limit.secondary # None => limit.secondary.duration \in Option(Nat)
  BY <1>2, CodexRaw DEF Option
<1>4. /\ limit.primary # None /\ limit.primary.duration # None
      /\ limit.secondary # None /\ limit.secondary.duration # None
      /\ limit.primary.duration # limit.secondary.duration
  <2>1. Cardinality(durations) = 2
    OBVIOUS
  <2>2. \A x : \A S : S \subseteq {x} => Cardinality(S) \in {0, 1}
    <3> TAKE x
    <3> TAKE S
    <3> HAVE S \subseteq {x}
    <3>1. S = {} \/ S = {x}
      OBVIOUS
    <3> QED
      BY <3>1, FS_EmptySet, FS_Singleton
  <2>3. \A x : ~(durations \subseteq {x})
    <3> HIDE DEF durations
    <3> QED
      BY <2>1, <2>2
  <2>4. CASE limit.primary = None \/ limit.primary.duration = None
    <3>1. durations \subseteq {limit.secondary.duration}
      BY <2>4
    <3> QED
      BY <2>3, <3>1
  <2>5. CASE limit.secondary = None \/ limit.secondary.duration = None
    <3>1. durations \subseteq {limit.primary.duration}
      BY <2>5
    <3> QED
      BY <2>3, <3>1
  <2>6. CASE limit.primary.duration = limit.secondary.duration
    <3>1. durations \subseteq {limit.primary.duration}
      BY <2>6
    <3> QED
      BY <2>3, <3>1
  <2> QED
    BY <2>4, <2>5, <2>6
<1>5. limit.primary.duration \in Nat /\ limit.secondary.duration \in Nat
  BY <1>3, <1>4 DEF Option
<1>6. p.label # q.label
  BY <1>4, <1>5, LabelsDiffer
<1>7. /\ p.id = <<Codex!LimitId(limit), "primary">> /\ p.meter = "plan"
      /\ q.id = <<Codex!LimitId(limit), "secondary">> /\ q.meter = "plan"
  BY DEF Codex!PlanAllowance, Codex!Window
<1>8. ToSet(Codex!LimitWindows(limit)) = {p, q}
  <2>1. Codex!LimitWindows(limit) = <<p>> \o <<q>>
    BY <1>4, Zenon DEF Codex!LimitWindows
  <2> HIDE DEF p, q
  <2>2. ToSet(<<p>> \o <<q>>) = {p} \cup {q}
    BY ListedOne, ListedBoth
  <2> QED
    BY <2>1, <2>2
<1>9. own = {p, q}
  <2> HIDE DEF p, q, limits
  <2>1. \A w : w \in shown <=> \/ \E l \in ToSet(limits) : w \in ToSet(Codex!LimitWindows(l))
                               \/ w \in ToSet(Codex!CreditWindows(raw))
    BY CodexKeyed DEF limits
  <2> HIDE DEF shown
  <2>2. p \in own /\ q \in own
    <3>1. p \in shown /\ q \in shown
      BY <1>8, <2>1 DEF limits
    <3> QED
      BY <1>7, <3>1
  <2>3. ASSUME NEW w \in own
        PROVE  w \in {p, q}
    <3>1. w.meter # "purchased"
      OBVIOUS
    <3>2. w \notin ToSet(Codex!CreditWindows(raw))
      BY <3>1, CreditsKeyed
    <3>3. PICK l \in ToSet(limits) : w \in ToSet(Codex!LimitWindows(l))
      BY <2>1, <3>2
    <3>4. w.id \in {<<Codex!LimitId(l), "primary">>, <<Codex!LimitId(l), "secondary">>}
      BY <3>3, LimitKeyed
    <3>5. w.id[1] = Codex!LimitId(limit)
      OBVIOUS
    <3>6. Codex!LimitId(l) = Codex!LimitId(limit)
      BY <3>4, <3>5
    <3>7. PICK i \in DOMAIN limits, j \in DOMAIN limits : l = limits[i] /\ limit = limits[j]
      BY <3>3 DEF ToSet, limits
    <3>8. i = j
      BY <3>6, <3>7 DEF OwnIds, limits
    <3>9. w \in ToSet(Codex!LimitWindows(limit))
      BY <3>3, <3>7, <3>8
    <3> QED
      BY <1>8, <3>9
  <2> QED
    BY <2>2, <2>3
<1>10. labels = {p.label, q.label}
  <2> HIDE DEF p, q, own
  <2> QED
    BY <1>9
<1>11. Cardinality({p.label, q.label}) = 2
  <2> DEFINE S == {p.label}
             x == q.label
  <2>1. IsFiniteSet(S) /\ Cardinality(S) = 1
    BY FS_Singleton
  <2>2. {p.label, q.label} = S \cup {x} /\ x \notin S
    BY <1>6
  <2> HIDE DEF S, x
  <2>3. Cardinality(S \cup {x}) = Cardinality(S) + 1
    BY <2>1, <2>2, FS_AddElement
  <2> QED
    BY <2>1, <2>2, <2>3
<1> QED
  BY <1>10, <1>11

LEMMA ClaudeIdsDiffer ==
    ASSUME NEW i \in 1..4, NEW j \in 1..4, i # j
    PROVE  /\ Claude!WindowIds[i] # Claude!WindowIds[j]
           /\ Claude!WindowIds[i] # "extra-usage"
<1>1. /\ Claude!WindowIds[1] = "five_hour" /\ Claude!WindowIds[2] = "seven_day"
      /\ Claude!WindowIds[3] = "seven_day_opus" /\ Claude!WindowIds[4] = "seven_day_sonnet"
  BY DEF Claude!WindowIds
<1> QED
  BY <1>1

\* The windows of a Claude account have ids of their own.
LEMMA ClaudeKeyed ==
    ASSUME NEW raw \in Claude!RawReports, Claude!ClaudeAccount(raw) # Refused
    PROVE  Keyed(Claude!ClaudeAccount(raw).allowances)
<1> DEFINE account == Claude!ClaudeAccount(raw)
           windows == Claude!Reported(raw)
           extra == Claude!ExtraUsage(raw)
           bad == Refused \in {windows[i].resetsAt : i \in DOMAIN windows}
           plan == Claude!PlanAccount("claude-local", "claude", "anthropic.plan", windows \o extra, <<>>)
           ids == Claude!WindowIds
           Part(i) == IF raw.windows[ids[i]] = None THEN <<>>
                      ELSE <<Claude!PlanWindow(ids[i], raw.windows[ids[i]])>>
           parts == [i \in DOMAIN ids |-> Part(i)]
<1>1. account = IF bad THEN Refused ELSE plan
  BY Zenon DEF Claude!ClaudeAccount
<1>2. account = plan
  <2> HIDE DEF bad, plan, account
  <2>1. account # Refused
    BY DEF account
  <2> QED
    BY <1>1, <2>1, Zenon
<1> HIDE DEF bad
<1>3. account.allowances = windows \o extra
  <2> HIDE DEF windows, extra, account
  <2> QED
    BY <1>2, Zenon DEF Claude!PlanAccount
<1>4. windows = FlattenSeq(parts)
  BY ClaudeFlatten, Zenon DEF Claude!Reported
<1>5. DOMAIN ids = 1..4 /\ \A i \in 1..4 : ids[i] \in WindowNames
  BY ClaudeRaw
<1>6. \A i, j \in 1..4 : i # j => ids[i] # ids[j] /\ ids[i] # "extra-usage"
  BY ClaudeIdsDiffer
<1>7. \A i \in 1..4 : ids[i] # "extra-usage"
  BY <1>6
<1> HIDE DEF ids, account, plan
<1>8. ASSUME NEW i \in 1..4
      PROVE  Keyed(Part(i)) /\ \A w \in ToSet(Part(i)) : w.id = ids[i]
  <2> DEFINE w == Claude!PlanWindow(ids[i], raw.windows[ids[i]])
  <2>1. w.id = ids[i]
    BY DEF Claude!PlanWindow, Claude!Window
  <2>2. Part(i) = <<>> \/ Part(i) = <<w>>
    OBVIOUS
  <2> HIDE DEF w, Part
  <2> QED
    BY <2>1, <2>2, KeyedNone, KeyedOne, ListedNone, ListedOne
<1> HIDE DEF Part
<1>9. Listed(parts) /\ DOMAIN parts = 1..4 /\ \A i \in 1..4 : parts[i] = Part(i)
  <2>1. parts = [i \in 1..4 |-> Part(i)] /\ 4 \in Nat
    BY <1>5
  <2>2. DOMAIN parts = 1..4 /\ parts = [i \in 1..4 |-> parts[i]]
    BY <2>1
  <2>3. \A i \in 1..4 : parts[i] = Part(i)
    BY <2>1
  <2> HIDE DEF parts
  <2> QED
    BY <2>1, <2>2, <2>3, ListedMap
<1> HIDE DEF parts
<1>10. \A i, j \in DOMAIN parts : i # j => Apart(parts[i], parts[j])
  BY <1>6, <1>8, <1>9 DEF Apart
<1>11. Keyed(windows)
  BY <1>4, <1>8, <1>9, <1>10, KeyedFlat
<1>12. \A w \in ToSet(windows) : w.id # "extra-usage"
  <2>1. \A s \in ToSet(parts) : Listed(s)
    BY <1>8, <1>9 DEF ToSet, Keyed
  <2>2. ToSet(windows) = UNION {ToSet(s) : s \in ToSet(parts)}
    BY <1>4, <1>9, <2>1, ListedFlat
  <2>3. \A s \in ToSet(parts) : \E i \in 1..4 : s = Part(i)
    BY <1>9 DEF ToSet
  <2> HIDE DEF windows
  <2> QED
    BY <1>7, <1>8, <2>2, <2>3
<1>13. Keyed(extra) /\ \A w \in ToSet(extra) : w.id = "extra-usage"
  <2> DEFINE w == Claude!Window("extra-usage", "purchased", "extra-usage", raw.extra.percent, FALSE, None,
                                Claude!PercentStatus(raw.extra.percent))
  <2>1. w.id = "extra-usage"
    BY DEF Claude!Window
  <2>2. extra = <<>> \/ extra = <<w>>
    BY Zenon DEF Claude!ExtraUsage
  <2> HIDE DEF w, extra
  <2> QED
    BY <2>1, <2>2, KeyedNone, KeyedOne, ListedNone, ListedOne
<1> HIDE DEF windows, extra
<1>14. Apart(windows, extra)
  BY <1>12, <1>13 DEF Apart
<1>15. Keyed(windows \o extra)
  BY <1>11, <1>13, <1>14, KeyedBoth
<1> QED
  BY <1>3, <1>15 DEF account

\* The windows of a Cursor plan have ids of their own.
LEMMA CursorPlanKeyed ==
    ASSUME NEW raw
    PROVE  Keyed(Cursor!CursorPlanAccount(raw).allowances)
<1> DEFINE plan == Cursor!PlanWindows(raw)
           demand == Cursor!OnDemandWindows(raw)
           meter == raw.plan
           percent == IF meter.total # None THEN meter.total ELSE Cursor!PercentOf(meter)
           Of(id, value) == Cursor!Window(id, "plan", id, value, raw.unlimited = TRUE, raw.cycleEnd,
                                          Cursor!PercentStatus(value))
           only == Of("cursor-plan", percent)
           more == Cursor!Window("cursor-on-demand", "purchased", "cursor-on-demand",
                                 Cursor!PercentOf(raw.onDemand), FALSE, raw.cycleEnd,
                                 Cursor!PercentStatus(Cursor!PercentOf(raw.onDemand)))
           models == Cursor!Pool(raw, "cursor-plan-models", meter.auto)
           other == Cursor!Pool(raw, "cursor-plan-other", meter.api)
           With(s, id) == Keyed(s) /\ \A w \in ToSet(s) : w.id = id
<1>1. Cursor!CursorPlanAccount(raw).allowances = plan \o demand
  BY Zenon DEF Cursor!CursorPlanAccount, Cursor!PlanAccount
<1>2. /\ plan \in {<<>>, <<only>>, models \o other}
      /\ demand \in {<<>>, <<more>>}
  BY Zenon DEF Cursor!PlanWindows, Cursor!OnDemandWindows
<1>3. ASSUME NEW id, NEW value
      PROVE  With(Cursor!Pool(raw, id, value), id) /\ Of(id, value).id = id
  <2>1. Cursor!Pool(raw, id, value) \in {<<>>, <<Of(id, value)>>}
    BY Zenon DEF Cursor!Pool
  <2>2. Of(id, value).id = id
    BY DEF Cursor!Window
  <2> HIDE DEF Of
  <2> QED
    BY <2>1, <2>2, KeyedNone, KeyedOne, ListedNone, ListedOne
<1>4. only.id = "cursor-plan" /\ more.id = "cursor-on-demand"
  BY DEF Cursor!Window
<1>5. With(models, "cursor-plan-models") /\ With(other, "cursor-plan-other")
  BY <1>3
<1> HIDE DEF plan, demand, only, more, models, other
<1>6. Apart(models, other)
  BY <1>5 DEF Apart
<1>7. /\ Keyed(models \o other)
      /\ \A w \in ToSet(models \o other) : w.id \in {"cursor-plan-models", "cursor-plan-other"}
  BY <1>5, <1>6, KeyedBoth
<1>8. Keyed(plan) /\ \A w \in ToSet(plan) : w.id # "cursor-on-demand"
  BY <1>2, <1>4, <1>7, KeyedNone, KeyedOne, ListedNone, ListedOne
<1>9. Keyed(demand) /\ \A w \in ToSet(demand) : w.id = "cursor-on-demand"
  BY <1>2, <1>4, KeyedNone, KeyedOne, ListedNone, ListedOne
<1>10. Apart(plan, demand)
  BY <1>8, <1>9 DEF Apart
<1> QED
  BY <1>1, <1>8, <1>9, <1>10, KeyedBoth

\* What a plan answered is one of the reports it may answer.
KnownSummary == source # None /\ source \in DOMAIN Summaries => report \in Summaries[source]

LEMMA SummaryInit == Init => KnownSummary
  BY DEF Init, KnownSummary

LEMMA SummaryStep == KnownSummary /\ [Next]_vars => KnownSummary'
<1> SUFFICES ASSUME KnownSummary, [Next]_vars PROVE KnownSummary'
  OBVIOUS
<1>1. ASSUME NEW p \in DOMAIN Summaries, AskPlan(p) PROVE KnownSummary'
  BY <1>1 DEF AskPlan, KnownSummary
<1>2. ASSUME NEW o \in DOMAIN Pages, o \in DOMAIN Summaries PROVE FALSE
  BY <1>2, ReportAssumption DEF Plans, Platforms
<1>3. ASSUME NEW o \in DOMAIN Pages, AskPlatform(o) PROVE KnownSummary'
  BY <1>2, <1>3 DEF AskPlatform, KnownSummary
<1>4. ASSUME NEW feed \in Feeds, Page(feed) PROVE KnownSummary'
  BY <1>2, <1>4 DEF Page, KnownSummary
<1>5. CASE Answer
  BY <1>5 DEF Answer, KnownSummary
<1>6. CASE Close
  BY <1>6 DEF Close, KnownSummary
<1>7. CASE UNCHANGED vars
  BY <1>7 DEF vars, KnownSummary
<1> QED
  BY <1>1, <1>3, <1>4, <1>5, <1>6, <1>7 DEF Next

\* The limits a Codex account may answer have ids of their own, and none has a name
\* that says the lengths of both its windows.
LimitsToldApart ==
    "codex" \in DOMAIN Summaries =>
        \A raw \in Summaries["codex"] :
            /\ OwnIds(Codex!RateLimits(raw))
            /\ \A limit \in ToSet(Codex!RateLimits(raw)) : SaysOne(limit)

LEMMA WindowsHold ==
    ASSUME LimitsToldApart, ReportInv, KnownSummary PROVE WindowsToldApart
<1> SUFFICES ASSUME source \in Plans, Accepted
             PROVE  /\ Cardinality(KeysOf(WindowsOf(envelope.payload))) = Len(Account.allowances)
                    /\ source = "codex" =>
                          \A limit \in ToSet(Codex!RateLimits(report)) :
                              Cardinality({w.duration : w \in {limit.primary, limit.secondary} \ {None}}
                                             \ {None}) = 2 =>
                                Cardinality({w.label : w \in {v \in ToSet(Account.allowances) :
                                      v.meter = "plan" /\ v.id[1] = Codex!LimitId(limit)}}) = 2
  BY Zenon DEF WindowsToldApart
<1>1. /\ source # None /\ Account = Normalize(source, report) /\ Account # Refused
      /\ envelope.payload.accounts = <<Account>>
  BY ShownIs
<1>2. source \in DOMAIN Summaries /\ report \in RawReports(source)
  BY <1>1, ReportAssumption DEF ReportInv, Plans, Platforms
<1>3. report \in Summaries[source]
  BY <1>1, <1>2 DEF KnownSummary
<1> HIDE DEF Account
<1>4. CASE source = "codex"
  <2>1. Account = Codex!CodexAccount(report) /\ report \in Codex!RawReports
    BY <1>1, <1>2, <1>4 DEF Normalize, RawReports
  <2>2. /\ OwnIds(Codex!RateLimits(report))
        /\ \A limit \in ToSet(Codex!RateLimits(report)) : SaysOne(limit)
    BY <1>2, <1>3, <1>4 DEF LimitsToldApart
  <2>3. Codex!CodexAccount(report) # Refused
    BY <1>1, <2>1
  <2>4. Keyed(Account.allowances)
    BY <2>1, <2>2, <2>3, CodexKeyed
  <2>5. Cardinality(KeysOf(WindowsOf(envelope.payload))) = Len(Account.allowances)
    BY <1>1, <2>4, KeysCounted
  <2>6. ASSUME NEW limit \in ToSet(Codex!RateLimits(report)),
               Cardinality({w.duration : w \in {limit.primary, limit.secondary} \ {None}} \ {None}) = 2
        PROVE  Cardinality({w.label : w \in {v \in ToSet(Account.allowances) :
                                v.meter = "plan" /\ v.id[1] = Codex!LimitId(limit)}}) = 2
    <3>1. SaysOne(limit)
      BY <2>2
    <3>2. Cardinality({w.label : w \in {v \in ToSet(Codex!CodexAccount(report).allowances) :
                                v.meter = "plan" /\ v.id[1] = Codex!LimitId(limit)}}) = 2
      BY <2>1, <2>2, <2>3, <2>6, <3>1, CodexLabelled
    <3> QED
      BY <2>1, <3>2, Zenon
  <2> QED
    BY <2>5, <2>6
<1>5. CASE source = "claude"
  <2>1. Account = Claude!ClaudeAccount(report) /\ report \in Claude!RawReports
    BY <1>1, <1>2, <1>5 DEF Normalize, RawReports
  <2>2. Keyed(Account.allowances)
    BY <1>1, <2>1, ClaudeKeyed
  <2> QED
    BY <1>1, <1>5, <2>2, KeysCounted
<1>6. CASE source = "cursorPlan"
  <2>1. Account = Cursor!CursorPlanAccount(report)
    BY <1>1, <1>6 DEF Normalize
  <2>2. Keyed(Account.allowances)
    BY <2>1, CursorPlanKeyed
  <2> QED
    BY <1>1, <1>6, <2>2, KeysCounted
<1> QED
  BY <1>4, <1>5, <1>6 DEF Plans

LEMMA SummaryStays == Spec => [](ReportInv /\ KnownSummary)
<1>1. Init => ReportInv /\ KnownSummary
  BY ReportInit, SummaryInit
<1>2. (ReportInv /\ KnownSummary) /\ [Next]_vars => (ReportInv /\ KnownSummary)'
  BY ReportStep, SummaryStep
<1> QED
  BY <1>1, <1>2, PTL DEF Spec

\* Where a Codex account's limits have ids of their own, and no name that says both
\* lengths of its limit, every window a plan shows has a key of its own, and the
\* windows of a limit of which the lengths differ have different labels.
THEOREM ShownWindowsToldApart == LimitsToldApart => (Spec => []WindowsToldApart)
<1> SUFFICES ASSUME LimitsToldApart
             PROVE  Spec => []WindowsToldApart
  OBVIOUS
<1>1. ReportInv /\ KnownSummary => WindowsToldApart
  BY WindowsHold
<1> QED
  BY <1>1, SummaryStays, PTL

===============================================================================
