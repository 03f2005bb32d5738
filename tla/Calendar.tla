------------------------------ MODULE Calendar ------------------------------
(***************************************************************************)
(* The dates the limit code computes with, as JavaScript's Date and the    *)
(* YYYY-MM-DD strings of the database behave. A month is a number,         *)
(* 12 * year + getMonth(), and a date is a number whose order is that of   *)
(* the strings. Workers run in UTC, so local and UTC dates are the same.   *)
(***************************************************************************)
EXTENDS Integers, FiniteSets

MonthNo(year, month) == 12 * year + month - 1
YearOf(m) == m \div 12

DateNo(m, day) == 32 * m + day
MonthOf(date) == date \div 32
DayOf(date) == date % 32

Leap(year) == year % 4 = 0 /\ (year % 100 # 0 \/ year % 400 = 0)

\* new Date(year, month + 1, 0).getDate()
DaysIn(m) ==
  CASE m % 12 = 1               -> IF Leap(YearOf(m)) THEN 29 ELSE 28
    [] m % 12 \in {3, 5, 8, 10} -> 30
    [] OTHER                    -> 31

DatesOf(m) == {DateNo(m, day) : day \in 1 .. DaysIn(m)}

\* Days of the years before, and of the months before in a common year.
DaysBeforeYear(year) ==
  365 * (year - 1) + (year - 1) \div 4 - (year - 1) \div 100 + (year - 1) \div 400

DaysBeforeMonth ==
  [k \in 0..11 |-> <<0, 31, 59, 90, 120, 151, 181, 212, 243, 273, 304, 334>>[k + 1]]

\* The number of a day, counted from Monday 1 January of year 1 = 1.
DayNumber(date) ==
  LET m == MonthOf(date)
  IN  DaysBeforeYear(YearOf(m)) + DaysBeforeMonth[m % 12] + DayOf(date)
        + (IF m % 12 > 1 /\ Leap(YearOf(m)) THEN 1 ELSE 0)

\* getDay(): 0 is Sunday.
Weekday(date) == DayNumber(date) % 7

\* Mutant: Saturdays are business days.
SundayOnly(date) == Weekday(date) = 0

Weekend(date) == Weekday(date) \in {0, 6}

\* What Date makes of a day past the end of the month: the days left over in
\* the next one.
Normalised(m, day) ==
  IF day > DaysIn(m) THEN DateNo(m + 1, day - DaysIn(m)) ELSE DateNo(m, day)

\* d.setMonth(d.getMonth() + n)
PlusMonths(date, n) == Normalised(MonthOf(date) + n, DayOf(date))

Tomorrow(date) == Normalised(MonthOf(date), DayOf(date) + 1)
=============================================================================
