--------------------------- MODULE Calendar_proofs ---------------------------
(***************************************************************************)
(* The months and days that limits depend on: the stored bid weeks against *)
(* the holidays, and the rules of the two limit engines as the days pass.  *)
(***************************************************************************)
EXTENDS BidWeek, LimitRules, FiniteSetTheorems, TLAPS

-----------------------------------------------------------------------------
(* Dates and months, as numbers.                                           *)

\* A month has between 28 and 31 days, whatever the year.
LEMMA MonthLength ==
  ASSUME NEW m \in Nat
  PROVE  DaysIn(m) \in 28..31
BY DEF DaysIn

\* A date is taken apart into the month and the day it was made of.
LEMMA DateParts ==
  ASSUME NEW m \in Nat, NEW day \in 1..31
  PROVE  /\ DateNo(m, day) \in Nat \ {0}
         /\ MonthOf(DateNo(m, day)) = m /\ DayOf(DateNo(m, day)) = day
<1>1. (32 * m + day) \div 32 = m /\ (32 * m + day) % 32 = day
  OBVIOUS
<1>2. QED
  BY <1>1 DEF DateNo, MonthOf, DayOf

\* The dates of a month are numbers up to its last day, and know their month.
LEMMA MonthDates ==
  ASSUME NEW m \in Nat
  PROVE  /\ DatesOf(m) \subseteq Nat \ {0}
         /\ \A d \in DatesOf(m) : d <= 32 * m + 31 /\ MonthOf(d) = m
         /\ IsFiniteSet(DatesOf(m))
<1>1. ASSUME NEW d \in DatesOf(m)
      PROVE  d \in Nat \ {0} /\ d <= 32 * m + 31 /\ MonthOf(d) = m
  <2>1. PICK day \in 1 .. DaysIn(m) : d = DateNo(m, day)
    BY DEF DatesOf
  <2>2. day \in 1..31
    BY MonthLength
  <2>3. QED
    <3>1. d \in Nat \ {0} /\ MonthOf(d) = m
      BY <2>1, <2>2, DateParts
    <3>2. d <= 32 * m + 31
      BY <2>1, <2>2 DEF DateNo
    <3>3. QED
      BY <3>1, <3>2
<1>2. 32 * m + 31 \in Nat /\ DatesOf(m) \in SUBSET Nat
  BY <1>1
<1>3. IsFiniteSet(DatesOf(m))
  BY <1>1, <1>2, FS_BoundedSetOfNaturals
<1>4. QED
  BY <1>1, <1>3

\* Within a month the day of the week advances with the date.
LEMMA DayNumbers ==
  ASSUME NEW m \in Nat
  PROVE  \E c \in Int : \A day \in 1..31 : DayNumber(DateNo(m, day)) = c + day
<1> DEFINE c == DaysBeforeYear(YearOf(m)) + DaysBeforeMonth[m % 12]
                  + (IF m % 12 > 1 /\ Leap(YearOf(m)) THEN 1 ELSE 0)
<1>1. YearOf(m) \in Nat
  BY DEF YearOf
<1>2. DaysBeforeYear(YearOf(m)) \in Int
  BY <1>1 DEF DaysBeforeYear
<1>3. DaysBeforeMonth[m % 12] \in Int
  <2>1. m % 12 \in 0..11
    OBVIOUS
  <2>2. DaysBeforeMonth[m % 12] =
          <<0, 31, 59, 90, 120, 151, 181, 212, 243, 273, 304, 334>>[(m % 12) + 1]
    BY <2>1 DEF DaysBeforeMonth
  <2>3. \A i \in 1..12 : <<0, 31, 59, 90, 120, 151, 181, 212, 243, 273, 304, 334>>[i] \in Int
    OBVIOUS
  <2>4. (m % 12) + 1 \in 1..12
    BY <2>1
  <2>5. QED
    BY <2>2, <2>3, <2>4
<1>4. c \in Int
  BY <1>2, <1>3
<1>5. ASSUME NEW day \in 1..31 PROVE DayNumber(DateNo(m, day)) = c + day
  <2>1. MonthOf(DateNo(m, day)) = m /\ DayOf(DateNo(m, day)) = day
    BY DateParts
  <2>2. DayNumber(DateNo(m, day)) =
          DaysBeforeYear(YearOf(m)) + DaysBeforeMonth[m % 12] + day
            + (IF m % 12 > 1 /\ Leap(YearOf(m)) THEN 1 ELSE 0)
    BY <2>1 DEF DayNumber
  <2>3. QED
    BY <2>2, <1>2, <1>3
<1>6. QED
  BY <1>4, <1>5

\* Every date of a month has a weekday, and a date that is not of a weekend is
\* a Monday to Friday.
LEMMA DayOfWeek ==
  ASSUME NEW m \in Nat, NEW d \in DatesOf(m)
  PROVE  Weekday(d) \in 0..6 /\ (~Weekend(d) => Weekday(d) \in 1..5)
<1>1. PICK c \in Int : \A day \in 1..31 : DayNumber(DateNo(m, day)) = c + day
  BY DayNumbers
<1>2. PICK day \in 1 .. DaysIn(m) : d = DateNo(m, day)
  BY DEF DatesOf
<1>3. day \in 1..31
  BY MonthLength
<1>4. Weekday(d) = (c + day) % 7
  BY <1>1, <1>2, <1>3 DEF Weekday
<1>5. (c + day) \in Int
  BY <1>3
<1>6. QED
  BY <1>4, <1>5 DEF Weekend

\* No month is all weekend: of its first three days one is a weekday.
LEMMA HasWeekdays ==
  ASSUME NEW m \in ScheduleMonths
  PROVE  Weekdays[m] # {}
<1>0. m \in Nat
  BY CalendarAssumption
<1>1. PICK c \in Int : \A day \in 1..31 : DayNumber(DateNo(m, day)) = c + day
  BY <1>0, DayNumbers
<1>2. \A day \in 1..3 : Weekday(DateNo(m, day)) = (c + day) % 7
  BY <1>1 DEF Weekday
<1>3. (c + 1) % 7 \notin {0, 6} \/ (c + 2) % 7 \notin {0, 6} \/ (c + 3) % 7 \notin {0, 6}
  OBVIOUS
<1>4. \E day \in 1..3 : ~Weekend(DateNo(m, day))
  BY <1>2, <1>3 DEF Weekend
<1>5. \A day \in 1..3 : DateNo(m, day) \in DatesOf(m)
  BY <1>0, MonthLength DEF DatesOf
<1>6. QED
  BY <1>4, <1>5 DEF Weekdays

-----------------------------------------------------------------------------
(* Earliest and latest days.                                               *)

\* A set of dates that is not empty has an earliest.
LEMMA EarliestDay ==
  ASSUME NEW S \in SUBSET Nat, S # {}
  PROVE  Earliest(S) \in S /\ \A e \in S : Earliest(S) <= e
<1>1. \E n \in S : \A k \in S : ~(<<k, n>> \in OpToRel(<, Nat))
  BY NatLessThanWellFounded, WFMin
<1>2. PICK n \in S : \A k \in S : ~(<<k, n>> \in OpToRel(<, Nat))
  BY <1>1
<1>3. \A k \in S : n <= k
  <2>1. TAKE k \in S
  <2>2. ~(k < n)
    BY <1>2 DEF OpToRel
  <2>3. QED
    BY <2>2
<1>4. QED
  BY <1>3 DEF Earliest

\* A set of dates that is bounded and not empty has a latest.
LEMMA LatestDay ==
  ASSUME NEW S \in SUBSET Nat, S # {}, NEW bound \in Nat, \A e \in S : e <= bound
  PROVE  Latest(S) \in S /\ \A e \in S : e <= Latest(S)
<1> DEFINE R == {bound - e : e \in S}
<1>1. R \in SUBSET Nat /\ R # {}
  <2>1. ASSUME NEW e \in S PROVE bound - e \in Nat
    OBVIOUS
  <2>2. QED
    BY <2>1
<1>2. Earliest(R) \in R /\ \A k \in R : Earliest(R) <= k
  BY <1>1, EarliestDay
<1>3. PICK n \in R : \A k \in R : n <= k
  BY <1>2
<1>4. PICK l \in S : n = bound - l
  OBVIOUS
<1>5. \A e \in S : e <= l
  <2>1. TAKE e \in S
  <2>2. bound - e \in R
    OBVIOUS
  <2>3. bound - l <= bound - e
    BY <1>3, <1>4, <2>2
  <2>4. QED
    BY <2>3
<1>6. QED
  BY <1>5 DEF Latest

\* The weekdays of a month are finitely many dates of it.
LEMMA MonthWeekdays ==
  ASSUME NEW m \in ScheduleMonths
  PROVE  /\ Weekdays[m] = {d \in DatesOf(m) : ~Weekend(d)}
         /\ Weekdays[m] \subseteq DatesOf(m) /\ Weekdays[m] \subseteq Nat \ {0}
         /\ IsFiniteSet(Weekdays[m])
         /\ \A d \in Weekdays[m] : d <= 32 * m + 31
<1>0. m \in Nat
  BY CalendarAssumption
<1>1. Weekdays[m] = {d \in DatesOf(m) : ~Weekend(d)}
  BY DEF Weekdays
<1>2. Weekdays[m] \in SUBSET DatesOf(m)
  BY <1>1
<1>3. IsFiniteSet(Weekdays[m])
  BY <1>0, <1>2, MonthDates, FS_Subset
<1>4. QED
  BY <1>0, <1>1, <1>2, <1>3, MonthDates

\* The scan of a month starts at its latest weekday.
LEMMA LatestWeekday ==
  ASSUME NEW m \in ScheduleMonths
  PROVE  Latest(Weekdays[m]) \in Weekdays[m] /\ \A d \in Weekdays[m] : d <= Latest(Weekdays[m])
<1>1. 32 * m + 31 \in Nat /\ Weekdays[m] \in SUBSET Nat
  BY CalendarAssumption, MonthWeekdays
<1>2. QED
  BY <1>1, MonthWeekdays, HasWeekdays, LatestDay

\* The scan steps from a weekday to the one before it, until there is none.
LEMMA BeforeDay ==
  ASSUME NEW m \in ScheduleMonths, NEW d \in Weekdays[m]
  PROVE  /\ Before[m][d] = 0 \/ (Before[m][d] \in Weekdays[m] /\ Before[m][d] < d)
         /\ \A e \in Weekdays[m] : e < d => e <= Before[m][d]
<1> DEFINE earlier == {e \in Weekdays[m] : e < d}
<1>1. Before[m][d] = IF earlier = {} THEN 0 ELSE Latest(earlier)
  BY DEF Before
<1>2. CASE earlier = {}
  BY <1>1, <1>2
<1>3. CASE earlier # {}
  <2>1. 32 * m + 31 \in Nat /\ earlier \in SUBSET Nat /\ \A e \in earlier : e <= 32 * m + 31
    BY CalendarAssumption, MonthWeekdays
  <2>2. Latest(earlier) \in earlier /\ \A e \in earlier : e <= Latest(earlier)
    BY <1>3, <2>1, LatestDay
  <2>3. QED
    BY <1>1, <1>3, <2>2
<1>4. QED
  BY <1>2, <1>3

-----------------------------------------------------------------------------
(* The bid week of a month, for the holidays hs of an exchange.            *)

DaysInForce(hs, m) == {d \in Weekdays[m] : GoodBusinessDay(hs, d)}

Defined(hs, exch, date) ==
  LET days == DaysInForce(hs, MonthOf(date))
  IN  /\ \E d \in days : d >= date
      /\ Cardinality({d \in days : d > date}) < DaysCount(exch)

FreshRow(row, hs, exch, m) ==
  \A d \in DatesOf(m) : InBidWeek(row, d) <=> Defined(hs, exch, d)

WellFormedRow(row, exch, m) ==
  /\ {row.start, row.end} \subseteq Weekdays[m]
  /\ Cardinality({d \in Weekdays[m] : InBidWeek(row, d)}) >= DaysCount(exch)
  /\ row.spot = m + 1

\* Weekdays of a month are finitely many numbers, with an earliest and a latest.
LEMMA SomeWeekdays ==
  ASSUME NEW m \in ScheduleMonths, NEW S \in SUBSET Weekdays[m]
  PROVE  /\ S \in SUBSET Nat /\ IsFiniteSet(S) /\ Cardinality(S) \in Nat
         /\ S # {} => /\ Earliest(S) \in S /\ \A e \in S : Earliest(S) <= e
                      /\ Latest(S) \in S /\ \A e \in S : e <= Latest(S)
<1>1. S \in SUBSET Nat /\ IsFiniteSet(Weekdays[m])
  BY MonthWeekdays
<1>2. IsFiniteSet(S)
  BY <1>1, FS_Subset
<1>3. Cardinality(S) \in Nat
  BY <1>2, FS_CardinalityType
<1>4. 32 * m + 31 \in Nat /\ \A e \in S : e <= 32 * m + 31
  <2>1. m \in Nat
    BY CalendarAssumption
  <2>2. \A e \in Weekdays[m] : e <= 32 * m + 31
    BY MonthWeekdays
  <2>3. QED
    BY <2>1, <2>2
<1>5. ASSUME S # {}
      PROVE  /\ Earliest(S) \in S /\ \A e \in S : Earliest(S) <= e
             /\ Latest(S) \in S /\ \A e \in S : e <= Latest(S)
  BY <1>1, <1>4, <1>5, EarliestDay, LatestDay
<1>6. QED
  BY <1>1, <1>2, <1>3, <1>5

\* A bid week is of three days or five.
LEMMA ThreeOrFive ==
  ASSUME NEW exch
  PROVE  DaysCount(exch) \in {3, 5}
BY DEF DaysCount

\* The schedule made of N weekdays of a month is a row of that month, and its
\* bid week spans at least N weekdays.
LEMMA ScheduleRow ==
  ASSUME NEW m \in ScheduleMonths, NEW exch, NEW found \in SUBSET Weekdays[m],
         Cardinality(found) = DaysCount(exch)
  PROVE  Schedule(exch, m, found) \in Row /\ WellFormedRow(Schedule(exch, m, found), exch, m)
<1> DEFINE row == Schedule(exch, m, found)
<1>0. m \in Nat
  BY CalendarAssumption
<1>1. found # {}
  BY FS_EmptySet, ThreeOrFive
<1>2. /\ Earliest(found) \in found /\ \A e \in found : Earliest(found) <= e
      /\ Latest(found) \in found /\ \A e \in found : e <= Latest(found)
  BY <1>1, SomeWeekdays
<1>3. /\ row.start = Earliest(found) /\ row.end = Latest(found)
      /\ row.count = DaysCount(exch) /\ row.spot = m + 1
      /\ row = [start |-> Earliest(found), end |-> Latest(found),
                count |-> DaysCount(exch), spot |-> m + 1]
  BY DEF Schedule
<1>4. Weekdays[m] \subseteq BusinessDates
  <2>1. ASSUME NEW d \in Weekdays[m] PROVE d \in BusinessDates
    <3>1. d \in DatesOf(m) /\ ~Weekend(d)
      BY MonthWeekdays
    <3>2. Weekday(d) \in 1..5
      BY <1>0, <3>1, DayOfWeek
    <3>3. QED
      BY <3>1, <3>2 DEF BusinessDates
  <2>2. QED
    BY <2>1
<1>5. row \in Row
  BY <1>0, <1>2, <1>3, <1>4, ThreeOrFive DEF Row
<1>6. Cardinality({d \in Weekdays[m] : InBidWeek(row, d)}) >= DaysCount(exch)
  <2> DEFINE span == {d \in Weekdays[m] : InBidWeek(row, d)}
  <2>1. IsFiniteSet(span) /\ Cardinality(span) \in Nat
    BY SomeWeekdays
  <2>2. found \in SUBSET span
    BY <1>2, <1>3 DEF InBidWeek
  <2>3. Cardinality(found) <= Cardinality(span)
    BY <2>1, <2>2, FS_Subset
  <2>4. QED
    BY <2>1, <2>3, ThreeOrFive
<1>7. QED
  BY <1>2, <1>3, <1>5, <1>6 DEF WellFormedRow

\* The last N good business days of a month are its bid week by definition:
\* from the first of them to the last, and no other date.
LEMMA LastDaysAreTheWeek ==
  ASSUME NEW m \in ScheduleMonths, NEW exch, NEW hs, NEW found \in SUBSET Weekdays[m],
         Cardinality(found) = DaysCount(exch),
         found = {d \in DaysInForce(hs, m) : d >= Earliest(found)}
  PROVE  FreshRow(Schedule(exch, m, found), hs, exch, m)
<1> DEFINE row == Schedule(exch, m, found)
           good == DaysInForce(hs, m)
           first == Earliest(found)
           last == Latest(found)
<1>0. m \in Nat
  BY CalendarAssumption
<1>1. found # {}
  BY FS_EmptySet, ThreeOrFive
<1>2. /\ first \in found /\ \A e \in found : first <= e
      /\ last \in found /\ \A e \in found : e <= last
      /\ found \in SUBSET Nat /\ IsFiniteSet(found)
  BY <1>1, SomeWeekdays
<1>3. good \in SUBSET Weekdays[m]
  BY DEF DaysInForce
<1>4. good \in SUBSET Nat /\ IsFiniteSet(good)
  BY <1>3, SomeWeekdays
<1>5. row.start = first /\ row.end = last
  BY DEF Schedule
<1>6. found = {d \in good : d >= first}
  OBVIOUS
<1> HIDE DEF good, first, last, row
<1>7. ASSUME NEW x \in DatesOf(m)
      PROVE  InBidWeek(row, x) <=> Defined(hs, exch, x)
  <2> DEFINE after == {d \in good : d > x}
  <2>1. x \in Nat /\ MonthOf(x) = m
    BY <1>0, MonthDates
  <2>2. IsFiniteSet(after) /\ Cardinality(after) \in Nat
    BY <1>3, SomeWeekdays
  <2>3. Defined(hs, exch, x) <=>
          (\E d \in good : d >= x) /\ Cardinality(after) < DaysCount(exch)
    BY <2>1 DEF Defined, good
  <2>4. InBidWeek(row, x) <=> first <= x /\ x <= last
    BY <1>5 DEF InBidWeek
  <2>5. ASSUME first <= x, x <= last
        PROVE  (\E d \in good : d >= x) /\ Cardinality(after) < DaysCount(exch)
    <3>1. last \in good /\ last >= x
      BY <1>2, <1>4, <1>6, <2>1, <2>5
    <3>2. after \in SUBSET (found \ {first})
      <4>1. ASSUME NEW d \in good, d > x PROVE d \in found /\ d # first
        <5>1. d \in Nat /\ first \in Nat
          BY <1>2, <1>4
        <5>2. d >= first /\ d # first
          BY <2>1, <2>5, <4>1, <5>1
        <5>3. QED
          BY <1>6, <5>2
      <4>2. QED
        BY <4>1
    <3>3. /\ IsFiniteSet(found \ {first})
          /\ Cardinality(found \ {first}) = DaysCount(exch) - 1
      BY <1>2, FS_RemoveElement
    <3>4. Cardinality(after) <= DaysCount(exch) - 1
      BY <3>2, <3>3, FS_Subset
    <3>5. Cardinality(after) < DaysCount(exch)
      BY <2>2, <3>4, ThreeOrFive
    <3>6. QED
      BY <3>1, <3>5
  <2>6. ASSUME NEW d \in good, d >= x, Cardinality(after) < DaysCount(exch)
        PROVE  first <= x /\ x <= last
    <3>1. first <= x
      <4>1. SUFFICES ASSUME x < first PROVE FALSE
        BY <1>2, <2>1
      <4>2. found \in SUBSET after
        BY <1>2, <1>4, <1>6, <2>1, <4>1
      <4>3. Cardinality(found) <= Cardinality(after)
        BY <2>2, <4>2, FS_Subset
      <4>4. QED
        BY <2>2, <2>6, <4>3, ThreeOrFive
    <3>2. d <= last
      <4>1. CASE d >= first
        BY <1>2, <1>6, <4>1
      <4>2. CASE ~(d >= first)
        BY <1>2, <1>4, <4>2
      <4>3. QED
        BY <4>1, <4>2
    <3>3. d \in Nat /\ last \in Nat
      BY <1>2, <1>4
    <3>4. QED
      BY <2>1, <2>6, <3>1, <3>2, <3>3
  <2>7. QED
    BY <2>3, <2>4, <2>5, <2>6
<1>8. QED
  BY <1>7 DEF FreshRow, row

\* What the days found become when the scan has asked for day d of month m.
DayAsked(found, more, exch, hs, m, d) ==
  /\ more \in SUBSET Weekdays[m] /\ Cardinality(more) \in Nat
  /\ Cardinality(more) # DaysCount(exch) => Cardinality(more) < DaysCount(exch)
  /\ found = {x \in DaysInForce(hs, m) : x > d} =>
       /\ Before[m][d] # 0 => more = {x \in DaysInForce(hs, m) : x > Before[m][d]}
       /\ Before[m][d] = 0 => more = DaysInForce(hs, m)
       /\ Cardinality(more) = DaysCount(exch) =>
            more = {x \in DaysInForce(hs, m) : x >= Earliest(more)}

\* One day of the scan: when the days found so far are the good business days
\* after d, they are then those from d on. The count does not pass N, and the
\* N-th is the earliest found.
LEMMA ScanDay ==
  ASSUME NEW m \in ScheduleMonths, NEW exch, NEW hs, NEW d \in Weekdays[m],
         NEW found \in SUBSET Weekdays[m], Cardinality(found) < DaysCount(exch),
         NEW more, more = found \cup (IF GoodBusinessDay(hs, d) THEN {d} ELSE {})
  PROVE  DayAsked(found, more, exch, hs, m, d)
<1> DEFINE good == DaysInForce(hs, m)
           before == Before[m][d]
<1>1. found \in SUBSET Nat /\ IsFiniteSet(found) /\ Cardinality(found) \in Nat
  BY SomeWeekdays
<1>2. more \in SUBSET Weekdays[m]
  OBVIOUS
<1>3. more \in SUBSET Nat /\ IsFiniteSet(more) /\ Cardinality(more) \in Nat
  BY <1>2, SomeWeekdays
<1>4. Cardinality(more) <= Cardinality(found) + 1
  <2>1. CASE GoodBusinessDay(hs, d)
    <3>1. Cardinality(found \cup {d}) =
            IF d \in found THEN Cardinality(found) ELSE Cardinality(found) + 1
      BY <1>1, FS_AddElement
    <3>2. Cardinality(more) = Cardinality(found \cup {d})
      BY <2>1
    <3> DEFINE a == Cardinality(found)
               b == Cardinality(more)
    <3>3. b = a \/ b = a + 1
      BY <3>1, <3>2
    <3> HIDE DEF a, b
    <3>4. a \in Nat
      BY <1>1 DEF a
    <3>5. b <= a + 1
      BY <3>3, <3>4
    <3>6. QED
      BY <3>5 DEF a, b
  <2>2. CASE ~GoodBusinessDay(hs, d)
    <3>1. Cardinality(more) = Cardinality(found)
      BY <2>2
    <3>2. \A n \in Nat : n <= n + 1
      OBVIOUS
    <3>3. QED
      BY <1>1, <3>1, <3>2, Zenon
  <2>3. QED
    BY <2>1, <2>2
<1>5. Cardinality(more) # DaysCount(exch) => Cardinality(more) < DaysCount(exch)
  BY <1>1, <1>3, <1>4, ThreeOrFive
<1>6. good \in SUBSET Weekdays[m] /\ good \in SUBSET Nat /\ d \in Nat
  BY MonthWeekdays DEF DaysInForce
<1>7. d \in good <=> GoodBusinessDay(hs, d)
  BY DEF DaysInForce
<1>8. /\ before = 0 \/ (before \in Weekdays[m] /\ before < d)
      /\ \A e \in Weekdays[m] : e < d => e <= before
  BY BeforeDay
<1>9. before \in Nat
  BY <1>8, MonthWeekdays
<1>10. Weekdays[m] \subseteq Nat \ {0}
  BY MonthWeekdays
<1> HIDE DEF good, before
<1>11. ASSUME found = {x \in good : x > d}
       PROVE  /\ before # 0 => more = {x \in good : x > before}
              /\ before = 0 => more = good
              /\ Cardinality(more) = DaysCount(exch) => more = {x \in good : x >= Earliest(more)}
  <2>1. more = {x \in good : x >= d}
    <3>1. ASSUME NEW x PROVE x \in more <=> x \in good /\ x >= d
      <4>1. x \in more <=> (x \in good /\ x > d) \/ (x = d /\ d \in good)
        BY <1>7, <1>11
      <4>2. \A y \in Nat : y >= d <=> y > d \/ y = d
        BY <1>6
      <4>3. x \in good => (x >= d <=> x > d \/ x = d)
        BY <1>6, <4>2
      <4>4. QED
        BY <4>1, <4>3, Zenon
    <3>2. QED
      BY <3>1
  <2>2. ASSUME before # 0 PROVE more = {x \in good : x > before}
    <3>1. ASSUME NEW x \in good PROVE x >= d <=> x > before
      BY <1>6, <1>8, <1>9, <2>2
    <3>2. QED
      BY <2>1, <3>1
  <2>3. ASSUME before = 0 PROVE more = good
    <3>1. ASSUME NEW x \in good PROVE x >= d
      BY <1>6, <1>8, <1>10, <2>3
    <3>2. QED
      BY <2>1, <3>1
  <2>4. ASSUME Cardinality(more) = DaysCount(exch)
        PROVE  more = {x \in good : x >= Earliest(more)}
    <3>1. d \in more
      BY <1>1, <2>4, ThreeOrFive
    <3>2. Earliest(more) \in more /\ \A e \in more : Earliest(more) <= e
      BY <1>2, <3>1, SomeWeekdays
    <3>3. Earliest(more) <= d /\ Earliest(more) >= d
      BY <2>1, <3>1, <3>2
    <3>4. Earliest(more) \in Nat
      BY <1>3, <3>2
    <3>5. Earliest(more) = d
      BY <1>6, <3>3, <3>4
    <3>6. QED
      BY <2>1, <3>5
  <2>5. QED
    BY <2>2, <2>3, <2>4
<1>12. QED
  BY <1>2, <1>3, <1>5, <1>11 DEF good, before, DayAsked

\* When the holidays leave every month enough days, no scan runs out of them.
LEMMA DaysLeft ==
  ASSUME EnoughTradingDays, NEW m \in ScheduleMonths, NEW exch, NEW hs
  PROVE  ~(Cardinality(DaysInForce(hs, m)) < DaysCount(exch))
<1>1. Weekdays[m] \ HolidayDates \in SUBSET DaysInForce(hs, m)
  BY MonthWeekdays DEF DaysInForce, GoodBusinessDay, Holiday
<1>2. DaysInForce(hs, m) \in SUBSET Weekdays[m]
  BY DEF DaysInForce
<1>3. IsFiniteSet(DaysInForce(hs, m)) /\ Cardinality(DaysInForce(hs, m)) \in Nat
  BY <1>2, SomeWeekdays
<1>4. Cardinality(Weekdays[m] \ HolidayDates) <= Cardinality(DaysInForce(hs, m))
  BY <1>1, <1>3, FS_Subset
<1>5. Cardinality(Weekdays[m] \ HolidayDates) >= 5
  BY DEF EnoughTradingDays
<1>6. Cardinality(Weekdays[m] \ HolidayDates) \in Nat
  BY SomeWeekdays
<1>7. QED
  BY <1>3, <1>4, <1>5, <1>6, ThreeOrFive

-----------------------------------------------------------------------------
(* A request, statement by statement.                                      *)

RequestInv(s) ==
  /\ s \in RequestState
  /\ s.pc = "idle" => s = Idle
  /\ s.pc \in {"exists", "change"} => s.changes # << >> /\ s.kind \in ChangeKinds
  /\ s.pc = "exists" => s.months = {} /\ s.years = << >>
  /\ s.pc \in {"need", "select", "scan", "store", "answered"} \/ s.months # {} =>
       s.exch \in Exchanges
  /\ s.pc \in {"scan", "store"} =>
       s.month \in ScheduleMonths /\ s.found \in SUBSET Weekdays[s.month]
  /\ s.pc = "scan" => s.next \in Weekdays[s.month] /\ Cardinality(s.found) < DaysCount(s.exch)
  /\ s.pc = "store" => Cardinality(s.found) = DaysCount(s.exch)
  /\ s.pc = "need" => s.kind = "auto"
  /\ s.pc \in {"select", "answered"} => s.kind = "status"
  /\ s.kind = "status" =>
       /\ s.date \in CheckDates /\ s.months = {} /\ s.years = << >>
       /\ s.pc \in {"scan", "store"} => s.month = MonthOf(s.date)

\* The schedules a change of holidays has still to make again: those of the
\* years noted, of the months left and of the month being scanned.
Listed(s, e, m) ==
  /\ s.kind \in ChangeKinds
  /\ \/ \E i \in DOMAIN s.years : s.years[i] = <<e, YearOf(m)>>
     \/ s.exch = e /\ m \in s.months

Due(s, e, m) ==
  Listed(s, e, m) \/ (/\ s.kind \in ChangeKinds /\ s.exch = e
                      /\ s.pc \in {"scan", "store"} /\ m = s.month)

\* A handler that is not at work.
LEMMA IdleRequest ==
  /\ Idle \in RequestState /\ RequestInv(Idle)
  /\ Idle.pc = "idle" /\ Idle.kind = "none" /\ Idle.changes = << >> /\ Idle.years = << >>
  /\ Idle.months = {} /\ Idle.found = {}
<1>1. /\ Idle.pc = "idle" /\ Idle.kind = "none" /\ Idle.changes = << >> /\ Idle.years = << >>
      /\ Idle.months = {} /\ Idle.found = {}
  BY DEF Idle
<1>2. Idle \in RequestState
  BY DEF Idle, RequestState, ChangeKinds
<1>3. RequestInv(Idle)
  BY <1>1, <1>2 DEF RequestInv
<1>4. QED
  BY <1>1, <1>2, <1>3

\* A request with one field changed to a value of its type.
LEMMA OneField ==
  ASSUME NEW s \in RequestState
  PROVE  /\ \A v \in {"idle", "exists", "change", "need", "select", "scan", "store", "answered"} :
              [s EXCEPT !.pc = v] \in RequestState
         /\ \A v \in ChangeKinds \cup {"none", "generate", "auto", "status"} :
              [s EXCEPT !.kind = v] \in RequestState
         /\ \A v \in Seq(Change) : [s EXCEPT !.changes = v] \in RequestState
         /\ \A v \in Exchanges : [s EXCEPT !.exch = v] \in RequestState
         /\ \A v \in SUBSET ScheduleMonths : [s EXCEPT !.months = v] \in RequestState
         /\ \A v \in Nat : /\ [s EXCEPT !.date = v] \in RequestState
                           /\ [s EXCEPT !.spot = v] \in RequestState
                           /\ [s EXCEPT !.next = v] \in RequestState
         /\ \A v \in SUBSET Nat : [s EXCEPT !.found = v] \in RequestState
<1>1. \A v \in {"idle", "exists", "change", "need", "select", "scan", "store", "answered"} :
        [s EXCEPT !.pc = v] \in RequestState
  BY DEF RequestState
<1>2. \A v \in ChangeKinds \cup {"none", "generate", "auto", "status"} :
        [s EXCEPT !.kind = v] \in RequestState
  BY DEF RequestState
<1>3. \A v \in Seq(Change) : [s EXCEPT !.changes = v] \in RequestState
  BY DEF RequestState
<1>4. \A v \in Exchanges : [s EXCEPT !.exch = v] \in RequestState
  BY DEF RequestState
<1>5. \A v \in SUBSET ScheduleMonths : [s EXCEPT !.months = v] \in RequestState
  BY DEF RequestState
<1>6. \A v \in Nat : [s EXCEPT !.date = v] \in RequestState
  BY DEF RequestState
<1>7. \A v \in Nat : [s EXCEPT !.spot = v] \in RequestState
  BY DEF RequestState
<1>8. \A v \in Nat : [s EXCEPT !.next = v] \in RequestState
  BY DEF RequestState
<1>9. \A v \in SUBSET Nat : [s EXCEPT !.found = v] \in RequestState
  BY DEF RequestState
<1>10. QED
  BY <1>1, <1>2, <1>3, <1>4, <1>5, <1>6, <1>7, <1>8, <1>9

\* A scan starts at the latest weekday of its month with no day found.
LEMMA ScanBegins ==
  ASSUME NEW s \in RequestState, NEW m \in ScheduleMonths
  PROVE  /\ Scanning(s, m) \in RequestState
         /\ Scanning(s, m).pc = "scan" /\ Scanning(s, m).kind = s.kind
         /\ Scanning(s, m).changes = s.changes /\ Scanning(s, m).years = s.years
         /\ Scanning(s, m).exch = s.exch /\ Scanning(s, m).months = s.months
         /\ Scanning(s, m).month = m /\ Scanning(s, m).next = Latest(Weekdays[m])
         /\ Scanning(s, m).found = {} /\ Scanning(s, m).date = s.date
<1> DEFINE a == [s EXCEPT !.pc = "scan"]
           b == [a EXCEPT !.month = m]
           c == [b EXCEPT !.next = Latest(Weekdays[m])]
           t == [c EXCEPT !.found = {}]
<1>1. m \in Nat /\ Latest(Weekdays[m]) \in Nat
  BY CalendarAssumption, LatestWeekday, MonthWeekdays
<1>2. a \in RequestState
  BY DEF RequestState
<1>3. b \in RequestState
  <2> HIDE DEF a
  <2>1. QED
    BY <1>1, <1>2 DEF RequestState
<1>4. c \in RequestState
  <2> HIDE DEF b
  <2>1. QED
    BY <1>1, <1>3 DEF RequestState
<1>5. t \in RequestState
  <2> HIDE DEF c
  <2>1. QED
    BY <1>4 DEF RequestState
<1>6. Scanning(s, m) = t
  BY DEF Scanning, RequestState
<1>7. /\ t.pc = "scan" /\ t.kind = s.kind /\ t.changes = s.changes /\ t.years = s.years
      /\ t.exch = s.exch /\ t.months = s.months
      /\ t.month = m /\ t.next = Latest(Weekdays[m]) /\ t.found = {} /\ t.date = s.date
  BY DEF RequestState
<1>8. QED
  BY <1>5, <1>6, <1>7

\* The months a regeneration of a year visits: all of that year.
LEMMA MonthsOfYear ==
  ASSUME NEW m \in ScheduleMonths
  PROVE  m \in YearMonths(YearOf(m)) /\ YearMonths(YearOf(m)) \subseteq ScheduleMonths
<1>1. m \in Nat
  BY CalendarAssumption
<1>2. 12 * (m \div 12) <= m /\ m <= 12 * (m \div 12) + 11 /\ m \div 12 \in Nat
  BY <1>1
<1>3. MonthNo(YearOf(m), 1) = 12 * (m \div 12)
  BY <1>2 DEF MonthNo, YearOf
<1>4. m \in MonthNo(YearOf(m), 1) .. MonthNo(YearOf(m), 1) + 12 - 1
  BY <1>1, <1>2, <1>3
<1>5. QED
  BY <1>4 DEF YearMonths, MonthsFrom

\* The next month of a generation is taken out of the months left.
LEMMA Generates ==
  ASSUME NEW s \in RequestState, NEW months \in SUBSET ScheduleMonths, months # {}
  PROVE  LET t == Generating(s, months)
         IN  /\ t \in RequestState
             /\ t.pc = "scan" /\ t.kind = s.kind /\ t.changes = s.changes
             /\ t.years = s.years /\ t.exch = s.exch /\ t.date = s.date
             /\ t.month \in ScheduleMonths /\ {t.month} \cup t.months = months
             /\ t.months \in SUBSET ScheduleMonths
             /\ t.next = Latest(Weekdays[t.month]) /\ t.found = {}
<1> DEFINE first == Earliest(months)
           rest == [s EXCEPT !.months = months \ {Earliest(months)}]
<1>1. first \in months
  BY CalendarAssumption, EarliestDay
<1>2. rest \in RequestState
  BY DEF RequestState
<1>3. /\ rest.kind = s.kind /\ rest.changes = s.changes /\ rest.years = s.years
      /\ rest.exch = s.exch /\ rest.date = s.date /\ rest.months = months \ {first}
  BY DEF RequestState
<1>4. Generating(s, months) = Scanning(rest, first)
  BY DEF Generating
<1>5. first \in ScheduleMonths
  BY <1>1
<1> HIDE DEF first, rest
<1> DEFINE t == Scanning(rest, first)
<1>6. /\ t \in RequestState /\ t.pc = "scan" /\ t.kind = rest.kind
      /\ t.changes = rest.changes /\ t.years = rest.years /\ t.exch = rest.exch
      /\ t.months = rest.months /\ t.month = first /\ t.next = Latest(Weekdays[first])
      /\ t.found = {} /\ t.date = rest.date
  BY <1>2, <1>5, ScanBegins
<1> HIDE DEF t
<1>7. {t.month} \cup t.months = months /\ t.months \in SUBSET ScheduleMonths
  BY <1>1, <1>3, <1>6
<1>8. Generating(s, months) = t
  BY <1>4 DEF t
<1>9. QED
  BY <1>3, <1>5, <1>6, <1>7, <1>8

\* What follows when a month is done: the next month, the first of the next
\* year that was noted, or the end of the request.
LEMMA Continues ==
  ASSUME NEW s \in RequestState
  PROVE  LET t == Continue(s)
         IN  \/ s.months = {} /\ s.years = << >> /\ t = Idle
             \/ /\ t \in RequestState
                /\ t.pc = "scan" /\ t.kind = s.kind /\ t.changes = s.changes /\ t.date = s.date
                /\ t.month \in ScheduleMonths /\ t.months \in SUBSET ScheduleMonths
                /\ t.next = Latest(Weekdays[t.month]) /\ t.found = {}
                /\ \/ /\ s.months # {} /\ t.exch = s.exch /\ t.years = s.years
                      /\ {t.month} \cup t.months = s.months
                   \/ /\ s.months = {} /\ s.years # << >>
                      /\ t.exch = Head(s.years)[1] /\ t.exch \in Exchanges
                      /\ t.years = Tail(s.years)
                      /\ {t.month} \cup t.months = YearMonths(Head(s.years)[2])
<1>0. s.months \in SUBSET ScheduleMonths
  BY DEF RequestState
<1>1. CASE s.months # {}
  <2>1. Continue(s) = Generating(s, s.months)
    BY <1>1 DEF Continue
  <2>2. QED
    BY <1>0, <1>1, <2>1, Generates
<1>2. CASE s.months = {} /\ s.years # << >>
  <2> DEFINE next == Head(s.years)
             a == [s EXCEPT !.exch = next[1]]
             b == [a EXCEPT !.years = Tail(s.years)]
             Y == {YearOf(m) : m \in ScheduleMonths}
  <2>1. s.years \in Seq(Exchanges \X Y)
    BY DEF RequestState
  <2>2. next \in Exchanges \X Y /\ Tail(s.years) \in Seq(Exchanges \X Y)
    BY <1>2, <2>1
  <2>3. next[1] \in Exchanges /\ next[2] \in Y
    BY <2>2
  <2>4. a \in RequestState
    BY <2>3 DEF RequestState
  <2>5. b \in RequestState
    <3> HIDE DEF a
    <3>1. QED
      BY <2>2, <2>4 DEF RequestState
  <2>6. /\ b.kind = s.kind /\ b.changes = s.changes /\ b.date = s.date
        /\ b.exch = next[1] /\ b.years = Tail(s.years)
    BY DEF RequestState
  <2>7. [s EXCEPT !.exch = Head(s.years)[1], !.years = Tail(@)] = b
    BY DEF RequestState
  <2>8. Continue(s) = Generating(b, YearMonths(next[2]))
    BY <1>2, <2>7 DEF Continue
  <2>9. YearMonths(next[2]) \in SUBSET ScheduleMonths /\ YearMonths(next[2]) # {}
    <3>1. PICK m \in ScheduleMonths : next[2] = YearOf(m)
      BY <2>3
    <3>2. QED
      BY <3>1, MonthsOfYear
  <2> HIDE DEF b, next
  <2>10. QED
    BY <1>2, <2>3, <2>5, <2>6, <2>8, <2>9, Generates DEF next
<1>3. CASE s.months = {} /\ s.years = << >>
  BY <1>3 DEF Continue
<1>4. QED
  BY <1>1, <1>2, <1>3

\* A scan that has just begun has found all of no days.
LEMMA NothingAfterLatest ==
  ASSUME NEW m \in ScheduleMonths, NEW hs
  PROVE  {d \in DaysInForce(hs, m) : d > Latest(Weekdays[m])} = {}
BY LatestWeekday, MonthWeekdays DEF DaysInForce

\* Whatever it goes on with, the request is in order.
LEMMA ContinueInOrder ==
  ASSUME NEW s \in RequestState, s.months # {} => s.exch \in Exchanges,
         s.kind = "status" => s.months = {} /\ s.years = << >>
  PROVE  RequestInv(Continue(s)) /\ Continue(s).pc \in {"idle", "scan"}
<1> DEFINE t == Continue(s)
<1>1. CASE t = Idle
  BY <1>1, IdleRequest
<1>2. CASE ~(t = Idle)
  <2>1. /\ t \in RequestState /\ t.pc = "scan" /\ t.kind = s.kind
        /\ t.month \in ScheduleMonths /\ t.next = Latest(Weekdays[t.month]) /\ t.found = {}
        /\ t.exch \in Exchanges /\ s.kind # "status"
    BY <1>2, Continues
  <2> HIDE DEF t
  <2>2. t.next \in Weekdays[t.month]
    BY <2>1, LatestWeekday
  <2>3. Cardinality(t.found) < DaysCount(t.exch)
    BY <2>1, FS_EmptySet, ThreeOrFive
  <2>4. QED
    BY <2>1, <2>2, <2>3 DEF RequestInv, t
<1>3. QED
  BY <1>1, <1>2

\* What a change of holidays has listed is not forgotten as it goes on.
LEMMA ContinueKeepsDue ==
  ASSUME NEW s \in RequestState, NEW e \in Exchanges, NEW m \in ScheduleMonths, Listed(s, e, m)
  PROVE  Due(Continue(s), e, m)
<1> DEFINE t == Continue(s)
<1>1. CASE s.months = {} /\ s.years = << >>
  BY <1>1 DEF Listed
<1>2. CASE /\ t.pc = "scan" /\ t.kind = s.kind
           /\ s.months # {} /\ t.exch = s.exch /\ t.years = s.years
           /\ {t.month} \cup t.months = s.months
  <2>1. m \in s.months => m = t.month \/ m \in t.months
    BY <1>2
  <2> HIDE DEF t
  <2>2. QED
    BY <1>2, <2>1 DEF Listed, Due, t
<1>3. CASE /\ t.pc = "scan" /\ t.kind = s.kind
           /\ s.months = {} /\ s.years # << >>
           /\ t.exch = Head(s.years)[1] /\ t.years = Tail(s.years)
           /\ {t.month} \cup t.months = YearMonths(Head(s.years)[2])
  <2>1. PICK i \in DOMAIN s.years : s.years[i] = <<e, YearOf(m)>>
    BY <1>3 DEF Listed
  <2>2. s.years \in Seq(Exchanges \X {YearOf(k) : k \in ScheduleMonths})
    BY DEF RequestState
  <2>3. CASE i = 1
    <3>1. Head(s.years) = <<e, YearOf(m)>>
      BY <1>3, <2>1, <2>2, <2>3
    <3>2. t.exch = e /\ (m = t.month \/ m \in t.months)
      BY <1>3, <3>1, MonthsOfYear
    <3> HIDE DEF t
    <3>3. QED
      BY <1>3, <3>2 DEF Listed, Due, t
  <2>4. CASE i # 1
    <3>1. i - 1 \in DOMAIN t.years /\ t.years[i - 1] = <<e, YearOf(m)>>
      BY <1>3, <2>1, <2>2, <2>4
    <3> HIDE DEF t
    <3>2. QED
      BY <1>3, <3>1 DEF Listed, Due, t
  <2>5. QED
    BY <2>3, <2>4
<1>4. QED
  BY <1>1, <1>2, <1>3, Continues

-----------------------------------------------------------------------------
(* The store and the requests. BasicInv holds whatever overlaps and fails; *)
(* Cache is what makes the store a faithful one while nothing disturbs it. *)

InOrder == \A q \in Requests : RequestInv(request[q])

BasicInv == TypeOK /\ InOrder /\ RowsWellFormed

\* A change of holidays has the service to itself.
Alone ==
  \A p, q \in Requests : request[q].kind \in ChangeKinds /\ p # q => request[p].pc = "idle"

\* The days a scan has found are the good business days it has passed.
FoundBy(s, hs) ==
  /\ s.pc = "scan" => s.found = {d \in DaysInForce(hs, s.month) : d > s.next}
  /\ s.pc = "store" => s.found = {d \in DaysInForce(hs, s.month) : d >= Earliest(s.found)}

AnsweredBy(s, hs) ==
  s.pc = "answered" =>
    s.spot = IF Defined(hs, s.exch, s.date) THEN MonthOf(s.date) + 1 ELSE MonthOf(s.date)

\* A stored schedule is fresh, or a change of holidays has it still to make.
Kept ==
  \A e \in Exchanges, m \in ScheduleMonths :
    schedules[e][m] # NULL =>
      \/ FreshRow(schedules[e][m], holidays[e], e, m)
      \/ \E q \in Requests : Due(request[q], e, m)

Cache ==
  EnoughTradingDays /\ ~disturbed =>
    /\ Alone /\ Kept
    /\ \A q \in Requests : /\ FoundBy(request[q], holidays[request[q].exch])
                           /\ AnsweredBy(request[q], holidays[request[q].exch])

\* What a step of request q to the state new must see to.
Sound(q, new) ==
  /\ new.kind \in ChangeKinds => \A p \in Requests \ {q} : request[p].pc = "idle"
  /\ new.pc # "idle" => \A p \in Requests \ {q} : request[p].kind \notin ChangeKinds
  /\ FoundBy(new, holidays[new.exch])
  /\ AnsweredBy(new, holidays[new.exch])
  /\ \A e \in Exchanges, m \in ScheduleMonths :
       Due(request[q], e, m) => Due(new, e, m) \/ FreshRow(schedules[e][m], holidays[e], e, m)

\* Rows are well formed one by one.
LEMMA RowByRow ==
  RowsWellFormed <=>
    \A e \in Exchanges, m \in ScheduleMonths :
      schedules[e][m] # NULL => WellFormedRow(schedules[e][m], e, m)
BY DEF RowsWellFormed, WellFormedRow

\* A step of one request that leaves the tables alone.
LEMMA Moves ==
  ASSUME BasicInv, NEW q \in Requests, NEW new, RequestInv(new),
         request' = [request EXCEPT ![q] = new], UNCHANGED <<holidays, schedules>>,
         disturbed' \in BOOLEAN,
         Cache /\ EnoughTradingDays /\ ~disturbed' => ~disturbed /\ Sound(q, new)
  PROVE  BasicInv' /\ (Cache => Cache')
<1>1. request \in [Requests -> RequestState] /\ new \in RequestState
  BY DEF BasicInv, TypeOK, RequestInv
<1>2. \A p \in Requests : request'[p] = IF p = q THEN new ELSE request[p]
  BY <1>1
<1>3. TypeOK'
  BY <1>1 DEF BasicInv, TypeOK
<1>4. InOrder'
  <2>1. \A p \in Requests : RequestInv(request'[p])
    BY <1>2 DEF BasicInv, InOrder
  <2>2. QED
    BY <2>1 DEF InOrder
<1>5. RowsWellFormed'
  BY DEF BasicInv, RowsWellFormed
<1>6. ASSUME Cache, EnoughTradingDays, ~disturbed' PROVE (Alone /\ Kept)'
  <2>1. Alone /\ Kept /\ Sound(q, new)
    BY <1>6 DEF Cache
  <2>2. ASSUME NEW p \in Requests, NEW r \in Requests, request'[r].kind \in ChangeKinds, p # r
        PROVE  request'[p].pc = "idle"
    <3>1. CASE r = q
      BY <1>2, <2>1, <2>2, <3>1 DEF Sound
    <3>2. CASE r # q /\ p = q
      BY <1>2, <2>1, <2>2, <3>2 DEF Sound
    <3>3. CASE r # q /\ p # q
      BY <1>2, <2>1, <2>2, <3>3 DEF Alone
    <3>4. QED
      BY <3>1, <3>2, <3>3
  <2>3. ASSUME NEW e \in Exchanges, NEW m \in ScheduleMonths, schedules[e][m] # NULL,
               ~FreshRow(schedules[e][m], holidays[e], e, m)
        PROVE  \E p \in Requests : Due(request'[p], e, m)
    <3>1. PICK p \in Requests : Due(request[p], e, m)
      BY <2>1, <2>3 DEF Kept
    <3>2. CASE p = q
      BY <1>2, <2>1, <2>3, <3>1, <3>2 DEF Sound
    <3>3. CASE p # q
      BY <1>2, <3>1, <3>3
    <3>4. QED
      BY <3>2, <3>3
  <2>4. QED
    BY <2>2, <2>3 DEF Alone, Kept
<1>7. ASSUME Cache, EnoughTradingDays, ~disturbed'
      PROVE  \A p \in Requests : /\ FoundBy(request'[p], holidays[request'[p].exch])
                                 /\ AnsweredBy(request'[p], holidays[request'[p].exch])
  BY <1>2, <1>7 DEF Cache, Sound
<1>8. Cache => Cache'
  BY <1>6, <1>7 DEF Cache
<1>9. QED
  BY <1>3, <1>4, <1>5, <1>8 DEF BasicInv

\* A request that goes on, or ends, disturbs no other.
LEMMA GoesOn ==
  ASSUME Alone, NEW q \in Requests, request[q].pc # "idle", NEW new,
         new = Idle \/ new.kind = request[q].kind
  PROVE  /\ new.kind \in ChangeKinds => \A p \in Requests \ {q} : request[p].pc = "idle"
         /\ new.pc # "idle" => \A p \in Requests \ {q} : request[p].kind \notin ChangeKinds
BY IdleRequest DEF Alone, ChangeKinds

\* While a request other than a change is at work, no holiday changes and
\* every stored schedule is fresh.
LEMMA FreshMeanwhile ==
  ASSUME Alone, Kept, NEW q \in Requests, request[q].pc # "idle",
         request[q].kind \notin ChangeKinds,
         NEW e \in Exchanges, NEW m \in ScheduleMonths, schedules[e][m] # NULL
  PROVE  FreshRow(schedules[e][m], holidays[e], e, m)
<1>1. \A p \in Requests : request[p].kind \notin ChangeKinds
  BY DEF Alone
<1>2. \A p \in Requests : ~Due(request[p], e, m)
  BY <1>1 DEF Due, Listed
<1>3. QED
  BY <1>2 DEF Kept

\* A request begins: a change that meets another request is on record.
LEMMA Begins ==
  ASSUME BasicInv, NEW q \in Requests, NEW s, Begin(q, s), RequestInv(s),
         FoundBy(s, holidays[s.exch]), AnsweredBy(s, holidays[s.exch])
  PROVE  BasicInv' /\ (Cache => Cache')
<1>1. /\ request' = [request EXCEPT ![q] = s] /\ UNCHANGED <<holidays, schedules>>
      /\ disturbed' \in BOOLEAN
  BY DEF Begin, BasicInv, TypeOK
<1>2. request[q] = Idle
  BY DEF Begin, BasicInv, InOrder, RequestInv
<1>3. ASSUME ~disturbed' PROVE ~disturbed /\ Sound(q, s)
  <2>1. /\ ~disturbed
        /\ \A p \in Requests : request[p].pc # "idle" =>
             s.kind \notin ChangeKinds /\ request[p].kind \notin ChangeKinds
    BY <1>3 DEF Begin, Busy
  <2>2. \A p \in Requests : request[p].pc = "idle" => request[p].kind \notin ChangeKinds
    BY IdleRequest DEF BasicInv, InOrder, RequestInv, ChangeKinds
  <2>3. \A e \in Exchanges, m \in ScheduleMonths : ~Due(request[q], e, m)
    BY <1>2, IdleRequest DEF Due, Listed, ChangeKinds
  <2>4. QED
    BY <2>1, <2>2, <2>3 DEF Sound
<1>4. QED
  BY <1>1, <1>3, Moves

\* A request that has a step before its scan has nothing found or answered.
LEMMA NotYet ==
  ASSUME NEW s, NEW hs, s.pc \notin {"scan", "store", "answered"}
  PROVE  FoundBy(s, hs) /\ AnsweredBy(s, hs)
BY DEF FoundBy, AnsweredBy

\* Where a request goes on from, the scan has found all there is to find.
LEMMA ContinueSound ==
  ASSUME NEW s \in RequestState, NEW hs
  PROVE  FoundBy(Continue(s), hs) /\ AnsweredBy(Continue(s), hs)
<1> DEFINE t == Continue(s)
<1>1. CASE t = Idle
  BY <1>1, IdleRequest, NotYet
<1>2. CASE ~(t = Idle)
  <2>1. /\ t.pc = "scan" /\ t.month \in ScheduleMonths
        /\ t.next = Latest(Weekdays[t.month]) /\ t.found = {}
    BY <1>2, Continues
  <2> HIDE DEF t
  <2>2. QED
    BY <2>1, NothingAfterLatest DEF FoundBy, AnsweredBy, t
<1>3. QED
  BY <1>1, <1>2

\* POST, PUT, DELETE and the bulk import of holidays begin.
LEMMA StartChangeStep ==
  ASSUME BasicInv, NEW q \in Requests, StartChange(q)
  PROVE  BasicInv' /\ (Cache => Cache')
<1>1. PICK pc \in {"exists", "change"}, kind \in ChangeKinds, cs \in Seq(Change) \ {<< >>} :
        Begin(q, [Idle EXCEPT !.pc = pc, !.kind = kind, !.changes = cs])
  <2>1. CASE \E kind \in {"add", "update", "delete"}, c \in Change :
               Begin(q, [Idle EXCEPT !.pc = IF kind = "update" THEN "exists" ELSE "change",
                                     !.kind = kind, !.changes = <<c>>])
    <3>1. PICK kind \in {"add", "update", "delete"}, c \in Change :
            Begin(q, [Idle EXCEPT !.pc = IF kind = "update" THEN "exists" ELSE "change",
                                  !.kind = kind, !.changes = <<c>>])
      BY <2>1
    <3>2. <<c>> \in Seq(Change) \ {<< >>} /\ kind \in ChangeKinds
      BY DEF ChangeKinds
    <3>3. (IF kind = "update" THEN "exists" ELSE "change") \in {"exists", "change"}
      OBVIOUS
    <3>4. QED
      BY <3>1, <3>2, <3>3
  <2>2. CASE \E cs \in BulkImports :
               Begin(q, [Idle EXCEPT !.pc = "change", !.kind = "bulk", !.changes = cs])
    BY <2>2, BulkAssumption DEF ChangeKinds
  <2>3. QED
    BY <2>1, <2>2 DEF StartChange
<1> DEFINE s == [Idle EXCEPT !.pc = pc, !.kind = kind, !.changes = cs]
<1>2. s.pc = pc /\ s.kind = kind /\ s.changes = cs /\ s.months = {} /\ s.years = << >>
  BY DEF Idle
<1>3. s \in RequestState
  <2> DEFINE a == [Idle EXCEPT !.pc = pc]
             b == [a EXCEPT !.kind = kind]
             c == [b EXCEPT !.changes = cs]
  <2>1. a \in RequestState
    BY IdleRequest, OneField
  <2>2. b \in RequestState
    <3> HIDE DEF a
    <3>1. QED
      BY <2>1, OneField DEF ChangeKinds
  <2>3. c \in RequestState
    <3> HIDE DEF b
    <3>1. QED
      BY <2>2, OneField
  <2>4. s = c
    BY IdleRequest DEF RequestState
  <2>5. QED
    BY <2>3, <2>4
<1> HIDE DEF s
<1>4. RequestInv(s)
  BY <1>2, <1>3 DEF RequestInv, ChangeKinds
<1>5. FoundBy(s, holidays[s.exch]) /\ AnsweredBy(s, holidays[s.exch])
  BY <1>2, NotYet
<1>6. QED
  BY <1>1, <1>4, <1>5, Begins DEF s

\* PUT goes on to its UPDATE, or answers 404.
LEMMA CheckExistsStep ==
  ASSUME BasicInv, NEW q \in Requests, CheckExists(q)
  PROVE  BasicInv' /\ (Cache => Cache')
<1>1. RequestInv(request[q]) /\ request[q].pc = "exists"
  BY DEF BasicInv, InOrder, CheckExists
<1>2. PICK new \in {Idle, [request[q] EXCEPT !.pc = "change"]} :
        request' = [request EXCEPT ![q] = new]
  BY DEF CheckExists
<1>3. /\ RequestInv(new) /\ new.pc \notin {"scan", "store", "answered"}
      /\ new = Idle \/ new.kind = request[q].kind
  <2>1. CASE new = Idle
    BY <2>1, IdleRequest
  <2>2. CASE new = [request[q] EXCEPT !.pc = "change"]
    <3>1. /\ new.pc = "change" /\ new.kind = request[q].kind
          /\ new.changes = request[q].changes /\ new.years = request[q].years
          /\ new.exch = request[q].exch /\ new.months = request[q].months
      BY <1>1, <2>2 DEF RequestInv, RequestState
    <3>2. new \in RequestState
      BY <1>1, <2>2 DEF RequestInv, RequestState
    <3>3. RequestInv(new)
      BY <1>1, <3>1, <3>2 DEF RequestInv, ChangeKinds
    <3>4. QED
      BY <3>1, <3>3
  <2>3. QED
    BY <2>1, <2>2
<1>4. \A e \in Exchanges, m \in ScheduleMonths : ~Due(request[q], e, m)
  BY <1>1 DEF RequestInv, Due, Listed
<1>5. Cache /\ EnoughTradingDays /\ ~disturbed' => ~disturbed /\ Sound(q, new)
  BY <1>1, <1>3, <1>4, GoesOn, NotYet DEF Cache, CheckExists, Sound
<1>6. QED
  BY <1>2, <1>3, <1>5, Moves DEF CheckExists, BasicInv, TypeOK

\* POST /schedules/generate and /regenerate begin, with the first month.
LEMMA StartGenerateStep ==
  ASSUME BasicInv, NEW q \in Requests, StartGenerate(q)
  PROVE  BasicInv' /\ (Cache => Cache')
<1>1. PICK exch \in Exchanges, m \in ScheduleMonths, n \in {1, 12} :
        Begin(q, Continue([Idle EXCEPT !.kind = "generate", !.exch = exch,
                                       !.months = MonthsFrom(m, n)]))
  BY DEF StartGenerate
<1> DEFINE s == [Idle EXCEPT !.kind = "generate", !.exch = exch, !.months = MonthsFrom(m, n)]
<1>2. s.kind = "generate" /\ s.exch = exch
  BY DEF Idle
<1>3. MonthsFrom(m, n) \in SUBSET ScheduleMonths
  BY DEF MonthsFrom
<1>4. s \in RequestState
  <2> DEFINE a == [Idle EXCEPT !.kind = "generate"]
             b == [a EXCEPT !.exch = exch]
             c == [b EXCEPT !.months = MonthsFrom(m, n)]
  <2>1. a \in RequestState
    BY <1>3, IdleRequest, OneField DEF ChangeKinds
  <2>2. b \in RequestState
    <3> HIDE DEF a
    <3>1. QED
      BY <1>3, <2>1, OneField
  <2>3. c \in RequestState
    <3> HIDE DEF b
    <3>1. QED
      BY <1>3, <2>2, OneField
  <2>4. s = c
    BY IdleRequest DEF RequestState
  <2>5. QED
    BY <2>3, <2>4
<1> HIDE DEF s
<1>5. RequestInv(Continue(s))
  BY <1>2, <1>4, ContinueInOrder
<1>6. QED
  BY <1>1, <1>4, <1>5, ContinueSound, Begins DEF s

\* POST /auto-generate begins.
LEMMA StartAutoStep ==
  ASSUME BasicInv, NEW q \in Requests, StartAuto(q)
  PROVE  BasicInv' /\ (Cache => Cache')
<1>1. PICK exch \in Exchanges, today0 \in ClockDates :
        Begin(q, [Idle EXCEPT !.pc = "need", !.kind = "auto", !.exch = exch, !.date = today0])
  BY DEF StartAuto
<1> DEFINE s == [Idle EXCEPT !.pc = "need", !.kind = "auto", !.exch = exch, !.date = today0]
<1>2. s.pc = "need" /\ s.kind = "auto" /\ s.exch = exch
  BY DEF Idle
<1>3. s \in RequestState
  <2> DEFINE a == [Idle EXCEPT !.pc = "need"]
             b == [a EXCEPT !.kind = "auto"]
             c == [b EXCEPT !.exch = exch]
             d == [c EXCEPT !.date = today0]
  <2>1. a \in RequestState
    BY CalendarAssumption, IdleRequest, OneField
  <2>2. b \in RequestState
    <3> HIDE DEF a
    <3>1. QED
      BY CalendarAssumption, <2>1, OneField DEF ChangeKinds
  <2>3. c \in RequestState
    <3> HIDE DEF b
    <3>1. QED
      BY CalendarAssumption, <2>2, OneField
  <2>4. d \in RequestState
    <3> HIDE DEF c
    <3>1. QED
      BY CalendarAssumption, <2>3, OneField
  <2>5. s = d
    BY IdleRequest DEF RequestState
  <2>6. QED
    BY <2>4, <2>5
<1> HIDE DEF s
<1>4. RequestInv(s)
  BY <1>2, <1>3 DEF RequestInv
<1>5. QED
  BY <1>1, <1>2, <1>4, NotYet, Begins DEF s

\* needsRegeneration decides whether to generate the next twelve months.
LEMMA CheckNeedStep ==
  ASSUME BasicInv, NEW q \in Requests, CheckNeed(q)
  PROVE  BasicInv' /\ (Cache => Cache')
<1> DEFINE months == MonthsFrom(MonthOf(request[q].date), 12)
           s == [request[q] EXCEPT !.months = months]
<1>1. RequestInv(request[q]) /\ request[q].pc = "need"
  BY DEF BasicInv, InOrder, CheckNeed
<1>2. months \in SUBSET ScheduleMonths
  BY DEF MonthsFrom
<1>3. s \in RequestState
  BY <1>1, <1>2 DEF RequestInv, RequestState
<1>4. s.exch = request[q].exch /\ s.kind = request[q].kind /\ s.years = request[q].years
  BY <1>1 DEF RequestInv, RequestState
<1>5. \E new \in {Idle, Continue(s)} : request' = [request EXCEPT ![q] = new]
  BY DEF CheckNeed
<1> HIDE DEF s, months
<1>6. PICK new \in {Idle, Continue(s)} : request' = [request EXCEPT ![q] = new]
  BY <1>5
<1>7. s.kind = "auto" /\ s.exch \in Exchanges /\ request[q].kind = "auto"
  BY <1>1, <1>4 DEF RequestInv
<1>8. RequestInv(new)
  BY <1>3, <1>6, <1>7, ContinueInOrder, IdleRequest
<1>9. \A hs : FoundBy(new, hs) /\ AnsweredBy(new, hs)
  BY <1>3, <1>6, ContinueSound, NotYet, IdleRequest
<1>10. new = Idle \/ new.kind = request[q].kind
  BY <1>3, <1>4, <1>6, Continues
<1>11. \A e \in Exchanges, m \in ScheduleMonths : ~Due(request[q], e, m)
  BY <1>7 DEF Due, Listed, ChangeKinds
<1>12. Cache /\ EnoughTradingDays /\ ~disturbed' => ~disturbed /\ Sound(q, new)
  BY <1>1, <1>9, <1>10, <1>11, GoesOn DEF Cache, CheckNeed, Sound
<1>13. QED
  BY <1>6, <1>8, <1>12, Moves DEF CheckNeed, BasicInv, TypeOK

\* GET /status and its kin begin.
LEMMA StartStatusStep ==
  ASSUME BasicInv, NEW q \in Requests, StartStatus(q)
  PROVE  BasicInv' /\ (Cache => Cache')
<1>1. PICK exch \in Exchanges, date \in CheckDates :
        Begin(q, [Idle EXCEPT !.pc = "select", !.kind = "status", !.exch = exch, !.date = date])
  BY DEF StartStatus
<1> DEFINE s == [Idle EXCEPT !.pc = "select", !.kind = "status", !.exch = exch, !.date = date]
<1>2. /\ s.pc = "select" /\ s.kind = "status" /\ s.exch = exch /\ s.date = date
      /\ s.months = {} /\ s.years = << >>
  BY DEF Idle
<1>3. date \in Nat
  BY CalendarAssumption, MonthDates
<1>4. s \in RequestState
  <2> DEFINE a == [Idle EXCEPT !.pc = "select"]
             b == [a EXCEPT !.kind = "status"]
             c == [b EXCEPT !.exch = exch]
             d == [c EXCEPT !.date = date]
  <2>1. a \in RequestState
    BY <1>3, IdleRequest, OneField
  <2>2. b \in RequestState
    <3> HIDE DEF a
    <3>1. QED
      BY <1>3, <2>1, OneField DEF ChangeKinds
  <2>3. c \in RequestState
    <3> HIDE DEF b
    <3>1. QED
      BY <1>3, <2>2, OneField
  <2>4. d \in RequestState
    <3> HIDE DEF c
    <3>1. QED
      BY <1>3, <2>3, OneField
  <2>5. s = d
    BY IdleRequest DEF RequestState
  <2>6. QED
    BY <2>4, <2>5
<1> HIDE DEF s
<1>5. RequestInv(s)
  BY <1>2, <1>4 DEF RequestInv, ChangeKinds
<1>6. QED
  BY <1>1, <1>2, <1>5, NotYet, Begins DEF s

\* The dates a status is asked for are dates of months that are kept.
LEMMA CheckedDate ==
  ASSUME NEW date \in CheckDates
  PROVE  MonthOf(date) \in ScheduleMonths /\ date \in DatesOf(MonthOf(date)) /\ date \in Nat
BY CalendarAssumption, MonthDates

\* The answer made from a row of the month is in order.
LEMMA AnswerInOrder ==
  ASSUME NEW s, RequestInv(s), s.kind = "status", s.exch \in Exchanges,
         NEW row, row.spot = MonthOf(s.date) + 1
  PROVE  /\ RequestInv(Answered(s, row)) /\ Answered(s, row).kind = "status"
         /\ \A hs : /\ FoundBy(Answered(s, row), hs)
                    /\ FreshRow(row, hs, s.exch, MonthOf(s.date)) => AnsweredBy(Answered(s, row), hs)
<1> DEFINE t == Answered(s, row)
<1>1. s.date \in CheckDates /\ s.date \in Nat
  BY CheckedDate DEF RequestInv
<1>2. MonthOf(s.date) \in Nat
  BY <1>1, CheckedDate, CalendarAssumption
<1>3. SpotMonth(row, s.date) = IF InBidWeek(row, s.date) THEN MonthOf(s.date) + 1 ELSE MonthOf(s.date)
  BY DEF SpotMonth
<1>4. SpotMonth(row, s.date) \in Nat
  BY <1>2, <1>3
<1>5. /\ t.pc = "answered" /\ t.kind = "status" /\ t.exch = s.exch /\ t.date = s.date
      /\ t.spot = SpotMonth(row, s.date) /\ t.months = {} /\ t.years = << >>
  BY DEF Answered, Idle
<1>6. t \in RequestState
  <2> DEFINE a == [Idle EXCEPT !.pc = "answered"]
             b == [a EXCEPT !.kind = "status"]
             c == [b EXCEPT !.exch = s.exch]
             d == [c EXCEPT !.date = s.date]
             e0 == [d EXCEPT !.spot = SpotMonth(row, s.date)]
  <2>1. a \in RequestState
    BY <1>1, <1>4, IdleRequest, OneField
  <2>2. b \in RequestState
    <3> HIDE DEF a
    <3>1. QED
      BY <1>1, <1>4, <2>1, OneField DEF ChangeKinds
  <2>3. c \in RequestState
    <3> HIDE DEF b
    <3>1. QED
      BY <1>1, <1>4, <2>2, OneField
  <2>4. d \in RequestState
    <3> HIDE DEF c
    <3>1. QED
      BY <1>1, <1>4, <2>3, OneField
  <2>5. e0 \in RequestState
    <3> HIDE DEF d
    <3>1. QED
      BY <1>1, <1>4, <2>4, OneField
  <2>6. t = e0
    BY IdleRequest DEF Answered, RequestState
  <2>7. QED
    BY <2>5, <2>6
<1> HIDE DEF t
<1>7. RequestInv(t)
  BY <1>1, <1>5, <1>6 DEF RequestInv, ChangeKinds
<1>8. ASSUME NEW hs, FreshRow(row, hs, s.exch, MonthOf(s.date)) PROVE AnsweredBy(t, hs)
  <2>1. InBidWeek(row, s.date) <=> Defined(hs, s.exch, s.date)
    BY <1>1, <1>8, CheckedDate DEF FreshRow
  <2>2. QED
    BY <1>3, <1>5, <2>1 DEF AnsweredBy
<1>9. \A hs : FoundBy(t, hs)
  BY <1>5 DEF FoundBy
<1>10. QED
  BY <1>5, <1>7, <1>8, <1>9 DEF t

\* A status query finds the schedule of the month, or starts to make it.
LEMMA SelectScheduleStep ==
  ASSUME BasicInv, NEW q \in Requests, SelectSchedule(q)
  PROVE  BasicInv' /\ (Cache => Cache')
<1> DEFINE s == request[q]
           m == MonthOf(request[q].date)
           row == schedules[request[q].exch][m]
<1>1. RequestInv(s) /\ s.pc = "select" /\ s.kind = "status" /\ s.exch \in Exchanges
  BY DEF BasicInv, InOrder, SelectSchedule, RequestInv
<1>2. /\ s \in RequestState /\ s.date \in CheckDates /\ m \in ScheduleMonths
      /\ s.months = {} /\ s.years = << >>
  BY <1>1, CheckedDate DEF RequestInv
<1>3. s.kind \notin ChangeKinds
  BY <1>1 DEF ChangeKinds
<1>4. \A e \in Exchanges, k \in ScheduleMonths : ~Due(s, e, k)
  BY <1>3 DEF Due, Listed
<1>5. CASE row # NULL
  <2> DEFINE new == Answered(s, row)
  <2>1. request' = [request EXCEPT ![q] = new]
    BY <1>5 DEF SelectSchedule
  <2>2. row.spot = m + 1
    BY <1>1, <1>2, <1>5 DEF BasicInv, RowsWellFormed
  <2> HIDE DEF row, m
  <2>3. /\ RequestInv(new) /\ new.kind = s.kind
        /\ \A hs : FoundBy(new, hs) /\ (FreshRow(row, hs, s.exch, m) => AnsweredBy(new, hs))
    BY <1>1, <2>2, AnswerInOrder DEF m
  <2>4. new.exch = s.exch
    BY DEF Answered, Idle
  <2>5. ASSUME Cache, EnoughTradingDays, ~disturbed' PROVE ~disturbed /\ Sound(q, new)
    <3>1. ~disturbed /\ Alone /\ Kept
      BY <2>5 DEF Cache, SelectSchedule
    <3>2. FreshRow(row, holidays[s.exch], s.exch, m)
      BY <1>1, <1>2, <1>3, <1>5, <3>1, FreshMeanwhile DEF row, m
    <3> HIDE DEF new
    <3>3. QED
      BY <1>1, <1>4, <2>3, <2>4, <3>1, <3>2, GoesOn DEF Sound
  <2> HIDE DEF new
  <2>6. QED
    BY <2>1, <2>3, <2>5, Moves DEF SelectSchedule, BasicInv, TypeOK
<1>6. CASE row = NULL
  <2> DEFINE new == Scanning(s, m)
  <2>1. request' = [request EXCEPT ![q] = new]
    BY <1>6 DEF SelectSchedule
  <2>2. /\ new \in RequestState /\ new.pc = "scan" /\ new.kind = s.kind
        /\ new.exch = s.exch /\ new.month = m /\ new.next = Latest(Weekdays[m])
        /\ new.found = {} /\ new.date = s.date /\ new.months = {} /\ new.years = << >>
    BY <1>2, ScanBegins
  <2> HIDE DEF new
  <2>3. RequestInv(new)
    <3>1. new.next \in Weekdays[new.month]
      BY <1>2, <2>2, LatestWeekday
    <3>2. Cardinality(new.found) < DaysCount(new.exch)
      BY <2>2, FS_EmptySet, ThreeOrFive
    <3>3. QED
      BY <1>1, <1>2, <2>2, <3>1, <3>2 DEF RequestInv
  <2>4. \A hs : FoundBy(new, hs) /\ AnsweredBy(new, hs)
    BY <1>2, <2>2, NothingAfterLatest DEF FoundBy, AnsweredBy
  <2>5. Cache /\ EnoughTradingDays /\ ~disturbed' => ~disturbed /\ Sound(q, new)
    BY <1>1, <1>4, <2>2, <2>4, GoesOn DEF Cache, SelectSchedule, Sound
  <2>6. QED
    BY <2>1, <2>3, <2>5, Moves DEF SelectSchedule, BasicInv, TypeOK
<1>7. QED
  BY <1>5, <1>6

\* The response of a status query ends the request.
LEMMA RespondStep ==
  ASSUME BasicInv, NEW q \in Requests, Respond(q)
  PROVE  BasicInv' /\ (Cache => Cache')
<1>1. RequestInv(request[q]) /\ request[q].pc = "answered"
  BY DEF BasicInv, InOrder, Respond
<1>2. \A e \in Exchanges, m \in ScheduleMonths : ~Due(request[q], e, m)
  BY <1>1 DEF RequestInv, Due, Listed, ChangeKinds
<1>3. Cache /\ EnoughTradingDays /\ ~disturbed' => ~disturbed /\ Sound(q, Idle)
  BY <1>1, <1>2, GoesOn, NotYet, IdleRequest DEF Cache, Respond, Sound
<1>4. QED
  BY <1>3, IdleRequest, Moves DEF Respond, BasicInv, TypeOK

\* A scan asks for one more weekday: it has enough, goes on to the one before,
\* or has used up the month.
LEMMA ScanStep ==
  ASSUME BasicInv, NEW q \in Requests, Scan(q)
  PROVE  BasicInv' /\ (Cache => Cache')
<1>0. PICK s : s = request[q]
  OBVIOUS
<1>1. PICK hs : hs = holidays[s.exch]
  OBVIOUS
<1> DEFINE d == s.next
           found == s.found \cup (IF GoodBusinessDay(hs, d) THEN {d} ELSE {})
           before == Before[s.month][d]
<1>2. RequestInv(s) /\ s.pc = "scan" /\ request[q].pc # "idle"
  BY <1>0 DEF BasicInv, InOrder, Scan
<1>3. /\ s \in RequestState /\ s.exch \in Exchanges /\ s.month \in ScheduleMonths
      /\ s.found \in SUBSET Weekdays[s.month] /\ d \in Weekdays[s.month]
      /\ Cardinality(s.found) < DaysCount(s.exch)
  BY <1>2 DEF RequestInv
<1>4. /\ found \in SUBSET Weekdays[s.month] /\ Cardinality(found) \in Nat
      /\ Cardinality(found) # DaysCount(s.exch) => Cardinality(found) < DaysCount(s.exch)
      /\ s.found = {x \in DaysInForce(hs, s.month) : x > d} =>
           /\ before # 0 => found = {x \in DaysInForce(hs, s.month) : x > before}
           /\ before = 0 => found = DaysInForce(hs, s.month)
           /\ Cardinality(found) = DaysCount(s.exch) =>
                found = {x \in DaysInForce(hs, s.month) : x >= Earliest(found)}
  <2>1. PICK more : more = found
    OBVIOUS
  <2>2. DayAsked(s.found, more, s.exch, hs, s.month, d)
    BY <1>3, <2>1, ScanDay
  <2> HIDE DEF found, d
  <2>3. DayAsked(s.found, found, s.exch, hs, s.month, d)
    BY <2>1, <2>2
  <2>4. QED
    BY <2>3 DEF DayAsked
<1>5. before = 0 \/ before \in Weekdays[s.month]
  BY <1>3, BeforeDay
<1>6. found \in SUBSET Nat /\ before \in Nat
  BY <1>3, <1>4, <1>5, MonthWeekdays
<1>7. Cache /\ EnoughTradingDays /\ ~disturbed' =>
        ~disturbed /\ Alone /\ s.found = {x \in DaysInForce(hs, s.month) : x > d}
  BY <1>0, <1>1, <1>2 DEF Cache, FoundBy, Scan
<1>8. /\ UNCHANGED <<holidays, schedules>> /\ disturbed' \in BOOLEAN
      /\ request' = [request EXCEPT ![q] =
           CASE Cardinality(found) = DaysCount(s.exch) ->
                  [s EXCEPT !.pc = "store", !.found = found, !.next = 0]
             [] Cardinality(found) # DaysCount(s.exch) /\ before # 0 ->
                  [s EXCEPT !.found = found, !.next = before]
             [] OTHER -> Continue([s EXCEPT !.found = {}, !.next = 0])]
  BY <1>0, <1>1 DEF Scan, BasicInv, TypeOK
<1> HIDE DEF found, before
<1>9. CASE Cardinality(found) = DaysCount(s.exch)
  <2> DEFINE new == [s EXCEPT !.pc = "store", !.found = found, !.next = 0]
             a == [s EXCEPT !.pc = "store"]
             b == [a EXCEPT !.found = found]
             c == [b EXCEPT !.next = 0]
  <2>1. request' = [request EXCEPT ![q] = new]
    BY <1>8, <1>9
  <2>2. a \in RequestState
    BY <1>3, OneField
  <2>3. b \in RequestState
    <3> HIDE DEF a
    <3>1. QED
      BY <1>6, <2>2, OneField
  <2>4. c \in RequestState
    <3> HIDE DEF b
    <3>1. QED
      BY <2>3, OneField
  <2>5. new = c
    BY <1>3 DEF RequestState
  <2>6. /\ new.pc = "store" /\ new.found = found /\ new.kind = s.kind /\ new.exch = s.exch
        /\ new.month = s.month /\ new.months = s.months /\ new.years = s.years
        /\ new.date = s.date
    BY <1>3 DEF RequestState
  <2>7. new \in RequestState
    BY <2>4, <2>5
  <2> HIDE DEF new
  <2>8. RequestInv(new)
    BY <1>2, <1>3, <1>4, <1>9, <2>6, <2>7 DEF RequestInv
  <2>9. \A e \in Exchanges, m \in ScheduleMonths : Due(request[q], e, m) => Due(new, e, m)
    BY <1>0, <1>2, <2>6 DEF Due, Listed
  <2>10. ASSUME Cache, EnoughTradingDays, ~disturbed' PROVE ~disturbed /\ Sound(q, new)
    <3>1. FoundBy(new, holidays[new.exch]) /\ AnsweredBy(new, holidays[new.exch])
      BY <1>1, <1>4, <1>7, <1>9, <2>6, <2>10 DEF FoundBy, AnsweredBy
    <3>2. QED
      BY <1>0, <1>2, <1>7, <2>6, <2>9, <2>10, <3>1, GoesOn DEF Sound
  <2>11. QED
    BY <1>8, <2>1, <2>8, <2>10, Moves
<1>10. CASE Cardinality(found) # DaysCount(s.exch) /\ before # 0
  <2> DEFINE new == [s EXCEPT !.found = found, !.next = before]
             a == [s EXCEPT !.found = found]
             b == [a EXCEPT !.next = before]
  <2>1. request' = [request EXCEPT ![q] = new]
    BY <1>8, <1>10
  <2>2. a \in RequestState
    BY <1>3, <1>6, OneField
  <2>3. b \in RequestState
    <3> HIDE DEF a
    <3>1. QED
      BY <1>6, <2>2, OneField
  <2>4. new = b
    BY <1>3 DEF RequestState
  <2>5. /\ new.pc = "scan" /\ new.found = found /\ new.next = before
        /\ new.kind = s.kind /\ new.exch = s.exch
        /\ new.month = s.month /\ new.months = s.months /\ new.years = s.years
        /\ new.date = s.date
    BY <1>2, <1>3 DEF RequestState
  <2>6. new \in RequestState
    BY <2>3, <2>4
  <2> HIDE DEF new
  <2>7. RequestInv(new)
    BY <1>2, <1>3, <1>4, <1>5, <1>10, <2>5, <2>6 DEF RequestInv
  <2>8. \A e \in Exchanges, m \in ScheduleMonths : Due(request[q], e, m) => Due(new, e, m)
    BY <1>0, <1>2, <2>5 DEF Due, Listed
  <2>9. ASSUME Cache, EnoughTradingDays, ~disturbed' PROVE ~disturbed /\ Sound(q, new)
    <3>1. FoundBy(new, holidays[new.exch]) /\ AnsweredBy(new, holidays[new.exch])
      BY <1>1, <1>4, <1>7, <1>10, <2>5, <2>9 DEF FoundBy, AnsweredBy
    <3>2. QED
      BY <1>0, <1>2, <1>7, <2>5, <2>8, <2>9, <3>1, GoesOn DEF Sound
  <2>10. QED
    BY <1>8, <2>1, <2>7, <2>9, Moves
<1>11. CASE Cardinality(found) # DaysCount(s.exch) /\ before = 0
  <2> DEFINE t == [s EXCEPT !.found = {}, !.next = 0]
             a == [s EXCEPT !.found = {}]
             b == [a EXCEPT !.next = 0]
             new == Continue(t)
  <2>1. request' = [request EXCEPT ![q] = new]
    BY <1>8, <1>11
  <2>2. a \in RequestState
    BY <1>3, OneField
  <2>3. b \in RequestState
    <3> HIDE DEF a
    <3>1. QED
      BY <2>2, OneField
  <2>4. t = b
    BY <1>3 DEF RequestState
  <2>5. t \in RequestState
    BY <2>3, <2>4
  <2>6. /\ t.kind = s.kind /\ t.exch = s.exch
        /\ t.months = s.months /\ t.years = s.years
    BY <1>3 DEF RequestState
  <2> HIDE DEF t
  <2>7. RequestInv(new)
    BY <1>2, <2>5, <2>6, ContinueInOrder DEF RequestInv
  <2>8. ASSUME Cache, EnoughTradingDays, ~disturbed' PROVE FALSE
    <3>1. found = DaysInForce(hs, s.month)
      BY <1>4, <1>7, <1>11, <2>8
    <3>2. Cardinality(DaysInForce(hs, s.month)) < DaysCount(s.exch)
      BY <1>4, <1>11, <3>1
    <3>3. QED
      BY <1>3, <2>8, <3>2, DaysLeft
  <2> HIDE DEF new
  <2>9. QED
    BY <1>8, <2>1, <2>7, <2>8, Moves
<1>12. QED
  BY <1>9, <1>10, <1>11

\* An error or the end of the Worker ends a request; a generation goes on with
\* the next month.
LEMMA FailStep ==
  ASSUME BasicInv, NEW q \in Requests, Fail(q)
  PROVE  BasicInv' /\ (Cache => Cache')
<1>0. PICK s : s = request[q]
  OBVIOUS
<1> DEFINE t == [s EXCEPT !.found = {}, !.next = 0]
           a == [s EXCEPT !.found = {}]
           b == [a EXCEPT !.next = 0]
<1>1. RequestInv(s) /\ s \in RequestState /\ request[q].pc # "idle"
  BY <1>0 DEF BasicInv, InOrder, RequestInv, Fail
<1>2. a \in RequestState
  BY <1>1, OneField
<1>3. b \in RequestState
  <2> HIDE DEF a
  <2>1. QED
    BY <1>2, OneField
<1>4. t = b
  BY <1>1 DEF RequestState
<1>5. t \in RequestState
  BY <1>3, <1>4
<1>6. t.kind = s.kind /\ t.exch = s.exch /\ t.months = s.months /\ t.years = s.years
  BY <1>1 DEF RequestState
<1>7. PICK new : /\ request' = [request EXCEPT ![q] = new]
                 /\ new = Idle \/ new = Continue(t)
  BY <1>0 DEF Fail
<1> HIDE DEF t
<1>8. RequestInv(new)
  BY <1>1, <1>5, <1>6, <1>7, ContinueInOrder, IdleRequest DEF RequestInv
<1>9. \A hs : FoundBy(new, hs) /\ AnsweredBy(new, hs)
  BY <1>5, <1>7, ContinueSound, NotYet, IdleRequest
<1>10. new = Idle \/ new.kind = request[q].kind
  BY <1>0, <1>5, <1>6, <1>7, Continues
<1>11. ~disturbed' => ~disturbed /\ request[q].kind \notin ChangeKinds
  BY DEF Fail
<1>12. request[q].kind \notin ChangeKinds =>
         \A e \in Exchanges, m \in ScheduleMonths : ~Due(request[q], e, m)
  BY DEF Due, Listed
<1>13. Cache /\ EnoughTradingDays /\ ~disturbed' => ~disturbed /\ Sound(q, new)
  BY <1>1, <1>9, <1>10, <1>11, <1>12, GoesOn DEF Cache, Sound
<1>14. disturbed' \in BOOLEAN /\ UNCHANGED <<holidays, schedules>>
  BY DEF Fail, BasicInv, TypeOK
<1>15. QED
  BY <1>7, <1>8, <1>13, <1>14, Moves

\* A schedule is stored: a good row of its month, made of the days that are
\* good business days then.
LEMMA StoreStep ==
  ASSUME BasicInv, NEW q \in Requests, Store(q)
  PROVE  BasicInv' /\ (Cache => Cache')
<1>0. PICK s : s = request[q]
  OBVIOUS
<1>1. PICK e \in Exchanges, m \in ScheduleMonths : e = s.exch /\ m = s.month
  BY <1>0 DEF BasicInv, InOrder, RequestInv, Store
<1>2. PICK row : row = Schedule(e, m, s.found)
  OBVIOUS
<1>3. /\ RequestInv(s) /\ s \in RequestState /\ s.pc = "store" /\ request[q].pc # "idle"
      /\ s.found \in SUBSET Weekdays[m] /\ Cardinality(s.found) = DaysCount(e)
  BY <1>0, <1>1 DEF BasicInv, InOrder, RequestInv, Store
<1>4. row \in Row /\ WellFormedRow(row, e, m)
  BY <1>2, <1>3, ScheduleRow
<1>5. /\ schedules' = [schedules EXCEPT ![e][m] = row]
      /\ UNCHANGED <<holidays, disturbed>>
      /\ request' = [request EXCEPT ![q] =
           IF s.kind = "status" THEN Answered(s, row) ELSE Continue([s EXCEPT !.found = {}])]
  BY <1>0, <1>1, <1>2 DEF Store
<1> DEFINE t == [s EXCEPT !.found = {}]
           new == IF s.kind = "status" THEN Answered(s, row) ELSE Continue(t)
<1>6. t \in RequestState
  BY <1>3, OneField
<1>7. t.kind = s.kind /\ t.exch = s.exch /\ t.months = s.months /\ t.years = s.years
  BY <1>3 DEF RequestState
<1> HIDE DEF t
<1>8. row.spot = m + 1
  BY <1>4 DEF WellFormedRow
<1>9. /\ RequestInv(new) /\ (new = Idle \/ new.kind = s.kind)
      /\ FoundBy(new, holidays[new.exch])
      /\ FreshRow(row, holidays[e], e, m) => AnsweredBy(new, holidays[new.exch])
      /\ \A f \in Exchanges, k \in ScheduleMonths :
           Due(s, f, k) => Due(new, f, k) \/ (f = e /\ k = m)
  <2>1. CASE s.kind = "status"
    <3>1. new = Answered(s, row)
      BY <2>1
    <3>2. MonthOf(s.date) = m
      BY <1>1, <1>3, <2>1 DEF RequestInv
    <3>3. /\ RequestInv(Answered(s, row)) /\ Answered(s, row).kind = "status"
          /\ \A hs : /\ FoundBy(Answered(s, row), hs)
                     /\ FreshRow(row, hs, e, m) => AnsweredBy(Answered(s, row), hs)
      BY <1>1, <1>3, <1>8, <2>1, <3>2, AnswerInOrder
    <3>4. Answered(s, row).exch = e
      BY <1>1 DEF Answered, Idle
    <3>5. \A f \in Exchanges, k \in ScheduleMonths : ~Due(s, f, k)
      BY <2>1 DEF Due, Listed, ChangeKinds
    <3> HIDE DEF new
    <3>6. QED
      BY <2>1, <3>1, <3>3, <3>4, <3>5
  <2>2. CASE s.kind # "status"
    <3>1. new = Continue(t)
      BY <2>2 DEF t
    <3>2. RequestInv(Continue(t))
      BY <1>3, <1>6, <1>7, ContinueInOrder DEF RequestInv
    <3>3. \A hs : FoundBy(Continue(t), hs) /\ AnsweredBy(Continue(t), hs)
      BY <1>6, ContinueSound
    <3>4. Continue(t) = Idle \/ Continue(t).kind = s.kind
      BY <1>6, <1>7, Continues
    <3>5. ASSUME NEW f \in Exchanges, NEW k \in ScheduleMonths, Due(s, f, k), ~(f = e /\ k = m)
          PROVE  Due(Continue(t), f, k)
      <4>1. Listed(t, f, k)
        BY <1>1, <1>7, <3>5 DEF Due, Listed
      <4>2. QED
        BY <1>6, <4>1, ContinueKeepsDue
    <3> HIDE DEF new
    <3>6. QED
      BY <3>1, <3>2, <3>3, <3>4, <3>5
  <2>3. QED
    BY <2>1, <2>2
<1>10. request' = [request EXCEPT ![q] = new]
  BY <1>5 DEF t
<1> HIDE DEF new
<1>11. ASSUME Cache, EnoughTradingDays, ~disturbed' PROVE FreshRow(row, holidays[e], e, m)
  <2>1. s.found = {d \in DaysInForce(holidays[e], m) : d >= Earliest(s.found)}
    BY <1>0, <1>1, <1>3, <1>5, <1>11 DEF Cache, FoundBy
  <2>2. QED
    BY <1>2, <1>3, <2>1, LastDaysAreTheWeek
<1>12. \A p \in Requests : request'[p] = IF p = q THEN new ELSE request[p]
  BY <1>10 DEF BasicInv, TypeOK
<1>13. \A f \in Exchanges, k \in ScheduleMonths :
         schedules'[f][k] = IF f = e /\ k = m THEN row ELSE schedules[f][k]
  BY <1>5 DEF BasicInv, TypeOK
<1>14. TypeOK'
  <2>1. schedules' \in [Exchanges -> [ScheduleMonths -> Row \cup {NULL}]]
    BY <1>4, <1>5 DEF BasicInv, TypeOK
  <2>2. request' \in [Requests -> RequestState]
    BY <1>9, <1>10 DEF BasicInv, TypeOK, RequestInv
  <2>3. QED
    BY <1>5, <2>1, <2>2 DEF BasicInv, TypeOK
<1>15. InOrder'
  <2>1. \A p \in Requests : RequestInv(request'[p])
    BY <1>9, <1>12 DEF BasicInv, InOrder
  <2>2. QED
    BY <2>1 DEF InOrder
<1>16. RowsWellFormed'
  <2>1. \A f \in Exchanges, k \in ScheduleMonths :
          schedules[f][k] # NULL => WellFormedRow(schedules[f][k], f, k)
    BY RowByRow DEF BasicInv
  <2>2. \A f \in Exchanges, k \in ScheduleMonths :
          schedules'[f][k] # NULL => WellFormedRow(schedules'[f][k], f, k)
    BY <1>4, <1>13, <2>1
  <2>3. QED
    BY <2>2 DEF RowsWellFormed, WellFormedRow
<1>17. ASSUME Cache, EnoughTradingDays, ~disturbed'
       PROVE  /\ (Alone /\ Kept)'
              /\ \A p \in Requests : /\ FoundBy(request'[p], holidays[request'[p].exch])
                                     /\ AnsweredBy(request'[p], holidays[request'[p].exch])
  <2>1. /\ Alone /\ Kept
        /\ \A p \in Requests : /\ FoundBy(request[p], holidays[request[p].exch])
                               /\ AnsweredBy(request[p], holidays[request[p].exch])
    BY <1>5, <1>17 DEF Cache
  <2>2. /\ new.kind \in ChangeKinds => \A p \in Requests \ {q} : request[p].pc = "idle"
        /\ new.pc # "idle" => \A p \in Requests \ {q} : request[p].kind \notin ChangeKinds
    BY <1>0, <1>3, <1>9, <2>1, GoesOn
  <2>3. ASSUME NEW p \in Requests, NEW r \in Requests, request'[r].kind \in ChangeKinds, p # r
        PROVE  request'[p].pc = "idle"
    BY <1>12, <2>1, <2>2, <2>3 DEF Alone
  <2>4. ASSUME NEW f \in Exchanges, NEW k \in ScheduleMonths, schedules'[f][k] # NULL,
               ~FreshRow(schedules'[f][k], holidays[f], f, k)
        PROVE  \E p \in Requests : Due(request'[p], f, k)
    <3>1. ~(f = e /\ k = m)
      BY <1>11, <1>13, <1>17, <2>4
    <3>2. PICK p \in Requests : Due(request[p], f, k)
      BY <1>13, <2>1, <2>4, <3>1 DEF Kept
    <3>3. CASE p = q
      BY <1>0, <1>9, <1>12, <3>1, <3>2, <3>3
    <3>4. CASE p # q
      BY <1>12, <3>2, <3>4
    <3>5. QED
      BY <3>3, <3>4
  <2>5. \A p \in Requests : /\ FoundBy(request'[p], holidays[request'[p].exch])
                            /\ AnsweredBy(request'[p], holidays[request'[p].exch])
    BY <1>9, <1>11, <1>12, <1>17, <2>1
  <2>6. QED
    BY <1>5, <2>3, <2>4, <2>5 DEF Alone, Kept
<1>18. Cache => Cache'
  BY <1>5, <1>17 DEF Cache
<1>19. QED
  BY <1>14, <1>15, <1>16, <1>18 DEF BasicInv

\* The state of a change of holidays after one more of its rows: the year of
\* the row is noted, and everything listed before still is.
LEMMA YearNoted ==
  ASSUME NEW s \in RequestState, s.changes # << >>, s.kind \in ChangeKinds
  PROVE  LET c == Head(s.changes)
             t == Noted(s)
         IN  /\ c \in Change /\ t \in RequestState
             /\ t.pc = s.pc /\ t.kind = s.kind /\ t.exch = s.exch /\ t.months = s.months
             /\ \A e \in Exchanges, m \in ScheduleMonths :
                  Listed(s, e, m) \/ (e = c.exch /\ YearOf(m) = YearOf(MonthOf(c.date)))
                    => Listed(t, e, m)
<1> DEFINE c == Head(s.changes)
           y == <<c.exch, YearOf(MonthOf(c.date))>>
           Y == {YearOf(m) : m \in ScheduleMonths}
           ys == IF \E i \in DOMAIN s.years : s.years[i] = y THEN s.years ELSE Append(s.years, y)
           a == [s EXCEPT !.changes = Tail(s.changes)]
           b == [a EXCEPT !.years = ys]
           t == Noted(s)
<1>1. s.changes \in Seq(Change) /\ s.years \in Seq(Exchanges \X Y)
  BY DEF RequestState
<1>2. c \in Change /\ Tail(s.changes) \in Seq(Change)
  BY <1>1
<1>3. c.exch \in Exchanges /\ c.date \in HolidayDates
  BY <1>2 DEF Change
<1>4. MonthOf(c.date) \in ScheduleMonths
  BY <1>3, CalendarAssumption, MonthDates
<1>5. y \in Exchanges \X Y
  BY <1>3, <1>4
<1>6. ys \in Seq(Exchanges \X Y)
  <2> HIDE DEF y
  <2>1. QED
    BY <1>1, <1>5
<1>7. /\ \A i \in DOMAIN s.years : i \in DOMAIN ys /\ ys[i] = s.years[i]
      /\ \E i \in DOMAIN ys : ys[i] = y
  <2> HIDE DEF y
  <2>1. CASE \E i \in DOMAIN s.years : s.years[i] = y
    BY <2>1
  <2>2. CASE ~\E i \in DOMAIN s.years : s.years[i] = y
    <3>1. ys = Append(s.years, y)
      BY <2>2
    <3>2. /\ \A i \in DOMAIN s.years : i \in DOMAIN ys /\ ys[i] = s.years[i]
          /\ Len(s.years) + 1 \in DOMAIN ys /\ ys[Len(s.years) + 1] = y
      BY <1>1, <1>5, <3>1
    <3>3. QED
      BY <3>2
  <2>3. QED
    BY <2>1, <2>2
<1>8. a \in RequestState
  BY <1>2, OneField
<1> HIDE DEF ys
<1>9. b \in RequestState
  <2> HIDE DEF a
  <2>1. QED
    BY <1>6, <1>8 DEF RequestState
<1>10. t = b
  BY DEF Noted, ys, RequestState
<1>11. /\ t.pc = s.pc /\ t.kind = s.kind /\ t.exch = s.exch /\ t.months = s.months
       /\ t.years = ys
  BY <1>10 DEF RequestState
<1>12. ASSUME NEW e \in Exchanges, NEW m \in ScheduleMonths,
              Listed(s, e, m) \/ (e = c.exch /\ YearOf(m) = YearOf(MonthOf(c.date)))
       PROVE  Listed(t, e, m)
  <2> HIDE DEF t
  <2>1. CASE Listed(s, e, m)
    BY <1>7, <1>11, <2>1 DEF Listed
  <2>2. CASE e = c.exch /\ YearOf(m) = YearOf(MonthOf(c.date))
    BY <1>7, <1>11, <2>2 DEF Listed
  <2>3. QED
    BY <1>12, <2>1, <2>2
<1>13. QED
  BY <1>2, <1>8, <1>9, <1>10, <1>11, <1>12

\* A change of another exchange, or in another month, leaves a schedule fresh.
LEMMA OtherMonths ==
  ASSUME NEW m \in ScheduleMonths, NEW e, NEW row, NEW hs, NEW hs2,
         \A d \in HolidayDates : MonthOf(d) = m => hs2[d] = hs[d]
  PROVE  FreshRow(row, hs, e, m) => FreshRow(row, hs2, e, m)
<1>1. m \in Nat
  BY CalendarAssumption
<1>2. \A d \in DatesOf(m) : MonthOf(d) = m
  BY <1>1, MonthDates
<1>3. DaysInForce(hs, m) = DaysInForce(hs2, m)
  <2>1. \A d \in Weekdays[m] : GoodBusinessDay(hs, d) <=> GoodBusinessDay(hs2, d)
    BY <1>2, MonthWeekdays DEF GoodBusinessDay, Holiday
  <2>2. QED
    BY <2>1 DEF DaysInForce
<1>4. \A d \in DatesOf(m) : Defined(hs, e, d) <=> Defined(hs2, e, d)
  BY <1>2, <1>3 DEF Defined
<1>5. QED
  BY <1>4 DEF FreshRow

\* One holiday is written: the schedules it makes stale are noted to be made.
LEMMA ChangeHolidayStep ==
  ASSUME BasicInv, NEW q \in Requests, ChangeHoliday(q)
  PROVE  BasicInv' /\ (Cache => Cache')
<1>0. PICK s : s = request[q]
  OBVIOUS
<1> DEFINE c == Head(s.changes)
           t == Noted(s)
           new == AfterChange(t)
<1>1. /\ RequestInv(s) /\ s \in RequestState /\ s.pc = "change" /\ request[q].pc # "idle"
      /\ s.changes # << >> /\ s.kind \in ChangeKinds
  BY <1>0 DEF BasicInv, InOrder, RequestInv, ChangeHoliday
<1>2. /\ c \in Change /\ t \in RequestState
      /\ t.pc = s.pc /\ t.kind = s.kind /\ t.exch = s.exch /\ t.months = s.months
  BY <1>1, YearNoted
<1>3. \A e \in Exchanges, m \in ScheduleMonths :
        Listed(s, e, m) \/ (e = c.exch /\ YearOf(m) = YearOf(MonthOf(c.date))) => Listed(t, e, m)
  BY <1>1, YearNoted
<1>4. /\ holidays' = [holidays EXCEPT ![c.exch][c.date] = Written(s.kind, c)] \/ holidays' = holidays
      /\ UNCHANGED <<schedules, disturbed>>
      /\ request' = [request EXCEPT ![q] = new]
  BY <1>0 DEF ChangeHoliday
<1>5. c.exch \in Exchanges /\ c.date \in HolidayDates /\ c.status \in {"active", "inactive"}
  BY <1>2 DEF Change
<1> HIDE DEF c, t
<1>6. /\ RequestInv(new) /\ (new = Idle \/ new.kind = s.kind)
      /\ \A hs : FoundBy(new, hs) /\ AnsweredBy(new, hs)
      /\ \A e \in Exchanges, m \in ScheduleMonths : Listed(t, e, m) => Due(new, e, m)
  <2>1. CASE t.changes = << >>
    <3>1. new = Continue(t)
      BY <2>1 DEF AfterChange
    <3>2. RequestInv(Continue(t))
      BY <1>1, <1>2, ContinueInOrder DEF RequestInv, ChangeKinds
    <3>3. Continue(t) = Idle \/ Continue(t).kind = s.kind
      BY <1>2, Continues
    <3> HIDE DEF new
    <3>4. QED
      BY <1>2, <3>1, <3>2, <3>3, ContinueSound, ContinueKeepsDue
  <2>2. CASE t.changes # << >>
    <3>1. new = t
      BY <2>2 DEF AfterChange
    <3> HIDE DEF new
    <3>2. RequestInv(t)
      BY <1>1, <1>2, <2>2 DEF RequestInv, ChangeKinds
    <3>3. QED
      BY <1>1, <1>2, <3>1, <3>2, NotYet DEF Due
  <2>3. QED
    BY <2>1, <2>2
<1> HIDE DEF new
<1>7. Written(s.kind, c) \in HolidayStatus
  BY <1>5 DEF Written, HolidayStatus
<1>8. holidays' \in [Exchanges -> [HolidayDates -> HolidayStatus]]
  <2>1. PICK w \in HolidayStatus, e \in Exchanges, d \in HolidayDates :
          holidays' = [holidays EXCEPT ![e][d] = w] \/ holidays' = holidays
    BY <1>4, <1>5, <1>7
  <2>2. holidays \in [Exchanges -> [HolidayDates -> HolidayStatus]]
    BY DEF BasicInv, TypeOK
  <2>3. QED
    BY <2>1, <2>2
<1>9. ASSUME NEW e \in Exchanges, NEW d \in HolidayDates, ~(e = c.exch /\ d = c.date)
      PROVE  holidays'[e][d] = holidays[e][d]
  BY <1>4, <1>5, <1>9 DEF BasicInv, TypeOK
<1>10. \A p \in Requests : request'[p] = IF p = q THEN new ELSE request[p]
  BY <1>4 DEF BasicInv, TypeOK
<1>11. TypeOK'
  <2>1. request' \in [Requests -> RequestState]
    BY <1>4, <1>6 DEF BasicInv, TypeOK, RequestInv
  <2>2. QED
    BY <1>4, <1>8, <2>1 DEF BasicInv, TypeOK
<1>12. InOrder'
  <2>1. \A p \in Requests : RequestInv(request'[p])
    BY <1>6, <1>10 DEF BasicInv, InOrder
  <2>2. QED
    BY <2>1 DEF InOrder
<1>13. RowsWellFormed'
  BY <1>4 DEF BasicInv, RowsWellFormed
<1>14. ASSUME Cache, EnoughTradingDays, ~disturbed'
       PROVE  /\ (Alone /\ Kept)'
              /\ \A p \in Requests : /\ FoundBy(request'[p], holidays'[request'[p].exch])
                                     /\ AnsweredBy(request'[p], holidays'[request'[p].exch])
  <2>1. Alone /\ Kept
    BY <1>4, <1>14 DEF Cache
  <2>2. \A p \in Requests \ {q} : request[p] = Idle
    BY <1>0, <1>1, <2>1 DEF Alone, BasicInv, InOrder, RequestInv
  <2>3. \A p \in Requests \ {q} : request'[p] = Idle
    BY <1>10, <2>2
  <2>4. Alone'
    <3>1. \A p, r \in Requests : request'[r].kind \in ChangeKinds /\ p # r => request'[p].pc = "idle"
      BY <2>3, IdleRequest DEF ChangeKinds
    <3>2. QED
      BY <3>1 DEF Alone
  <2>5. \A p \in Requests : /\ FoundBy(request'[p], holidays'[request'[p].exch])
                            /\ AnsweredBy(request'[p], holidays'[request'[p].exch])
    BY <1>6, <1>10, <2>3, IdleRequest, NotYet
  <2>6. ASSUME NEW e \in Exchanges, NEW m \in ScheduleMonths, schedules[e][m] # NULL,
               ~FreshRow(schedules[e][m], holidays'[e], e, m)
        PROVE  Due(new, e, m)
    <3>1. CASE e = c.exch /\ m = MonthOf(c.date)
      BY <1>3, <1>6, <3>1
    <3>2. CASE ~(e = c.exch /\ m = MonthOf(c.date))
      <4>1. \A d \in HolidayDates : MonthOf(d) = m => holidays'[e][d] = holidays[e][d]
        BY <1>9, <3>2
      <4>2. ~FreshRow(schedules[e][m], holidays[e], e, m)
        BY <2>6, <4>1, OtherMonths
      <4>3. PICK p \in Requests : Due(request[p], e, m)
        BY <2>1, <2>6, <4>2 DEF Kept
      <4>4. p = q
        BY <2>2, <4>3, IdleRequest DEF Due, Listed, ChangeKinds
      <4>5. Listed(s, e, m)
        BY <1>0, <1>1, <4>3, <4>4 DEF Due
      <4>6. QED
        BY <1>3, <1>6, <4>5
    <3>3. QED
      BY <3>1, <3>2
  <2>7. Kept'
    <3>1. ASSUME NEW e \in Exchanges, NEW m \in ScheduleMonths, schedules'[e][m] # NULL,
                 ~FreshRow(schedules'[e][m], holidays'[e], e, m)
          PROVE  \E p \in Requests : Due(request'[p], e, m)
      <4>1. Due(request'[q], e, m)
        BY <1>4, <1>10, <2>6, <3>1
      <4>2. QED
        BY <4>1
    <3>2. QED
      BY <3>1 DEF Kept
  <2>8. QED
    BY <2>4, <2>5, <2>7
<1>15. Cache => Cache'
  BY <1>4, <1>14 DEF Cache
<1>16. QED
  BY <1>11, <1>12, <1>13, <1>15 DEF BasicInv

BidWeekInv == BasicInv /\ Cache

\* The invariant of the service. Its first part holds whatever requests
\* overlap and fail; the second is what keeps the store faithful to the
\* holidays while no change of them has met another request or failed.
THEOREM BidWeekInvariant == Spec => []BidWeekInv
<1>1. Init => BidWeekInv
  <2> SUFFICES ASSUME Init PROVE BidWeekInv
    OBVIOUS
  <2>1. \A q \in Requests : request[q] = Idle
    BY DEF Init
  <2>2. \A e \in Exchanges, m \in ScheduleMonths : schedules[e][m] = NULL
    BY DEF Init
  <2>3. TypeOK
    BY IdleRequest DEF Init, TypeOK, HolidayStatus
  <2>4. InOrder
    BY <2>1, IdleRequest DEF InOrder
  <2>5. RowsWellFormed
    BY <2>2 DEF RowsWellFormed
  <2>6. Alone /\ Kept
    BY <2>1, <2>2 DEF Alone, Kept, Idle
  <2>7. \A q \in Requests : /\ FoundBy(request[q], holidays[request[q].exch])
                            /\ AnsweredBy(request[q], holidays[request[q].exch])
    BY <2>1, IdleRequest, NotYet
  <2>8. QED
    BY <2>3, <2>4, <2>5, <2>6, <2>7 DEF BidWeekInv, BasicInv, Cache
<1>2. BidWeekInv /\ [Next]_vars => BidWeekInv'
  <2> SUFFICES ASSUME BidWeekInv, [Next]_vars PROVE BidWeekInv'
    OBVIOUS
  <2>1. ASSUME NEW q \in Requests, Step(q) PROVE BidWeekInv'
    <3>1. BasicInv /\ Cache
      BY DEF BidWeekInv
    <3>2. BasicInv' /\ (Cache => Cache')
      BY <2>1, <3>1, StartChangeStep, CheckExistsStep, ChangeHolidayStep, StartGenerateStep,
         StartAutoStep, CheckNeedStep, StartStatusStep, SelectScheduleStep, RespondStep,
         ScanStep, StoreStep, FailStep, Zenon DEF Step
    <3>3. QED
      BY <3>1, <3>2 DEF BidWeekInv
  <2>2. CASE UNCHANGED vars
    <3>1. BasicInv'
      BY <2>2 DEF vars, BidWeekInv, BasicInv, TypeOK, InOrder, RowsWellFormed
    <3>2. Cache'
      BY <2>2 DEF vars, BidWeekInv, Cache, Alone, Kept
    <3>3. QED
      BY <3>1, <3>2 DEF BidWeekInv
  <2>3. QED
    BY <2>1, <2>2 DEF Next
<1>3. QED
  BY <1>1, <1>2, PTL DEF Spec

\* The tables and the requests keep their types, for any exchanges, holidays,
\* months and number of requests.
THEOREM BidWeekTypes == Spec => []TypeOK
<1>1. BidWeekInv => TypeOK
  BY DEF BidWeekInv, BasicInv
<1>2. QED
  BY <1>1, BidWeekInvariant, PTL

\* Whatever requests overlap and fail, a stored schedule starts and ends on
\* weekdays of its month, spans at least N of them, and names the next month.
THEOREM SchedulesWellFormed == Spec => []RowsWellFormed
<1>1. BidWeekInv => RowsWellFormed
  BY DEF BidWeekInv, BasicInv
<1>2. QED
  BY <1>1, BidWeekInvariant, PTL

\* The definition of the bid week, in the terms of the proofs.
LEMMA ByDefinitionIs ==
  ASSUME NEW e, NEW d
  PROVE  ByDefinition(e, d) <=> Defined(holidays[e], e, d)
BY DEF ByDefinition, GoodDays, Defined, DaysInForce

\* Once no change of holidays is under way, every stored schedule is the one
\* the holidays in force define, if the holidays leave every month enough days.
THEOREM StoreIsFresh ==
  ASSUME EnoughTradingDays
  PROVE  Spec => []ScheduleFresh
<1>1. BidWeekInv => ScheduleFresh
  <2> SUFFICES ASSUME BidWeekInv, ~disturbed,
                      \A q \in Requests : request[q].kind \notin ChangeKinds,
                      NEW e \in Exchanges, NEW m \in ScheduleMonths, schedules[e][m] # NULL
               PROVE  \A d \in DatesOf(m) : InBidWeek(schedules[e][m], d) <=> ByDefinition(e, d)
    BY DEF ScheduleFresh
  <2>1. Kept
    BY DEF BidWeekInv, Cache
  <2>2. \A q \in Requests : ~Due(request[q], e, m)
    BY DEF Due, Listed
  <2>3. FreshRow(schedules[e][m], holidays[e], e, m)
    BY <2>1, <2>2 DEF Kept
  <2>4. QED
    BY <2>3, ByDefinitionIs DEF FreshRow
<1>2. QED
  BY <1>1, BidWeekInvariant, PTL

\* A status query answers with the spot month the definition gives, from the
\* first query of a month as from the stored row.
THEOREM StatusIsByDefinition ==
  ASSUME EnoughTradingDays
  PROVE  Spec => []StatusByDefinition
<1>1. BidWeekInv => StatusByDefinition
  <2> SUFFICES ASSUME BidWeekInv, ~disturbed, NEW q \in Requests, request[q].pc = "answered"
               PROVE  request[q].spot = IF ByDefinition(request[q].exch, request[q].date)
                                        THEN MonthOf(request[q].date) + 1
                                        ELSE MonthOf(request[q].date)
    BY DEF StatusByDefinition
  <2>1. AnsweredBy(request[q], holidays[request[q].exch])
    BY DEF BidWeekInv, Cache
  <2>2. QED
    BY <2>1, ByDefinitionIs DEF AnsweredBy
<1>2. QED
  BY <1>1, BidWeekInvariant, PTL

-----------------------------------------------------------------------------
(* The rules of the two limit engines, as the days pass.                   *)

ADate(date) == date \in Nat /\ DayOf(date) \in 1 .. DaysIn(MonthOf(date))

RulesInv == ADate(today) /\ position \in Position

\* A date is made of its month and its day.
LEMMA DateIs ==
  ASSUME NEW date, ADate(date)
  PROVE  /\ MonthOf(date) \in Nat /\ DayOf(date) \in 1..31
         /\ date = DateNo(MonthOf(date), DayOf(date))
<1>1. MonthOf(date) \in Nat
  BY DEF ADate, MonthOf
<1>2. DayOf(date) \in 1..31
  BY <1>1, MonthLength DEF ADate
<1>3. date = 32 * (date \div 32) + (date % 32)
  BY DEF ADate
<1>4. QED
  BY <1>1, <1>2, <1>3 DEF DateNo, MonthOf, DayOf

\* Where a date lands when it is moved: in the month meant, or past its end in
\* the next.
LEMMA Landing ==
  ASSUME NEW m \in Nat, NEW day \in 1..32, day <= DaysIn(m) + 3
  PROVE  LET date == Normalised(m, day)
         IN  /\ day <= DaysIn(m) => MonthOf(date) = m /\ DayOf(date) = day
             /\ day > DaysIn(m) => MonthOf(date) = m + 1 /\ DayOf(date) = day - DaysIn(m)
             /\ ADate(date)
<1>1. DaysIn(m) \in 28..31 /\ DaysIn(m + 1) \in 28..31
  BY MonthLength
<1>2. CASE day <= DaysIn(m)
  <2>1. Normalised(m, day) = DateNo(m, day) /\ day \in 1..31
    BY <1>1, <1>2 DEF Normalised
  <2>2. /\ DateNo(m, day) \in Nat
        /\ MonthOf(DateNo(m, day)) = m /\ DayOf(DateNo(m, day)) = day
    BY <2>1, DateParts
  <2>3. ADate(Normalised(m, day))
    BY <1>2, <2>1, <2>2 DEF ADate
  <2>4. QED
    BY <1>1, <1>2, <2>1, <2>2, <2>3
<1>3. CASE day > DaysIn(m)
  <2>1. Normalised(m, day) = DateNo(m + 1, day - DaysIn(m)) /\ day - DaysIn(m) \in 1..3
    BY <1>1, <1>3 DEF Normalised
  <2>2. m + 1 \in Nat /\ day - DaysIn(m) \in 1..31
    BY <2>1
  <2>3. /\ DateNo(m + 1, day - DaysIn(m)) \in Nat
        /\ MonthOf(DateNo(m + 1, day - DaysIn(m))) = m + 1
        /\ DayOf(DateNo(m + 1, day - DaysIn(m))) = day - DaysIn(m)
    BY <2>2, DateParts
  <2>4. QED
    BY <1>1, <1>3, <2>1, <2>3 DEF ADate
<1>4. QED
  BY <1>1, <1>2, <1>3

\* Tomorrow is the next day of the month or the first of the next month.
LEMMA NextDay ==
  ASSUME NEW date, ADate(date)
  PROVE  /\ ADate(Tomorrow(date))
         /\ \/ /\ MonthOf(Tomorrow(date)) = MonthOf(date)
               /\ DayOf(Tomorrow(date)) = DayOf(date) + 1
            \/ MonthOf(Tomorrow(date)) = MonthOf(date) + 1 /\ DayOf(Tomorrow(date)) = 1
<1> DEFINE m == MonthOf(date)
           day == DayOf(date) + 1
<1>1. m \in Nat /\ DayOf(date) \in 1..31 /\ DayOf(date) <= DaysIn(m)
  BY DateIs DEF ADate
<1>2. DaysIn(m) \in 28..31
  BY <1>1, MonthLength
<1>3. day \in 1..32 /\ day <= DaysIn(m) + 3 /\ day <= DaysIn(m) + 1
  BY <1>1, <1>2
<1>4. Tomorrow(date) = Normalised(m, day)
  BY DEF Tomorrow
<1> HIDE DEF day, m
<1>5. /\ day <= DaysIn(m) => MonthOf(Tomorrow(date)) = m /\ DayOf(Tomorrow(date)) = day
      /\ day > DaysIn(m) => /\ MonthOf(Tomorrow(date)) = m + 1
                            /\ DayOf(Tomorrow(date)) = day - DaysIn(m)
      /\ ADate(Tomorrow(date))
  BY <1>1, <1>3, <1>4, Landing
<1>6. CASE day <= DaysIn(m)
  BY <1>5, <1>6 DEF day, m
<1>7. CASE day > DaysIn(m)
  <2>1. day - DaysIn(m) = 1
    BY <1>2, <1>3, <1>7
  <2>2. QED
    BY <1>5, <1>7, <2>1 DEF m
<1>8. QED
  BY <1>2, <1>3, <1>6, <1>7

\* The month that setMonth moves a date to: the one meant, or the one after
\* it when that is too short for the day.
LEMMA MonthAhead ==
  ASSUME NEW date, ADate(date), NEW n \in {1, 2}
  PROVE  LET m == MonthOf(date) + n
         IN  MonthOf(MonthsAhead(date, n)) = IF DayOf(date) > DaysIn(m) THEN m + 1 ELSE m
<1> DEFINE m == MonthOf(date) + n
<1>1. m \in Nat /\ DayOf(date) \in 1..32
  BY DateIs
<1>2. DayOf(date) <= DaysIn(m) + 3 /\ DaysIn(m) \in 28..31
  <2>1. DaysIn(m) \in 28..31
    BY <1>1, MonthLength
  <2>2. DayOf(date) \in 1..31
    BY DateIs
  <2>3. QED
    BY <2>1, <2>2
<1>3. MonthsAhead(date, n) = Normalised(m, DayOf(date))
  BY DEF MonthsAhead, PlusMonths
<1> HIDE DEF m
<1>4. /\ DayOf(date) <= DaysIn(m) => MonthOf(MonthsAhead(date, n)) = m
      /\ DayOf(date) > DaysIn(m) => MonthOf(MonthsAhead(date, n)) = m + 1
  BY <1>1, <1>2, <1>3, Landing
<1>5. QED
  BY <1>1, <1>2, <1>4 DEF m

\* The clock shows real dates and the position keeps its type.
THEOREM RulesInvariant == RulesSpec => []RulesInv
<1>1. RulesInit => RulesInv
  BY RulesAssumption DEF RulesInit, RulesInv, ADate
<1>2. RulesInv /\ [RulesNext]_rulesVars => RulesInv'
  <2> SUFFICES ASSUME RulesInv, [RulesNext]_rulesVars PROVE RulesInv'
    OBVIOUS
  <2>1. CASE NewDay
    <3>1. ADate(Tomorrow(today)) /\ position' = position /\ today' = Tomorrow(today)
      BY <2>1, NextDay DEF NewDay, RulesInv
    <3>2. ADate(today')
      BY <3>1
    <3>3. QED
      BY <3>1, <3>2 DEF RulesInv, ADate
  <2>2. CASE UNCHANGED rulesVars
    BY <2>2 DEF rulesVars, RulesInv, ADate
  <2>3. QED
    BY <2>1, <2>2 DEF RulesNext
<1>3. QED
  BY <1>1, <1>2, PTL DEF RulesSpec

\* No contract month is counted by both the spot-month and the one-month
\* limits, and together they count what the all-month limit sums.
THEOREM MonthsArePartitioned == RulesSpec => []MonthsPartitioned
<1>1. RulesInv => MonthsPartitioned
  <2> SUFFICES ASSUME RulesInv, NEW m \in MonthOf(FirstDay) .. MonthOf(LastDay) + 3
               PROVE  /\ ~(Covers(1, today, m) /\ Covers(2, today, m))
                      /\ Covers(3, today, m) <=> Covers(1, today, m) \/ Covers(2, today, m)
    BY DEF MonthsPartitioned
  <2>1. m \in Int
    BY RulesAssumption DEF MonthOf
  <2>2. NextMonth(today) \in Int
    <3>1. MonthOf(today) + 1 \in Int
      BY DateIs DEF RulesInv
    <3>2. QED
      BY <3>1, MonthAhead DEF NextMonth, RulesInv
  <2>3. /\ Covers(1, today, m) <=> m = NextMonth(today)
        /\ Covers(2, today, m) <=> m > NextMonth(today)
        /\ Covers(3, today, m) <=> m >= NextMonth(today)
    BY DEF Covers, OneMonthTakes
  <2>4. QED
    BY <2>1, <2>2, <2>3
<1>2. QED
  BY <1>1, RulesInvariant, PTL

\* What the validation blocks is flagged Breached once held, and what passes
\* as COMPLIANT is not, for every position and limit.
THEOREM TheEnginesAgree == RulesSpec => []EnginesAgree
<1>1. RulesInv => EnginesAgree
  <2> SUFFICES ASSUME RulesInv, position.lots >= 0, position.limit > 0,
                      ExemptionLots(position) = 0, BaseLimit(1, position) = position.limit,
                      MonthOf(today) # position.contract
               PROVE  /\ Blocked(position, position.contract, today, FALSE) =>
                           Flag(1, position, today) = "Breached"
                      /\ Status(position, position.contract, today) = "COMPLIANT" =>
                           Flag(1, position, today) # "Breached"
    BY DEF EnginesAgree
  <2>1. PICK lots \in Int, limit \in Nat : lots = position.lots /\ limit = position.limit
    BY RulesAssumption DEF RulesInv, Position
  <2>2. \A n : Diminished(n, position.contract, today) = n
    BY DEF Diminished
  <2>3. EffectiveLimit(position, position.contract, today) = limit
    BY <2>1, <2>2 DEF EffectiveLimit
  <2>4. Abs(position.lots) = lots
    BY <2>1 DEF Abs
  <2>5. Flag(1, position, today) = Prioritization(lots, limit, ExemptionLots(position) > 0)
    <3>1. BaseLimit(1, position) + ExemptionLots(position) = limit
      BY <2>1
    <3>2. QED
      BY <2>1, <2>2, <3>1 DEF Flag
  <2>6. Blocked(position, position.contract, today, FALSE) <=> lots > limit
    BY <2>3, <2>4 DEF Blocked
  <2>7. Status(position, position.contract, today) = "COMPLIANT" => ~(100 * lots >= 90 * limit)
    BY <2>1, <2>3, <2>4 DEF Status, Reaches
  <2>8. limit > 0
    BY <2>1
  <2>9. lots > limit =>
          Prioritization(lots, limit, ExemptionLots(position) > 0) = "Breached"
    BY <2>8 DEF Prioritization, Reaches
  <2>10. ~(100 * lots >= 90 * limit) =>
           Prioritization(lots, limit, ExemptionLots(position) > 0) # "Breached"
    BY <2>8 DEF Prioritization, Reaches
  <2>11. QED
    BY <2>5, <2>6, <2>7, <2>9, <2>10
<1>2. QED
  BY <1>1, RulesInvariant, PTL

\* The spot month and the spot plus month never move back from one day to the
\* next and never pass over a month.
THEOREM SpotMonthsMoveOn == RulesSpec => SpotMovesOn
<1>1. RulesInv /\ RulesInv' /\ [RulesNext]_rulesVars =>
        [\A n \in {1, 2} :
           LET was == MonthOf(MonthsAhead(today, n))
               is  == MonthOf(MonthsAhead(today', n))
           IN  was <= is /\ is <= was + 1]_rulesVars
  <2> SUFFICES ASSUME RulesInv, NewDay, NEW n \in {1, 2}
               PROVE  /\ MonthOf(MonthsAhead(today, n)) <= MonthOf(MonthsAhead(today', n))
                      /\ MonthOf(MonthsAhead(today', n)) <= MonthOf(MonthsAhead(today, n)) + 1
    BY DEF RulesNext
  <2>1. PICK t : t = Tomorrow(today)
    OBVIOUS
  <2>2. PICK m \in Nat, d \in 1..31 : m = MonthOf(today) /\ d = DayOf(today)
    BY DateIs DEF RulesInv
  <2>3. /\ ADate(today) /\ ADate(t)
        /\ (MonthOf(t) = m /\ DayOf(t) = d + 1) \/ (MonthOf(t) = m + 1 /\ DayOf(t) = 1)
    BY <2>1, <2>2, NextDay DEF RulesInv
  <2>4. MonthOf(MonthsAhead(today, n)) = IF d > DaysIn(m + n) THEN m + n + 1 ELSE m + n
    BY <2>2, <2>3, MonthAhead
  <2>5. MonthOf(MonthsAhead(t, n)) =
          IF DayOf(t) > DaysIn(MonthOf(t) + n) THEN MonthOf(t) + n + 1 ELSE MonthOf(t) + n
    BY <2>3, MonthAhead
  <2>6. DaysIn(m + n) \in 28..31 /\ DaysIn(m + 1 + n) \in 28..31
    BY MonthLength
  <2>7. /\ MonthOf(MonthsAhead(today, n)) <= MonthOf(MonthsAhead(t, n))
        /\ MonthOf(MonthsAhead(t, n)) <= MonthOf(MonthsAhead(today, n)) + 1
    BY <2>2, <2>3, <2>4, <2>5, <2>6
  <2>8. QED
    BY <2>1, <2>7 DEF NewDay
<1>2. QED
  BY <1>1, RulesInvariant, PTL DEF RulesSpec, SpotMovesOn

\* The part of a limit that k of the month's days leave.
LEMMA Shares ==
  ASSUME NEW limit \in Nat, NEW days \in 28..31, NEW k \in 1..31
  PROVE  /\ (limit * k) \div days <= (limit * (k + 1)) \div days
         /\ limit >= 31 => (limit * k) \div days > 0
<1>1. limit * k \in Nat /\ limit * (k + 1) = limit * k + limit
  OBVIOUS
<1>2. limit * k >= limit
  OBVIOUS
<1>3. \A a, b \in Nat : a <= b => a \div days <= b \div days
  <2>1. ASSUME NEW a \in Nat, NEW b \in Nat, a <= b PROVE a \div days <= b \div days
    <3>1. CASE days = 28
      BY <2>1, <3>1
    <3>2. CASE days = 29
      BY <2>1, <3>2
    <3>3. CASE days = 30
      BY <2>1, <3>3
    <3>4. CASE days = 31
      BY <2>1, <3>4
    <3>5. QED
      BY <3>1, <3>2, <3>3, <3>4
  <2>2. QED
    BY <2>1
<1>4. \A a \in Nat : a >= days => a \div days > 0
  <2>1. \A a \in Nat : a >= days => days \div days <= a \div days
    BY <1>3
  <2>2. days \div days = 1
    OBVIOUS
  <2>3. \A a \in Nat : a \div days \in Int
    OBVIOUS
  <2>4. QED
    BY <2>1, <2>2, <2>3
<1>5. (limit * k) \div days <= (limit * (k + 1)) \div days
  <2> DEFINE a == limit * k
             b == limit * (k + 1)
  <2>1. a \in Nat /\ b \in Nat /\ a <= b
    BY <1>1
  <2> HIDE DEF a, b
  <2>2. a \div days <= b \div days
    BY <1>3, <2>1
  <2>3. QED
    BY <2>2 DEF a, b
<1>6. limit >= 31 => (limit * k) \div days > 0
  <2> DEFINE a == limit * k
  <2>1. a \in Nat /\ (limit >= 31 => a >= days)
    BY <1>1, <1>2
  <2> HIDE DEF a
  <2>2. limit >= 31 => a \div days > 0
    BY <1>4, <2>1
  <2>3. QED
    BY <2>2 DEF a
<1>7. QED
  BY <1>5, <1>6

\* The limit of a gas position tightens day by day while its contract month
\* lasts, and a limit of 31 lots or more is never used up before the month is.
THEOREM LimitsTighten == RulesSpec => DiminishingTightens
<1>1. RulesInv /\ [RulesNext]_rulesVars =>
        [LET was == Diminished(position.limit, position.contract, today)
             is  == Diminished(position.limit, position.contract, today')
         IN  MonthOf(today) = MonthOf(today') =>
               is <= was /\ (position.limit >= 31 => is > 0)]_rulesVars
  <2> SUFFICES ASSUME RulesInv, NewDay, MonthOf(today) = MonthOf(today')
               PROVE  /\ Diminished(position.limit, position.contract, today') <=
                           Diminished(position.limit, position.contract, today)
                      /\ position.limit >= 31 =>
                           Diminished(position.limit, position.contract, today') > 0
    BY DEF RulesNext
  <2>1. PICK t : t = Tomorrow(today)
    OBVIOUS
  <2>2. PICK limit \in Nat, contract \in Nat : limit = position.limit /\ contract = position.contract
    BY RulesAssumption DEF RulesInv, Position
  <2>3. PICK m \in Nat, d \in 1..31 : m = MonthOf(today) /\ d = DayOf(today)
    BY DateIs DEF RulesInv
  <2>4. t = today' /\ MonthOf(t) = m
    BY <2>1, <2>3 DEF NewDay
  <2>5. ADate(t) /\ DayOf(t) = d + 1
    <3>1. /\ ADate(t)
          /\ (MonthOf(t) = m /\ DayOf(t) = d + 1) \/ (MonthOf(t) = m + 1 /\ DayOf(t) = 1)
      BY <2>1, <2>3, NextDay DEF RulesInv
    <3>2. m # m + 1
      OBVIOUS
    <3>3. QED
      BY <2>4, <3>1, <3>2
  <2>6. DaysIn(m) \in 28..31 /\ d + 1 <= DaysIn(m)
    BY <2>4, <2>5, MonthLength DEF ADate
  <2>7. /\ Diminished(limit, contract, t) <= Diminished(limit, contract, today)
        /\ limit >= 31 => Diminished(limit, contract, t) > 0
    <3>1. CASE m = contract
      <4>1. PICK k \in 1..31 : k = DaysIn(m) - (d + 1) + 1
        BY <2>6
      <4>2. DaysRemaining(t) = k /\ DaysRemaining(today) = k + 1
        BY <2>3, <2>4, <2>5, <2>6, <4>1 DEF DaysRemaining
      <4>3. /\ Diminished(limit, contract, t) = (limit * k) \div DaysIn(m)
            /\ Diminished(limit, contract, today) = (limit * (k + 1)) \div DaysIn(m)
        BY <2>3, <2>4, <3>1, <4>2 DEF Diminished
      <4>4. QED
        BY <2>6, <4>3, Shares
    <3>2. CASE m # contract
      BY <2>3, <2>4, <3>2 DEF Diminished
    <3>3. QED
      BY <3>1, <3>2
  <2>8. QED
    BY <2>2, <2>4, <2>7
<1>2. QED
  BY <1>1, RulesInvariant, PTL DEF RulesSpec, DiminishingTightens
=============================================================================
