------------------------------ MODULE BidWeek -------------------------------
(***************************************************************************)
(* Bid weeks, exchange holidays and the spot month                         *)
(* (src/backend/src/services/bid-week-service.ts, routes/bid-week.ts).     *)
(*                                                                         *)
(* The bid week of a month is its last N good business days (weekdays that *)
(* are no holiday). It is stored per exchange and month, so the store is a *)
(* cache of what the holidays say: every route that changes holidays       *)
(* regenerates the year, and a status query fills a missing month.         *)
(*                                                                         *)
(* A request is a sequence of D1 statements: isGoodBusinessDay asks for    *)
(* one date at a time, and requests interleave between the statements.     *)
(* Months outside ScheduleMonths are passed over: nothing that is kept     *)
(* here depends on them.                                                   *)
(***************************************************************************)
EXTENDS Calendar, Sequences

CONSTANTS
  Requests,        \* the requests being served at a time
  Exchanges,       \* exchange codes, upper case
  HolidayDates,    \* the dates that may be entered as holidays
  BulkImports,     \* the lists of changes a bulk import may bring
  ScheduleMonths,  \* the months whose schedules are kept
  CheckDates,      \* the dates a status is asked for
  ClockDates,      \* the dates "today" may be when schedules are auto-generated
  NULL

ASSUME CalendarAssumption ==
  /\ ScheduleMonths \subseteq Nat
  /\ HolidayDates \subseteq UNION {DatesOf(m) : m \in ScheduleMonths}
  /\ CheckDates \subseteq UNION {DatesOf(m) : m \in ScheduleMonths}
  /\ ClockDates \subseteq Nat

Change == [exch : Exchanges, date : HolidayDates, status : {"active", "inactive"}]

ASSUME BulkAssumption == BulkImports \subseteq Seq(Change) \ {<< >>}

VARIABLES
  holidays,    \* exchange_holidays: [Exchanges -> [HolidayDates -> status]]
  schedules,   \* bid_week_schedules: [Exchanges -> [ScheduleMonths -> row]]
  request,     \* [Requests -> the local variables of the handler]
  disturbed    \* history: a holiday change has failed half-way, or has
               \* overlapped with another request

vars == <<holidays, schedules, request, disturbed>>

\* A row of exchange_holidays is missing, in force, or has is_active = 0.
HolidayStatus == {"none", "active", "inactive"}

-----------------------------------------------------------------------------
\* getBidWeekDaysCount
DaysCount(exch) == IF exch \in {"CME", "NYMEX", "COMEX"} THEN 3 ELSE 5

\* isGoodBusinessDay, for a date and the holidays of one exchange.
Holiday(hs, date) == date \in HolidayDates /\ hs[date] = "active"
GoodBusinessDay(hs, date) == ~Weekend(date) /\ ~Holiday(hs, date)

BusinessDates == {d \in UNION {DatesOf(m) : m \in ScheduleMonths} : Weekday(d) \in 1..5}

Weekdays == [m \in ScheduleMonths |-> {d \in DatesOf(m) : ~Weekend(d)}]
Earliest(dates) == CHOOSE d \in dates : \A e \in dates : d <= e
Latest(dates) == CHOOSE d \in dates : \A e \in dates : e <= d

\* The weekday before d in its month, 0 if d is the first.
Before == [m \in ScheduleMonths |-> [d \in Weekdays[m] |->
             LET earlier == {e \in Weekdays[m] : e < d}
             IN  IF earlier = {} THEN 0 ELSE Latest(earlier)]]

\* Mutant: month, which counts from 1, is taken as the index of this month.
ScheduleThisMonth(exch, m, found) ==
  [start |-> Earliest(found), end |-> Latest(found), count |-> DaysCount(exch),
   spot |-> m]

\* The schedule calculateBidWeekForMonth makes of the days it found.
Schedule(exch, m, found) ==
  [start |-> Earliest(found), end |-> Latest(found), count |-> DaysCount(exch),
   spot |-> m + 1]

Row == [start : BusinessDates, end : BusinessDates, count : {3, 5}, spot : Nat]

\* getBidWeekStatus: the strings are compared inclusively.
InBidWeek(row, date) == row.start <= date /\ date <= row.end


\* Mutant: the last day is compared exclusively.
SpotMonthExclusive(row, date) ==
  IF row.start <= date /\ date < row.end THEN row.spot ELSE MonthOf(date)

SpotMonth(row, date) == IF InBidWeek(row, date) THEN row.spot ELSE MonthOf(date)

\* The months generateBidWeekSchedules visits, the earliest first.
MonthsFrom(m, n) == ScheduleMonths \cap (m .. m + n - 1)

\* regenerateBidWeekSchedules starts with January.
YearMonths(year) == MonthsFrom(MonthNo(year, 1), 12)

\* The holidays that may be entered leave every month the days the longest
\* bid week needs: otherwise the month is given up and its old row stays.
EnoughTradingDays == \A m \in ScheduleMonths : Cardinality(Weekdays[m] \ HolidayDates) >= 5

-----------------------------------------------------------------------------
Idle == [pc |-> "idle", kind |-> "none", changes |-> << >>, years |-> << >>,
         exch |-> NULL, months |-> {}, month |-> 0, next |-> 0, found |-> {},
         date |-> 0, spot |-> 0]

Busy(q) == request[q].pc # "idle"

Init ==
  /\ holidays = [e \in Exchanges |-> [d \in HolidayDates |-> "none"]]
  /\ schedules = [e \in Exchanges |-> [m \in ScheduleMonths |-> NULL]]
  /\ request = [q \in Requests |-> Idle]
  /\ disturbed = FALSE

\* calculateBidWeekForMonth works backwards through the weekdays of m.
Scanning(s, m) == [s EXCEPT !.pc = "scan", !.month = m, !.next = Latest(Weekdays[m]), !.found = {}]

\* generateBidWeekSchedules goes on with the earliest of the months left.
Generating(s, months) ==
  Scanning([s EXCEPT !.months = months \ {Earliest(months)}], Earliest(months))

\* What a handler does next: the next month of the exchange, the next year to
\* regenerate, or the response.
Continue(s) ==
  CASE s.months # {} -> Generating(s, s.months)
    [] s.months = {} /\ s.years # << >> ->
         Generating([s EXCEPT !.exch = Head(s.years)[1], !.years = Tail(@)],
                    YearMonths(Head(s.years)[2]))
    [] OTHER -> Idle

ChangeKinds == {"add", "update", "delete", "bulk"}

Begin(q, s) ==
  /\ request[q].pc = "idle"
  /\ request' = [request EXCEPT ![q] = s]
  /\ disturbed' = \/ disturbed
                  \/ \E p \in Requests :
                       Busy(p) /\ {s.kind, request[p].kind} \cap ChangeKinds # {}
  /\ UNCHANGED <<holidays, schedules>>

\* POST, PUT and DELETE /holidays and POST /holidays/bulk-import.
StartChange(q) ==
  \/ \E kind \in {"add", "update", "delete"}, c \in Change :
       /\ kind = "delete" => c.status = "inactive"
       /\ Begin(q, [Idle EXCEPT !.pc = IF kind = "update" THEN "exists" ELSE "change",
                                !.kind = kind, !.changes = <<c>>])
  \/ \E cs \in BulkImports :
       Begin(q, [Idle EXCEPT !.pc = "change", !.kind = "bulk", !.changes = cs])

\* PUT answers 404 for a holiday that has no row.
CheckExists(q) ==
  /\ request[q].pc = "exists"
  /\ LET c == request[q].changes[1]
     IN  request' = [request EXCEPT ![q] =
           IF holidays[c.exch][c.date] = "none" THEN Idle
           ELSE [request[q] EXCEPT !.pc = "change"]]
  /\ UNCHANGED <<holidays, schedules, disturbed>>

\* INSERT OR REPLACE makes the row, UPDATE changes the one that is there.
Written(kind, c) ==
  IF kind \in {"update", "delete"} /\ holidays[c.exch][c.date] = "none"
  THEN "none" ELSE c.status

\* The exchange and year to regenerate are listed once.
Noted(s) ==
  LET c == Head(s.changes)
      y == <<c.exch, YearOf(MonthOf(c.date))>>
  IN  [s EXCEPT !.changes = Tail(@),
                !.years = IF \E i \in DOMAIN @ : @[i] = y THEN @ ELSE Append(@, y)]

\* Mutant: the holidays are changed and nothing is regenerated.
AfterChangeOnly(s) == IF s.changes = << >> THEN Idle ELSE s

AfterChange(s) == IF s.changes = << >> THEN Continue(s) ELSE s

\* One statement of addHoliday, deleteHoliday or the UPDATE of PUT. An error
\* is swallowed by the bulk import alone, which regenerates all the same.
ChangeHoliday(q) ==
  /\ request[q].pc = "change"
  /\ LET s == request[q]
         c == Head(s.changes)
     IN  /\ \/ holidays' = [holidays EXCEPT ![c.exch][c.date] = Written(s.kind, c)]
            \/ s.kind = "bulk" /\ UNCHANGED holidays
         /\ request' = [request EXCEPT ![q] = AfterChange(Noted(s))]
  /\ UNCHANGED <<schedules, disturbed>>

\* POST /schedules/generate and /schedules/regenerate.
StartGenerate(q) ==
  \E exch \in Exchanges, m \in ScheduleMonths, n \in {1, 12} :
    Begin(q, Continue([Idle EXCEPT !.kind = "generate", !.exch = exch,
                                   !.months = MonthsFrom(m, n)]))

\* POST /auto-generate, for one of its exchanges: they do not affect each other.
StartAuto(q) ==
  \E exch \in Exchanges, today \in ClockDates :
    Begin(q, [Idle EXCEPT !.pc = "need", !.kind = "auto", !.exch = exch, !.date = today])

\* needsRegeneration counts the stored months that start between today and
\* today's date three months on.
CheckNeed(q) ==
  /\ request[q].pc = "need"
  /\ LET s == request[q]
         ahead == {m \in ScheduleMonths :
                     /\ schedules[s.exch][m] # NULL
                     /\ s.date <= DateNo(m, 1)
                     /\ DateNo(m, 1) <= PlusMonths(s.date, 3)}
     IN  request' = [request EXCEPT ![q] =
           IF Cardinality(ahead) < 3
           THEN Continue([s EXCEPT !.months = MonthsFrom(MonthOf(s.date), 12)])
           ELSE Idle]
  /\ UNCHANGED <<holidays, schedules, disturbed>>

\* GET /status, /status/all, /spot-month and the pre-trade validation.
StartStatus(q) ==
  \E exch \in Exchanges, date \in CheckDates :
    Begin(q, [Idle EXCEPT !.pc = "select", !.kind = "status", !.exch = exch, !.date = date])

Answered(s, row) ==
  [Idle EXCEPT !.pc = "answered", !.kind = "status", !.exch = s.exch,
               !.date = s.date, !.spot = SpotMonth(row, s.date)]

SelectSchedule(q) ==
  /\ request[q].pc = "select"
  /\ LET s   == request[q]
         row == schedules[s.exch][MonthOf(s.date)]
     IN  request' = [request EXCEPT ![q] =
           IF row # NULL THEN Answered(s, row) ELSE Scanning(s, MonthOf(s.date))]
  /\ UNCHANGED <<holidays, schedules, disturbed>>

\* isGoodBusinessDay for the latest weekday not looked at. When the month is
\* used up the error ends a status query; generate... catches it and goes on.
Scan(q) ==
  /\ request[q].pc = "scan"
  /\ LET s     == request[q]
         d     == s.next
         found == s.found \cup (IF GoodBusinessDay(holidays[s.exch], d) THEN {d} ELSE {})
         next  == Before[s.month][d]
     IN  request' = [request EXCEPT ![q] =
           CASE Cardinality(found) = DaysCount(s.exch) ->
                  [s EXCEPT !.pc = "store", !.found = found, !.next = 0]
             [] Cardinality(found) # DaysCount(s.exch) /\ next # 0 ->
                  [s EXCEPT !.found = found, !.next = next]
             [] OTHER -> Continue([s EXCEPT !.found = {}, !.next = 0])]
  /\ UNCHANGED <<holidays, schedules, disturbed>>

\* INSERT OR REPLACE INTO bid_week_schedules.
Store(q) ==
  /\ request[q].pc = "store"
  /\ LET s   == request[q]
         row == Schedule(s.exch, s.month, s.found)
     IN  /\ schedules' = [schedules EXCEPT ![s.exch][s.month] = row]
         /\ request' = [request EXCEPT ![q] =
              IF s.kind = "status" THEN Answered(s, row)
              ELSE Continue([s EXCEPT !.found = {}])]
  /\ UNCHANGED <<holidays, disturbed>>

\* A failed statement ends the request, except that generateBidWeekSchedules
\* catches the error of a month and goes on with the next. A Worker that is
\* stopped ends it anywhere.
Fail(q) ==
  /\ request[q].pc \notin {"idle", "answered"}
  /\ \/ request' = [request EXCEPT ![q] = Idle]
     \/ /\ request[q].pc \in {"scan", "store"} /\ request[q].kind # "status"
        /\ request' = [request EXCEPT ![q] =
             Continue([request[q] EXCEPT !.found = {}, !.next = 0])]
  /\ disturbed' = (disturbed \/ request[q].kind \in ChangeKinds)
  /\ UNCHANGED <<holidays, schedules>>

Respond(q) ==
  /\ request[q].pc = "answered"
  /\ request' = [request EXCEPT ![q] = Idle]
  /\ UNCHANGED <<holidays, schedules, disturbed>>

Step(q) ==
  \/ StartChange(q) \/ CheckExists(q) \/ ChangeHoliday(q)
  \/ StartGenerate(q)
  \/ StartAuto(q) \/ CheckNeed(q)
  \/ StartStatus(q) \/ SelectSchedule(q) \/ Respond(q)
  \/ Scan(q) \/ Store(q) \/ Fail(q)

Next == \E q \in Requests : Step(q)

Spec == Init /\ [][Next]_vars
-----------------------------------------------------------------------------
RequestState ==
  [pc : {"idle", "exists", "change", "need", "select", "scan", "store", "answered"},
   kind : ChangeKinds \cup {"none", "generate", "auto", "status"},
   changes : Seq(Change), years : Seq(Exchanges \X {YearOf(m) : m \in ScheduleMonths}),
   exch : Exchanges \cup {NULL}, months : SUBSET ScheduleMonths, month : Nat,
   next : Nat, found : SUBSET Nat, date : Nat, spot : Nat]

\* The types of all variables.
TypeOK ==
  /\ holidays \in [Exchanges -> [HolidayDates -> HolidayStatus]]
  /\ schedules \in [Exchanges -> [ScheduleMonths -> Row \cup {NULL}]]
  /\ request \in [Requests -> RequestState]
  /\ disturbed \in BOOLEAN

\* "Last N trading days of each month" (bid-week-service.ts:8): a date lies in
\* the bid week when the month has a good business day on or after it, but
\* fewer than N after it.
GoodDays(exch, m) == {d \in Weekdays[m] : GoodBusinessDay(holidays[exch], d)}

ByDefinition(exch, date) ==
  LET days == GoodDays(exch, MonthOf(date))
  IN  /\ \E d \in days : d >= date
      /\ Cardinality({d \in days : d > date}) < DaysCount(exch)

\* Whatever requests overlap and fail, a stored schedule is one of its month:
\* it starts and ends on weekdays of the month, spans at least N of them, and
\* its spot month is the next. (Holidays changed during the scan can stretch
\* it, never shrink it.)
RowsWellFormed ==
  \A e \in Exchanges, m \in ScheduleMonths :
    schedules[e][m] # NULL =>
      LET row == schedules[e][m]
      IN  /\ {row.start, row.end} \subseteq Weekdays[m]
          /\ Cardinality({d \in Weekdays[m] : InBidWeek(row, d)}) >= DaysCount(e)
          /\ row.spot = m + 1

\* The store is a faithful cache: unless a holiday change has failed half-way
\* or met another request, every stored schedule is the one the holidays in
\* force define, once no change is under way. Status queries and generation
\* may overlap and fail as they like.
ScheduleFresh ==
  /\ ~disturbed
  /\ \A q \in Requests : request[q].kind \notin ChangeKinds
  => \A e \in Exchanges, m \in ScheduleMonths :
       schedules[e][m] # NULL =>
         \A d \in DatesOf(m) : InBidWeek(schedules[e][m], d) <=> ByDefinition(e, d)

\* "If not in bid week, current month is spot month; if in bid week, next
\* month is spot month" (bid-week-service.ts:284-285), with the bid week of
\* the definition: from the first query for a month as from the stored row.
StatusByDefinition ==
  ~disturbed =>
    \A q \in Requests : request[q].pc = "answered" =>
      LET s == request[q]
      IN  s.spot = IF ByDefinition(s.exch, s.date)
                   THEN MonthOf(s.date) + 1 ELSE MonthOf(s.date)
=============================================================================
