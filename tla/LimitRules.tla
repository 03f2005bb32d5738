----------------------------- MODULE LimitRules -----------------------------
(***************************************************************************)
(* The rules two engines apply to one position as the days pass: the limit *)
(* calculation (src/backend/src/services/limit-calculator.ts), which flags *)
(* positions that exist, and the pre-trade validation                      *)
(* (src/backend/src/services/pre-trade-validation-service.ts), which       *)
(* blocks trades. Percentages are compared by cross-multiplication.        *)
(***************************************************************************)
EXTENDS Calendar

CONSTANTS
  FirstDay, LastDay,  \* the days the clock runs over
  Positions,          \* net positions in lots, after the trade
  Limits,             \* position limits, 0 for none
  Exemptions,         \* exemption lots, 0 for none
  Contracts           \* contract months

ASSUME RulesAssumption ==
  /\ Positions \subseteq Int
  /\ Limits \cup Exemptions \cup Contracts \subseteq Nat
  /\ {FirstDay, LastDay} \subseteq Nat
  /\ DayOf(FirstDay) \in 1 .. DaysIn(MonthOf(FirstDay))

VARIABLES
  today,     \* new Date()
  position   \* the position and the limit data it is held against

rulesVars == <<today, position>>

\* conditional: spot_month_conditional_limit; lookup: today's lookup_id.
Position ==
  [lots : Positions, update : {-1, 0, 1}, limit : Limits, conditional : Limits,
   buy : Exemptions, sell : Exemptions, contract : Contracts, gas : BOOLEAN,
   cme : BOOLEAN, lookup : {0, 4}]

-----------------------------------------------------------------------------
\* Mutant: the month wraps and the year stays.
PlusMonthsSameYear(date, n) ==
  Normalised(MonthNo(YearOf(MonthOf(date)), 1) + ((MonthOf(date) + n) % 12), DayOf(date))

\* getContractMonths moves today's date by whole months.
MonthsAhead(date, n) == PlusMonths(date, n)

NextMonth(date) == MonthOf(MonthsAhead(date, 1))
SpotPlusMonth(date) == MonthOf(MonthsAhead(date, 2))

\* Mutant: the months from the spot month on.
OneMonthFrom(date, m) == m >= NextMonth(date)

\* The months limit type 2 takes from temp_transactions.
OneMonthTakes(date, m) == m > NextMonth(date)

\* The contract months, of those held, that a limit type covers: type 3 sums
\* every month from the spot month on.
Covers(lt, date, m) ==
  CASE lt = 1 -> m = NextMonth(date)
    [] lt = 2 -> OneMonthTakes(date, m)
    [] lt = 3 -> m >= NextMonth(date)
    [] lt = 4 -> m = SpotPlusMonth(date)

\* Mutant: the current day is not counted.
RemainingAfter(date) == DaysIn(MonthOf(date)) - DayOf(date)

\* applyDiminishingBalance counts the current day among the remaining ones.
DaysRemaining(date) == DaysIn(MonthOf(date)) - DayOf(date) + 1

\* Math.floor(limit * factor), with factor 1 outside the contract month.
Diminished(limit, contract, date) ==
  IF MonthOf(date) = contract
  THEN (limit * DaysRemaining(date)) \div DaysIn(contract)
  ELSE limit
-----------------------------------------------------------------------------
\* Mutant: the utilization is a fraction, not a percentage.
FractionReaches(lots, limit, percent) == lots >= percent * limit

\* lots / limit * 100 >= percent
Reaches(lots, limit, percent) == 100 * lots >= percent * limit

\* getPrioritization, of a utilization that is 0 when there is no limit.
Prioritization(lots, limit, exempt) ==
  CASE limit > 0 /\ Reaches(lots, limit, 100) ->
         IF exempt THEN "Exemption Breached" ELSE "Breached"
    [] limit > 0 /\ Reaches(lots, limit, 80) /\ ~Reaches(lots, limit, 100) -> "High Risk"
    [] limit > 0 /\ Reaches(lots, limit, 60) /\ ~Reaches(lots, limit, 80) -> "Early Warning"
    [] OTHER -> "Monitor"

\* The conditional limit of CME products on the days 4 to 7 of the schedule,
\* for limit types 1 and 4; an empty one leaves the base limit.
BaseLimit(lt, p) ==
  IF lt \in {1, 4} /\ p.cme /\ p.lookup \in 4..7 /\ p.conditional # 0
  THEN p.conditional ELSE p.limit

\* getLimitExemption, by the direction of the day's update.
ExemptionLots(p) ==
  CASE p.update > 0 -> p.buy
    [] p.update < 0 -> p.sell
    [] OTHER -> 0

\* The limit calculation's verdict on the position under a limit type that
\* covers its contract month. Only natural gas in the spot month diminishes,
\* position and limit alike.
Flag(lt, p, date) ==
  LET ex     == ExemptionLots(p)
      limit  == BaseLimit(lt, p) + ex
      dim(n) == IF lt = 1 /\ p.gas THEN Diminished(n, p.contract, date) ELSE n
  IN  Prioritization(dim(p.lots), dim(limit), ex > 0)

Abs(n) == IF n < 0 THEN -n ELSE n

\* The pre-trade validation of a trade that leads to the position; spot is
\* the spot month of the bid-week calendar. A missing limit row validates.
EffectiveLimit(p, spot, date) ==
  IF p.contract = spot /\ p.gas THEN Diminished(p.limit, p.contract, date) ELSE p.limit

Blocked(p, spot, date, exempt) == ~exempt /\ Abs(p.lots) > EffectiveLimit(p, spot, date)

\* utilization_status; without a limit the utilization is 0.
Status(p, spot, date) ==
  LET limit == EffectiveLimit(p, spot, date)
  IN  CASE Abs(p.lots) > limit -> "BREACH"
        [] Abs(p.lots) <= limit /\ limit > 0 /\ Reaches(Abs(p.lots), limit, 90) -> "WARNING"
        [] OTHER -> "COMPLIANT"
-----------------------------------------------------------------------------
RulesInit ==
  /\ today = FirstDay
  /\ position \in Position

NewDay ==
  /\ today < LastDay
  /\ today' = Tomorrow(today)
  /\ UNCHANGED position

RulesNext == NewDay

RulesSpec == RulesInit /\ [][RulesNext]_rulesVars
-----------------------------------------------------------------------------
\* Whatever the day, month ends included, no contract month is counted by
\* both the spot-month and the one-month limits, and what either counts is
\* exactly what the all-month limit sums.
MonthsPartitioned ==
  \A m \in MonthOf(FirstDay) .. MonthOf(LastDay) + 3 :
    /\ ~(Covers(1, today, m) /\ Covers(2, today, m))
    /\ Covers(3, today, m) <=> Covers(1, today, m) \/ Covers(2, today, m)

\* From one day to the next the contract month of the spot and of the spot
\* plus limit stays or moves on by one: never back and never past a month,
\* over year ends and where setMonth overflows.
SpotMovesOn ==
  [][\A n \in {1, 2} :
       LET was == MonthOf(MonthsAhead(today, n))
           is  == MonthOf(MonthsAhead(today', n))
       IN  was <= is /\ is <= was + 1]_rulesVars

\* While its contract month lasts, the limit of a gas position tightens from
\* day to day but is never used up before the month is over.
DiminishingTightens ==
  [][LET was == Diminished(position.limit, position.contract, today)
         is  == Diminished(position.limit, position.contract, today')
     IN  MonthOf(today) = MonthOf(today') =>
           is <= was /\ (position.limit >= 31 => is > 0)]_rulesVars

\* The two engines agree on long positions without exemption, under the same
\* base limit: what validation blocks in an undiminished month is flagged
\* Breached once held, and what it passes as COMPLIANT is not.
EnginesAgree ==
  /\ position.lots >= 0 /\ position.limit > 0 /\ ExemptionLots(position) = 0
  /\ BaseLimit(1, position) = position.limit
  /\ MonthOf(today) # position.contract
  => LET flag   == Flag(1, position, today)
         status == Status(position, position.contract, today)
     IN  /\ Blocked(position, position.contract, today, FALSE) => flag = "Breached"
         /\ status = "COMPLIANT" => flag # "Breached"

\* "Next month is spot month" (limit-calculator.test.ts:331).
SpotIsNextMonth == NextMonth(today) = MonthOf(today) + 1
=============================================================================
