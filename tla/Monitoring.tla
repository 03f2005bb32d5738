----------------------------- MODULE Monitoring -----------------------------
(***************************************************************************)
(* The cron triggers (src/backend/src/scheduled.ts) and the monitoring     *)
(* cycle they run (services/realtime-monitoring.ts), together with the     *)
(* nightly import of market_limits.                                        *)
(*                                                                         *)
(* wrangler.toml sets a trigger for every quarter of an hour and one for   *)
(* each daily job. The handler does not ask which of them fired: at the    *)
(* hour of a daily job both run the cycle, and the job, side by side. What *)
(* it does depends on the minute it starts in, so a trigger delivered a    *)
(* minute late does nothing.                                               *)
(*                                                                         *)
(*   recalculate -> select -> per position: check -> per violation:        *)
(*       look for an open event -> record one;  -> notify -> (import)      *)
(*                                                                         *)
(* Time passes in ticks of a quarter of an hour. A cycle takes less than   *)
(* five minutes, so that the events of one cycle are a quarter of an hour  *)
(* old, give or take these minutes, when the next one runs.                *)
(***************************************************************************)
EXTENDS MarketImport, Compliance

CONSTANTS
  Quarterly,    \* the trigger of every quarter of an hour, of Nightly
  Positions,    \* the active parent rows, one per contract month
  Key,          \* [Positions -> code, market location and limit type]
  LimitLots,    \* [Positions -> the limit their percentage refers to]
  Exchanges,    \* [Positions -> the exchanges of the rows that the migrations
                \* insert for the code; "none" for a row without one]
  RulesOf,      \* [Positions -> regulatory_rules of the code and the limit type:
                \* Compliance's rules with an "exchange"]
  Books,        \* the sizes in lots that calculations may find: some functions
                \* of [Positions -> Int]
  Day,          \* ticks from one nightly job to the next
  MaxOdd        \* bound on what may happen besides the cycles: events
                \* acknowledged or recorded by others, and misses (see below)

MaxAge == 2  \* ages beyond the notification window all count as this

Keys == {Key[p] : p \in Positions}

Rules == UNION {RulesOf[p] : p \in Positions}

\* wrangler.toml: only one of the daily triggers is the import's, and the hours
\* of two daily jobs are further apart than two quarters of an hour. Sources of
\* events have different names.
ASSUME MonitoringAssumption ==
  /\ Quarterly \in Nightly /\ \A c, d \in Nightly \ {Quarterly} : c = d
  /\ Day \in Nat \ {0, 1} /\ MaxOdd \in Nat /\ MaxDate # 0
  /\ Books \subseteq [Positions -> Int]
  /\ LimitLots \in [Positions -> Nat \ {0}]
  /\ \A r \in Rules : r.limit \in Nat /\ r.type \in RuleTypes
  /\ "pre-trade" \notin Nightly

VARIABLES
  clock,     \* ticks since the hour of the nightly import, up to Day
  due,       \* the triggers that the platform has yet to deliver
  lots,      \* [Positions -> pos_lots of the active row]
  events,    \* position_breach_events; the id of an event is its index
  cycle,     \* [Nightly -> the local variables of the trigger's handler]
  others,    \* number of events acknowledged or recorded by others
  misses     \* number of late triggers, failed cycles, checks and mails

monitoringVars == <<clock, due, lots, events, cycle, others, misses>>
vars == <<importVars, monitoringVars>>

Sources == Nightly \cup {"pre-trade"}

\* age, mails: ticks since detected_at, and the notifications sent.
Event == [key : Keys, rule : Rules, by : Sources, open : BOOLEAN,
          age : 0..MaxAge, mails : Nat]

Off == [pc |-> "off", nightly |-> FALSE, todo |-> {}]

Running(c) == cycle[c].pc # "off"

\* The two triggers of an hour with a daily job, one at the other quarters.
Delivered(time) == IF time = 0 THEN Nightly ELSE {Quarterly}

Init ==
  /\ ImportInit
  /\ clock = 0 /\ due = Delivered(0)
  /\ lots \in Books
  /\ events = << >>
  /\ cycle = [c \in Nightly |-> Off]
  /\ others = 0 /\ misses = 0

-----------------------------------------------------------------------------
\* The regulatory check of one position.

\* getApplicableRules filters by the exchange only when there is one.
ApplicableRules(pos, exchange) ==
  IF exchange = "none" THEN RulesOf[pos]
  ELSE {r \in RulesOf[pos] : r.exchange = exchange}

\* The LEFT JOIN with market_limits: a row of the position for each row the
\* migrations insert for its code (those of 0027 have no exchange_id), one
\* without an exchange once a file was imported or when the table is empty.
JoinedExchanges(pos) ==
  IF Seeded \in limits /\ Exchanges[pos] # {} THEN Exchanges[pos] ELSE {"none"}

\* pos_pct >= 85, a signed percentage: short positions are never selected.
Selected(pos, n) == 100 * n >= 85 * LimitLots[pos]

\* What the check reports of a position: nothing as long as only accountability
\* levels are exceeded.
Reported(pos, exchange, n) ==
  IF Compliant(ApplicableRules(pos, exchange), n) THEN {}
  ELSE Violations(ApplicableRules(pos, exchange), n)

\* An active row that is selected and, joined with that exchange, beyond a rule.
Found(pos, rule, exchange) ==
  /\ Selected(pos, lots[pos])
  /\ exchange \in JoinedExchanges(pos)
  /\ rule \in Reported(pos, exchange, lots[pos])

Detectable(pos, rule) == \E exchange \in JoinedExchanges(pos) : Found(pos, rule, exchange)

\* Mutant: an event counts whatever its status.
AnyEvent(e) == TRUE

\* Mutant: only one of this cycle's events counts.
NewOpenEvent(e) == e.open /\ e.age = 0

Blocks(e) == e.open

\* "Check if breach already exists": of the code, location and limit type, for
\* whichever contract month it was recorded.
KnownBreach(pos, rule) ==
  \E k \in DOMAIN events :
    events[k].key = Key[pos] /\ events[k].rule = rule /\ Blocks(events[k])

NewEvent(pos, rule, by) ==
  [key |-> Key[pos], rule |-> rule, by |-> by, open |-> TRUE, age |-> 0, mails |-> 0]
-----------------------------------------------------------------------------
\* The handler of a trigger, statement by statement.

MayHappen(n) == others + misses + n <= MaxOdd

UnchangedBook == UNCHANGED <<clock, others>>

\* The trigger starts within its minute ...
Fire(c) ==
  /\ c \in due /\ ~Running(c)
  /\ due' = due \ {c}
  /\ cycle' = [cycle EXCEPT ![c] =
       [Off EXCEPT !.pc = "calculate", !.nightly = (clock = 0)]]
  /\ UnchangedBook /\ UNCHANGED <<importVars, lots, events, misses>>

\* ... or later, and does nothing.
Late(c) ==
  /\ c \in due /\ MayHappen(1)
  /\ due' = due \ {c}
  /\ misses' = misses + 1
  /\ UnchangedBook /\ UNCHANGED <<importVars, lots, events, cycle>>

\* The calculations (LimitCalculator) find whatever the transactions add up to.
\* They join market_limits: without rows there, every active row stays as it is.
\* (Calculations on request, POST /calculate/all, leave what these may find.)
Calculate(c) ==
  /\ cycle[c].pc = "calculate"
  /\ IF limits = {} THEN UNCHANGED lots ELSE lots' \in Books
  /\ cycle' = [cycle EXCEPT ![c].pc = "select"]
  /\ UnchangedBook /\ UNCHANGED <<importVars, due, events, misses>>

\* The violations that a handler may find: of a position, a rule, and the row of
\* the join (by its exchange) whose check reports it.
Joined == UNION {Exchanges[p] : p \in Positions} \cup {"none"}
Violation == Positions \X Rules \X Joined

\* detectRegulatoryBreaches: the SELECT of the positions, and with it what the
\* checks will report of them (the rules do not change meanwhile).
SelectPositions(c) ==
  /\ cycle[c].pc = "select"
  /\ cycle' = [cycle EXCEPT ![c].pc = "look",
       ![c].todo = {v \in Violation : Found(v[1], v[2], v[3])}]
  /\ UnchangedBook /\ UNCHANGED <<importVars, due, lots, events, misses>>

\* Mutant: the rules are ordered by their limits only.
Smaller(r, s) == r.limit <= s.limit

\* ORDER BY of getApplicableRules: the position limits first, smaller ones
\* before larger ones.
Before(r, s) ==
  \/ r.type = "position_limit" /\ s.type # "position_limit"
  \/ r.type = s.type /\ r.limit <= s.limit

\* Two violations of one row.
SameRow(v, w) == v[1] = w[1] /\ v[3] = w[3]

\* The violation that is next, of any row that is left.
NextViolation(c) ==
  CHOOSE v \in cycle[c].todo :
    \A w \in cycle[c].todo : SameRow(v, w) => Before(v[2], w[2])

\* Mutant: the violation is taken off the list before it is recorded.
TakenOff(s, v) ==
  IF KnownBreach(v[1], v[2]) THEN [s EXCEPT !.todo = @ \ {v}]
  ELSE [s EXCEPT !.pc = "record", !.todo = @ \ {v}]

AfterLooking(s, v) ==
  IF KnownBreach(v[1], v[2]) THEN [s EXCEPT !.todo = @ \ {v}]
  ELSE [s EXCEPT !.pc = "record"]

\* The SELECT of an open event.
LookForEvent(c) ==
  /\ cycle[c].pc = "look" /\ cycle[c].todo # {}
  /\ cycle' = [cycle EXCEPT ![c] = AfterLooking(@, NextViolation(c))]
  /\ UnchangedBook /\ UNCHANGED <<importVars, due, lots, events, misses>>

\* recordBreachEvent.
RecordEvent(c) ==
  LET v == NextViolation(c)
  IN  /\ cycle[c].pc = "record"
      /\ events' = Append(events, NewEvent(v[1], v[2], c))
      /\ cycle' = [cycle EXCEPT ![c].pc = "look", ![c].todo = @ \ {v}]
      /\ UnchangedBook /\ UNCHANGED <<importVars, due, lots, misses>>

\* A statement about one row fails: its other violations are skipped.
FailPosition(c) ==
  /\ cycle[c].pc \in {"look", "record"} /\ cycle[c].todo # {} /\ MayHappen(1)
  /\ cycle' = [cycle EXCEPT ![c].pc = "look",
       ![c].todo = {v \in @ : ~SameRow(v, NextViolation(c))}]
  /\ misses' = misses + 1
  /\ UnchangedBook /\ UNCHANGED <<importVars, due, lots, events>>

\* Mutant: notifications look back ten minutes only.
TenMinutes == 0

\* Mutant: ... or 35 minutes.
ThirtyFiveMinutes == 2

\* datetime('now', '-20 minutes'): the last cycle's events and newer ones.
NotifyWindow == 1

\* The open critical events detected within the window.
ToNotify ==
  {k \in DOMAIN events : /\ events[k].open /\ events[k].rule.type = "position_limit"
                         /\ events[k].age <= NotifyWindow}

\* What the handler goes on with: at the hour of the import, the import.
AfterCycle(s) == IF s.nightly THEN [s EXCEPT !.pc = "import"] ELSE Off

\* sendCriticalBreachNotifications: a mail for each, some of which may fail.
Notify(c) ==
  /\ cycle[c].pc = "look" /\ cycle[c].todo = {}
  /\ \E failed \in SUBSET ToNotify :
       /\ MayHappen(Cardinality(failed))
       /\ misses' = misses + Cardinality(failed)
       /\ events' = [k \in DOMAIN events |->
            IF k \in ToNotify \ failed THEN [events[k] EXCEPT !.mails = @ + 1]
            ELSE events[k]]
  /\ cycle' = [cycle EXCEPT ![c] = AfterCycle(@)]
  /\ UnchangedBook /\ UNCHANGED <<importVars, due, lots>>

\* Anything else of the cycle fails (the calculations, the SELECT, the
\* aggregation, the alerts, the metrics), or the platform stops the handler:
\* it ends, and the import it was to run with it.
FailCycle(c) ==
  /\ cycle[c].pc \in {"calculate", "select", "look", "record"} /\ MayHappen(1)
  /\ cycle' = [cycle EXCEPT ![c] = Off]
  /\ misses' = misses + 1
  /\ UnchangedBook /\ UNCHANGED <<importVars, due, lots, events>>

BeginImport(c) ==
  /\ cycle[c].pc = "import"
  /\ StartNightly(c)
  /\ cycle' = [cycle EXCEPT ![c].pc = "importing"]
  /\ UnchangedBook /\ UNCHANGED <<due, lots, events, misses>>

RunImport(c) ==
  /\ cycle[c].pc = "importing"
  /\ ImportStep(c)
  /\ cycle' = IF importer'[c].pc = "idle" THEN [cycle EXCEPT ![c] = Off] ELSE cycle
  /\ UnchangedBook /\ UNCHANGED <<due, lots, events, misses>>

HandlerStep(c) ==
  \/ Fire(c) \/ Calculate(c) \/ SelectPositions(c)
  \/ LookForEvent(c) \/ RecordEvent(c) \/ Notify(c) \/ BeginImport(c) \/ RunImport(c)
-----------------------------------------------------------------------------
\* Everything else.

\* Mails are counted as long as the window lasts.
Older(e) ==
  CASE e.age = MaxAge     -> e
    [] e.age = MaxAge - 1 -> [e EXCEPT !.age = MaxAge, !.mails = 0]
    [] OTHER              -> [e EXCEPT !.age = @ + 1]

\* A quarter of an hour passes, once the triggers were delivered and their
\* handlers have ended.
Tick ==
  /\ due = {} /\ \A c \in Nightly : ~Running(c)
  /\ clock' = (clock + 1) % Day
  /\ due' = Delivered(clock')
  /\ events' = [k \in DOMAIN events |-> Older(events[k])]
  /\ UNCHANGED <<importVars, lots, cycle, others, misses>>

\* PATCH /breaches/:id with 'acknowledged', unconditional. (With 'resolved' it
\* writes a column the table does not have and always fails.)
Acknowledge ==
  /\ MayHappen(1)
  /\ others' = others + 1
  /\ \E k \in DOMAIN events : events' = [events EXCEPT ![k].open = FALSE]
  /\ UNCHANGED <<importVars, clock, due, lots, cycle, misses>>

\* The pre-trade validation records a breach, without looking for one.
ForeignEvent ==
  /\ MayHappen(1)
  /\ others' = others + 1
  /\ \E pos \in Positions : \E rule \in RulesOf[pos] :
       events' = Append(events, NewEvent(pos, rule, "pre-trade"))
  /\ UNCHANGED <<importVars, clock, due, lots, cycle, misses>>

\* An import on request with its calculations, start to end (MarketImport
\* interleaves its steps).
RequestedImport ==
  /\ ~AlreadyImported(published) /\ Len(uploads) < MaxUploads
  /\ uploads' = Append(uploads, "completed")
  /\ limits' = {[date |-> published, upload |-> Len(uploads) + 1]}
  /\ wiped' = FALSE
  /\ lots' \in Books
  /\ UNCHANGED <<published, importer, together, importFailures>>
  /\ UNCHANGED <<clock, due, events, cycle, others, misses>>

Next ==
  \/ Tick \/ Acknowledge \/ ForeignEvent \/ RequestedImport
  \/ \E c \in Nightly : HandlerStep(c) \/ Late(c) \/ FailPosition(c) \/ FailCycle(c)

\* Time goes on, the platform delivers each trigger sooner or later (in time,
\* but for MaxOdd of them) and a handler runs on until it ends.
Fairness == WF_vars(Tick) /\ \A c \in Nightly : WF_vars(HandlerStep(c))

Spec == Init /\ [][Next]_vars /\ Fairness

-----------------------------------------------------------------------------
(* Properties.                                                             *)

TypeOK ==
  /\ ImportTypeOK
  /\ clock \in 0..(Day - 1) /\ due \subseteq Nightly
  /\ lots \in Books
  /\ \A k \in DOMAIN events : events[k] \in Event
  /\ \A c \in Nightly :
       /\ cycle[c].pc \in {"off", "calculate", "select", "look", "record", "import",
                           "importing"}
       /\ cycle[c].todo \subseteq Violation
       /\ cycle[c].pc = "record" => cycle[c].todo # {}
       /\ cycle[c].pc = "importing" <=> Importing(c)

\* The open events that the code looks for.
OpenEvents(key, rule) ==
  {k \in DOMAIN events : events[k].key = key /\ events[k].rule = rule /\ events[k].open}

\* Looking for an open event and recording one are two statements, and two
\* triggers run the cycle at the hour of a daily job. A breach that lasts, of
\* however many contract months, is nevertheless never recorded twice but by
\* those two: whatever was acknowledged meanwhile, each of the two has at most
\* one open event of a key and a rule.
TwinsAtMost ==
  \A key \in Keys, rule \in Rules : \A c \in Nightly :
    /\ Cardinality({k \in OpenEvents(key, rule) : events[k].by = c}) <= 1
    /\ \A k, l \in OpenEvents(key, rule) :
         k # l /\ {events[k].by, events[l].by} \subseteq Nightly =>
           events[k].age = events[l].age

\* A statement that fails skips the rest of a row's violations, and so does a
\* handler that ends. What a cycle has put on record is nevertheless never the
\* lesser breach alone: an accountability level is only reported along with a
\* position limit, and an event of one, of this cycle or an earlier one, is
\* there before that of the level, whatever failed, crossed or was acknowledged.
CriticalBeforeHigh ==
  \A k \in DOMAIN events :
    events[k].by \in Nightly /\ events[k].rule.type # "position_limit" =>
      \E j \in 1..(k - 1) : /\ events[j].key = events[k].key
                           /\ events[j].rule.type = "position_limit"

\* A critical breach recorded by a cycle does not leave the notification
\* window without a mail, unless it was acknowledged, though one trigger came
\* late, one cycle failed or one mail was lost: the window is longer than the
\* time between two cycles.
OneMissTolerated ==
  [][\A k \in DOMAIN events :
       /\ events[k].open /\ events[k].by \in Nightly
       /\ events[k].rule.type = "position_limit"
       /\ events[k].age < MaxAge /\ events'[k].age = MaxAge
       /\ misses <= 1
       => events[k].mails >= 1]_vars

\* ... and sendCriticalBreachNotifications takes up one breach event three times
\* at most: in the cycles of two quarters of an hour, of which one may be the
\* twin cycles'. (The alerts of the same cycle mail the position's percentage on
\* their own account, with every calculation: README, section 3.)
ThriceAtMost == \A k \in DOMAIN events : events[k].mails <= 3

\* A breach that lasts, be it now of this contract month and now of that, is on
\* record as open again and again, acknowledged events notwithstanding: no event
\* of another component, no twin cycle and no failed check hides it for good.
\* That is a promise about the key the code looks by: as long as the event of
\* one month is open, the other months' breaches of the rule have none.
BreachesRecorded ==
  \A key \in Keys, rule \in Rules :
    <>[](\E pos \in Positions : Key[pos] = key /\ Detectable(pos, rule)) =>
      []<>(OpenEvents(key, rule) # {})
=============================================================================
