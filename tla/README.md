# Trade Nexus: TLA+ models of the compliance back end

Trade Nexus is a position-limit compliance system: a Cloudflare Worker
(`backend/src`, Hono routes over a D1/SQLite database, a KV cache and cron
triggers) and a Next.js front end. This directory holds TLA+ models of its
core, TLC instances that check them, and TLAPS proofs.

The code never opens a transaction: apart from a few `db.batch` calls every
handler, service and job is a **sequence of single SQL statements**, each atomic,
with `await`s in between. Requests, imports and cron jobs interleave at these points, and
any statement may fail (or the Worker be stopped) and leave the earlier ones
committed. The models follow that shape: one action per statement together with the
computation up to the next one, one record of local variables per handler, and an
action in which a handler fails.

`PROJECT.json` maps every definition to the lines it stands for and lists the
components, hazards, runs, mutants, findings and theorems. Paths below are
relative to `backend/src`.

## 1. Inventory

### Components modelled

| component | state | operations | interacts with | hard behaviour | what makes it correct |
|---|---|---|---|---|---|
| Position limit calculator (`services/limit-calculator.ts`) | `limit_calculations` (rows with `is_active`) | 4 limit types x 3 passes, orphan parents | reads `temp_transactions` (CSV import), mapping, market limits; started by cron, monitoring, imports and `POST /calculate` | overlapping runs, optimistic lock per row, runs that stop half-way, order of passes, days | each row replaced once, nothing vanishes, one active row per child's position and at most one per market location for a parent's, parents total their children |
| Limit rules (the arithmetic of the former and of `services/pre-trade-validation-service.ts`) | none | contract months, diminishing limits, flags, blocking | bid weeks (spot month), exemptions | month ends, year end, leap day, rounding, boundaries | limit types partition the months, spot month never goes back, engines agree |
| Bid weeks and holidays (`services/bid-week-service.ts`, `routes/bid-week.ts`) | `exchange_holidays`, `bid_week_schedules` | add/update/delete/bulk holidays, generate, regenerate, auto-generate, status | pre-trade validation asks for the spot month | the schedule is a cache that each holiday change must rebuild; scan date by date while others write | stored schedule = definition; answers by definition |
| Pre-trade checks (`services/pre-trade-service.ts`, `routes/pre-trade.ts`) | `pre_trade_checks`, `position_breach_events` | validate, batch-validate | reads `limit_calculations`, `risk_thresholds`; regulatory compliance | events then check, failure between | no check without its events |
| Trade approvals (`routes/trade-approvals.ts`) | `trade_approvals`, `pre_trade_audit` | create, approve, reject | updates `pre_trade_checks` | tested and decided in two statements; 2-3 statements per decision | decided only by who found it pending, check follows decisions, releases audited |
| Regulatory compliance (`services/regulatory-compliance.ts`) | `regulatory_rules` (read) | rule check, breach events | transactions, pre-trade, monitoring | which of several rules acts | used through the modules of its callers |
| Transactions (`routes/transactions.ts`; rows of `routes/csv-import.ts`) | `transactions` | post, delete, import row | regulatory compliance | sum, check and insert are separate | hard limits, bounded overshoot, deletes what it found |
| Cron jobs and monitoring (`scheduled.ts`, `wrangler.toml`, `services/realtime-monitoring.ts`, `routes/monitoring.ts`) | `position_breach_events` | cycle: recalculate, detect, record, notify; acknowledge | calculator, compliance, market limits, pre-trade events | two triggers at one time, late triggers, failed cycles, look then insert, a window of 20 minutes for a job of 15 | what keeps breaching has an open event, per code, location and limit type, once per twin; the critical breach comes before the lesser; mails tolerate a miss |
| Imports of the limits file (`routes/data-import.ts`, `importICEData`) | `market_limits`, `file_uploads` | on request, nightly | read by the calculator, monitoring, aggregation | DELETE, then a batch | empty only in between; copies only of overlapping imports |
| Sessions and passwords (`services/auth-service.ts`, `routes/auth.ts`) | `users` (count, lock, password), `sessions`, `password_resets` | login, refresh, logout, forgot, reset | browser store, limiter | read then write, three-statement reset | old sessions end, locks hold |
| Limiter of the authentication routes (`rateLimit` in `middleware/auth.ts`) | `rate_limits` | count, refuse, clean | in front of the former | read then count, no unique counter | bounded admissions |
| Session store of the browser (`frontend/src/store/auth-store.ts`) | zustand store and its copy in localStorage | login, logout, refresh, profile, reload | the former, by answers in any order | answers after logout or another login | authenticated means complete |
| Hedge exemptions (`routes/exemptions.ts`) | `hedge_exemptions` | create, approve, deny, delete | limit rules | read pending, then decide | decided only by who found it pending |
| Financial records (`routes/financial.ts`, trigger of migration 0016) | `bank_accounts`, `financial_transactions` | create, complete | - | completed again by a retry | money moves once |
| Aggregated positions (`services/aggregation-service.ts`) | `aggregated_positions` | read, deactivate, insert | cycle, `POST /aggregation/calculate` | two statements, several companies | one active aggregate per company |

### Not modelled, and why

| component | reason |
|---|---|
| Alerts (`services/alert-service.ts`) | looked up and inserted like breach events, but by the id of a calculation row (lines 86-90): each new row is alerted anew, and mailed to whoever subscribes to `all` (142-144, 275-284), every quarter of an hour for as long as the breach lasts. No part of the code promises less, so there is nothing to check; the bounds on mails in `Monitoring` are not about these |
| Generic approvals, calculation exceptions, documents, subscriptions | a status changed by one unconditional statement, read by nothing else |
| The general rate limiter and the one for API keys | the first names a column (`identifier`) its table lacks and lets every request pass when a statement fails; the second is imported nowhere |
| Cache | one caller, a minute to live, no invalidation, over KV, which is only eventually consistent |
| Front-end alert and dashboard stores | lists as last fetched |
| Trade approval service | imported by nothing |
| Reference data, audit trail, logs, tickets | one-row statements; where a missing entry matters, the model has it (`ReleasesAudited`) |
| `POST /users/change-password` (`routes/users.ts:285-341`) | would change the password and keep the sessions, but binds `user.userId`, which the signed-in user does not have, and so fails before it writes anything |
| Regulatory filings, reports, dashboards, analytics | read and format |
| Single sign-on, encryption, e-mail | external protocols, cryptography, formatting |
| Middleware, validation helpers, front-end pages | stateless, or rendering. `frontend/storybook-static` is generated |

## 2. Plan

Order: the calculator first, since everything else reads its rows; then the gates
in front of a trade; then the monitoring cycle that closes the loop; then the portal around them.

| module | builds on | abstract view | run(s) | proved in |
|---|---|---|---|---|
| `LimitCalculator` | - | ids with owner and successor | `limit_calculator`, two violations | `LimitCalculator_proofs` |
| `LimitRules` | `Calendar` | - | `limit_rules`, one violation | `Calendar_proofs` |
| `BidWeek` | `Calendar` | cache = definition (an invariant) | `bid_week` | `Calendar_proofs` |
| `PreTrade` | `Compliance` | implements `Decision` | `pre_trade`, one violation | `PreTrade_proofs` |
| `Transactions` | `Compliance` | - | `transactions` | `Transactions_proofs` |
| `MarketImport` | - | - | `portal`, one violation | `MarketImport_proofs` |
| `Monitoring` | `MarketImport`, `Compliance` | - | `monitoring` | `Monitoring_proofs` |
| `Sessions`, `AuthStore`, `AuthRateLimit` | - | - | `portal` | `Auth_proofs` |
| `Exemptions` | - | implements `Decision` | `portal` | `Records_proofs` |
| `FinancialRecords` | - | implements `Ledger` | `portal` | `Records_proofs` |
| `Aggregation` | - | - | `portal` | `Records_proofs` |

Each safety invariant and each action property that a passing run checks is a theorem as well; the one
property left to TLC alone is `BreachesRecorded`, a liveness property (section 5).

What a next step would be: the step from `Monitoring`'s recalculation, which takes any position, to
`LimitCalculator`'s rows, and the end of a calculator run: that one which is not stopped handles every position.

Bounds: two concurrent handlers everywhere (each hazard listed involves two
actors), three where a pair must be observed by a third; two to three rows.

## 3. The modules

### LimitCalculator

A run is one call of a `calculate...Limits` function. Its locals
are `run[r]`; `pc` names the next statement: `query` (joined rows of a contract
month), `read` (previous active row), `deactivate` (`UPDATE ... WHERE id = ? AND
is_active = 1`), `sum` (a parent's children), `insert`, then `findOrphans` and
`orphans`. The ids of rows are indexes into `rows`, which is only appended to.
`Abort` stops a run anywhere. The import empties and refills
`temp_transactions` in two actions. `prev`, `by`, `lost`, `skipped` and
`overlap` are history variables that no guard reads.

`createOrphanParents` joins `mapping` on a commodity code that is not unique: NG is mapped at two
market locations (migrations 0002:47 and 0027:150), so one undisturbed run over a feed with only
its child makes two active parents of one position. `MissingParents` has that join (`Locations`).
A later run reads the newest of them and replaces that one only; the other stays active, with its old figures.

Abstractions: a total is the set of summed rows; limits, percentages and
exemptions are left to `LimitRules`; the exempt list, time series export and logs are left out;
month names are numbers and the clock's days do not reach the end of a month
(month turns are `LimitRules`' subject).

*Run `limit_calculator`* (two runs, two commodities, one reporting under the
other and mapped at two locations, two feeds, an empty or a seeded table, three days, limit types 1 and 2):
`TypeOK`; `ReplacedOnce`, what the optimistic lock is for; `InactiveAccounted`,
an inactive row has a successor, a run about to insert it, or a run that
stopped; `SkipMeansTakenOver`, a skipped position really was taken by another run;
`SerialActiveBound` and `SerialParentTotal`, what runs that never overlapped
guarantee whatever else failed: a child's position has one active row at most, a parent's no more than its
code has market locations, and parents total their children. Two runs suffice for a race on one row, two feeds and the
child-only one for orphans, three days for a previous row of an earlier
day, the same day and the day after.

*Runs expected to be violated:* `limit_recalculated` (recalculating an unchanged
day doubles the position) and `limit_orphans` (two children without a parent
get none).

When no previous row exists the lock locks nothing and overlapping runs both
insert: that is why `SerialActiveBound` is conditional.

### Calendar, LimitRules

`Calendar` gives months and dates the order of their strings and `setMonth` its
overflow. `LimitRules` (`RulesSpec`) holds both engines' rules for one position and
lets a clock run over 96 days (29 December 2027 to 2 April 2028: year end, leap
February, the overflow at the end of January).

*Run `limit_rules`*: `MonthsPartitioned`; `SpotMovesOn`, the spot months stay or move on by one, never back and never past a month; `DiminishingTightens`;
`EnginesAgree` (stated for long positions without exemption: the calculator
compares signed positions, so a short position is never flagged).
*`limit_spot_month`* is violated on 30 January, when "next month" is March.

The SQL of `pre-trade-validation-service.ts` asks for columns that no migration creates
(`net_position`, `market_limits.limit_type`); its rules are modelled, its queries are not.

### BidWeek

A request is `exists`/`change` (holiday statements), `need`, `select`, `scan`
(one `isGoodBusinessDay` query per weekday), `store`. Weekends need no query in the
model since the code decides them before asking. Tables are those of
`migrations_backup/0020`; the current migration set lacks
`exchange_holidays.updated_at`, which `PUT` and `DELETE` name, so the model is of a
database that has it.

*Run `bid_week`* (two requests, one three-day exchange, two months over a year end, two
possible holidays): `RowsWellFormed` whatever overlaps and fails;
`ScheduleFresh`, the store equals the definition unless a holiday change failed
half-way or met another request; `StatusByDefinition` for the answers. The
definition (`ByDefinition`) counts days and shares nothing with the
scan. The months of a year are a set of which the earliest is generated next. A month whose scan runs out before
it has found its N good days is given up (the error is caught, `Fail`), and *its old row stays*: should holidays
leave a month fewer than five trading days, its schedule is not rebuilt. `EnoughTradingDays` says that the holidays
that may be entered never do; `MCBidWeek` has TLC evaluate it, and the theorems about freshness name it as their
hypothesis. Two requests are what it takes for a scan to see half a
change; the two months make one holiday change regenerate one year and not the other.

### Compliance, PreTrade

`Compliance` is `checkRegulatoryCompliance` as operators. In `PreTrade` a
handler validates a list of trades (`read`, one `record` step per breach event,
save) or decides an approval request (`decide`, `release`, `audit`). `given`
and `id` of a check, `started`, `raced` and `broken` are history.

*Run `pre_trade`* (two handlers, up to two trades in one or two requests, two approval requests, rule
books with blocking and approval rules, a long and a short book):
`BreachesBeforeCheck`, `DecisionFinal`, `CheckFollowsDecisions`,
`ReleasesAudited`, and `ApprovalDecisions`: the approvals implement `Decision` (below). The exceptions named in them (`raced`, `broken`) are the two
weaknesses of the code: status tested in one statement and changed in another, and decisions of several
statements. *`pre_trade_thresholds`* is violated: the row
type `block` is not the status `blocked`.

Seen while modelling and followed by the model: an accountability level never makes a check
non-compliant; the pre-trade verdict takes the first critical rule's action where
POST /transactions takes the most restrictive; an approval can be requested for
a blocked check; `expires_at` is stored and never read; a batch checks every
trade against the book alone.

### Transactions

A POST sums, checks and inserts; a DELETE finds and deletes. `drift` (how far
others moved the position since a handler summed it), `found`, `nth`, `removed` are
history.

*Run `transactions`* (two handlers, three rows, lots of +-7 around a limit of 7): `InsertWithinLimit`, a
booked trade exceeds a blocking limit only by the drift; `OvershootBounded`, so the
position never exceeds the largest of them by more than one trade per other handler plus
what was deleted unchecked; `DeletesWhatItFound`, which rests on AUTOINCREMENT.

Followed by the model: a 202 "pending approval" keeps nothing; imported rows carry no
`exchange_id`, so no sum counts them, while the import's own aggregation reads
`status = 1` and POST's sum `status = 0`.

### Decision, Exemptions

`Decision` is what the review of requests promises, whatever is reviewed: requests are
submitted, a reviewer who finds one *pending* has it in mind, and decides it
or withdraws. Two reviewers may have the same request in mind, and then the later has
the last word; `Final` says nobody else changes a decision. Both the trade approvals of
`PreTrade` (a mind is a handler at its UPDATE) and the exemptions implement it:
`ApprovalDecisions` and `ExemptionDecisions`. Exemptions are approved, denied or
deleted, each by a SELECT, a test and a statement by id alone, which has no effect
on a row that is gone: a deleted request stays deleted.

### MarketImport, Monitoring

The rows of one file are a *copy*: one batch inserts them, one statement deletes them all.
A request records its upload, looks for the date, deletes, inserts and settles; every
early return of the code is one of `AfterLook`. The nightly import names columns
the table lacks, so its INSERT fails and leaves the table empty.
*Violated:* `NeverLeftEmpty` (run `market_import`), with no failure injected.
`EmptyExplained` and `CopiesOverlapped` hold in run `portal`.

`Monitoring` adds the cron triggers. `wrangler.toml` has one trigger for every quarter of
an hour and one for each daily job, and the handler asks for the time, not for the trigger:
at the hour of a daily job *both* run the cycle side by side, and each the
job. A trigger delivered a minute late does nothing (`Late`). A cycle recalculates (the rows take any sizes
of `Books`, or the old ones when `market_limits` is empty and the joins find nothing; calculations on request,
`POST /calculate/all`, leave what these may find), selects the active parent rows, one per contract month,
checks them with `Compliance`, looks for an open event of each violation, records one,
and mails. An event is looked for by rule, code, market location and limit type, **not by contract month**: `Key` maps a row to
what it is looked up by. `FailPosition` skips the rest of a row of the join, `FailCycle` ends the handler and the
import after it. Time passes in ticks of a quarter of an hour; a cycle is assumed to take less than five
minutes, so that the 20 minutes of the notification window are "the last tick's events and
newer ones".

*Run `monitoring`* (both triggers, a day of two ticks so that every other hour is
one of a daily job, two contract months of one key that are both within or both beyond their limits, a position limit and a lower
accountability level of another exchange, one odd event): `TwinsAtMost`, a lasting breach is open twice only for the two triggers of
one time; `CriticalBeforeHigh`, no failure leaves the lesser breach of a key on record without the
critical one before it; `ThriceAtMost` and `OneMissTolerated` on the mails of `sendCriticalBreachNotifications`;
`BreachesRecorded` (liveness): for each key and rule, as long as some month is detectable an event is open again and again, though
events are acknowledged and other components record theirs.

Seen while modelling and followed by the model:

- The key has no contract month, and an event closes only by being acknowledged: while the event of one month is
  open, the breach of another month of the same code, location and limit type is **not recorded**, however long it lasts.
  `BreachesRecorded` and `TwinsAtMost` are about keys for this reason.
- The exchange of a position is that of the joined rows of `market_limits`. Where these have none, `exchangeId` is null and the rules of
  **every** exchange apply: so it is with all rows of a file, and before any import with the rows of migration 0027 (NG, CL, RB, HO
  and others), which come after 0025 has set the exchanges. A code listed with and without an
  exchange is joined with both. The shipped rules are for NG and CL.
- The shipped rules are of one type for each code and limit type. Since an accountability level alone leaves a check compliant, it is reported only where
  an operator has added a position limit beside it, or the other way round; the instance is such a rule book.
- The comment "Get all unnotified critical breaches" (`realtime-monitoring.ts:230`) stands over a query by
  age alone: `sendCriticalBreachNotifications` takes up an event in two cycles, three in a twin hour. These are not all the
  mails a recipient gets about one breach: step 4 of the cycle (alerts, section 1) sends the same
  kind of mail for each new calculation row, every quarter of an hour without bound.
- `pos_pct >= 85` is signed: a short position is never selected, nor are children totals, though
  the comment at line 102 speaks of all active positions.
- `PATCH /breaches/:id` with `resolved` writes `resolved_by`, which the table lacks, and always fails; only acknowledging
  has an action. `POST /monitoring/run` only reads.
- Alerts, aggregation and metrics come between recording and mailing: their failure is one of
  `FailCycle`'s. Aggregating has a module of its own.

### Sessions, AuthStore, AuthRateLimit

`Sessions` is the account of one user. A login reads the user (password and lock), then counts a failure by a
read and a write, or clears the count *and the lock* and inserts a session. A reset changes the
password, uses the token, deletes the sessions. Any statement may fail. A session remembers the password it was
opened with. The count is kept up to `MAX_ATTEMPTS`, beyond which nothing asks for it; the expiry of tokens
is subsumed, as an open one may stay unused. Requests are taken as authorized.
`OldSessionsExplained`: after a reset a session of an older password is left only while a reset is under way, after
one stopped half-way, or if its login had verified the old password before (`late`).
`LockedAgainstLater`: only a login that read the user before the lock was written can still lift it.

`AuthStore` is the browser's store: which of its fields are set. Calls are answered in
any order, also after logging out. `refreshSession` sends `refresh_token` where the
back end reads `refreshToken`; both answers are modelled. `migrate` of the persisted store is left out: it is called only for a stored copy of
a version other than the one this code stores. `AuthenticatedWhole`: whoever is authenticated has
user and tokens, the only thing the page guard relies on. `TornOnlyByStray`: a store that is
neither whole nor empty comes from an answer to a refresh or profile after logging out.

`AuthRateLimit` is one client and endpoint: read the counter, raise or insert one, delete old ones. `AdmittedBounded`: the
limit plus two for each other request at a time, one for finding no counter and one for reading the
last slot together. A request is assumed to end within the minute after its own (`RequestMinutes`).

### FinancialRecords, Ledger, Aggregation

Completing a transaction is an UPDATE that does not ask for the status, with a trigger that does.
`MovesMoneyOnce`: the records implement `Ledger`, where a payment settles once.

`Aggregation` saves a group's total in two statements, for the company named or for none (NULL is its own scope).
`OneAggregate`: a company has one active aggregate, whatever is done for others, unless its
savings crossed or the last one stopped half-way. The sums are left out; note that members are joined with `market_limits`, so two
rows of a commodity count its position twice.

*Run `portal`*: these parts and `MarketImport`, `Exemptions` and `FinancialRecords` share no table, so
checking them together adds nothing but states: `MCPortal` chooses one part per behaviour, and the
others rest. Two requests (three slots for imports with the cron trigger), two accounts, two
transactions, two resets, three passwords and three minutes: each race needs two actors and an
observer, and each "old" thing one newer.

## 4. Deadlock, fairness, mutants

No fairness is assumed of requests: nothing in a Worker guarantees that one finishes. The exception is
`Monitoring`, where `Fairness` is weak fairness of `Tick` and of `HandlerStep(c)` of each
trigger: time goes on, the platform delivers triggers and runs a handler to its end. Failures and late
triggers are not fair, and at most `MaxOdd` of them happen in a behaviour: without that
bound a platform that misses every trigger would satisfy the model, and no property of it could hold.
`BreachesRecorded` says what the code adds to this: the next cycles do record the breach.

Deadlock is checked where requests go on for ever (`bid_week`, `pre_trade`, `transactions`,
`monitoring`); it is off where the model ends by construction (runs executed once, a clock that reaches its last day, tables
at their bound).

Every property of a passing run has a mutant: a definition changed as a plausible bug would
(unchecked row count, parents before children, holiday change without
regeneration, a trigger without its test, ...), under which TLC finds the property violated. Mutant operators
stand beside the definition they change, under a comment starting with "Mutant:".

## 5. Proofs

All theorems hold for every value of the constants, from the named assumptions of the modules.

| module | theorem | statement |
|---|---|---|
| `LimitCalculator_proofs` | `TypeCorrect` | `Spec => []TypeOK` |
| | `LockSafe`, `NothingVanishes`, `SkipSound` | `[]ReplacedOnce`, `[]InactiveAccounted`, `[]SkipMeansTakenOver` |
| | `RowsPerPosition`, `ParentsTotal` | `[]SerialActiveBound`, `[]SerialParentTotal`, by `SerialInvariant` |
| `PreTrade_proofs` | `ReviewTypeOK` | `Spec => []TypeOK` |
| | `BreachesOnRecord` | `[]BreachesBeforeCheck` |
| | `ChecksFollow`, `ReleasesLogged` | `[]CheckFollowsDecisions`, `[]ReleasesAudited`, by `FollowInvariant` |
| | `ApprovalsImplementDecision`, `DecisionsFinal` | `ApprovalDecisions`; `DecisionFinal`, by `RivalsOnRecord` |
| `Transactions_proofs` | `TradesTypes` | `Spec => []TypeOK` |
| | `InsertsWithinLimit`, `DeletesFound` | `InsertWithinLimit`, `DeletesWhatItFound` |
| | `OvershootIsBounded` | `[]OvershootBounded` |
| `Monitoring_proofs` | `MonitoringTypeOK` | `Spec => []TypeOK` |
| | `TwinsOnly`, `CriticalFirst` | `[]TwinsAtMost`, `[]CriticalBeforeHigh` |
| | `MailedThrice`, `MissTolerated` | `[]ThriceAtMost`, `OneMissTolerated` |
| `MarketImport_proofs` | `EmptyIsExplained`, `CopiesHaveOverlapped` | `ImportSpec => []EmptyExplained`, `[]CopiesOverlapped` |
| `Calendar_proofs` | `BidWeekTypes`, `SchedulesWellFormed` | `Spec => []TypeOK`, `[]RowsWellFormed` of `BidWeek` |
| | `StoreIsFresh`, `StatusIsByDefinition` | `[]ScheduleFresh`, `[]StatusByDefinition`, given `EnoughTradingDays` |
| | `MonthsArePartitioned`, `TheEnginesAgree` | `RulesSpec => []MonthsPartitioned`, `[]EnginesAgree` of `LimitRules` |
| | `SpotMonthsMoveOn`, `LimitsTighten` | `SpotMovesOn`, `DiminishingTightens` |
| `Auth_proofs` | `LocksHold`, `OldSessions` | `SessionsSpec => []LockedAgainstLater`, `[]OldSessionsExplained` |
| | `AuthenticatedIsWhole`, `TornIsStray` | `AuthStoreSpec => []AuthenticatedWhole`, `[]TornOnlyByStray` |
| | `Admitted` | `RateSpec => []AdmittedBounded` |
| `Records_proofs` | `DecisionsAreFinal` | `DecisionSpec => Final` |
| | `ExemptionTypes`, `ExemptionsImplementDecision` | `ExemptionsSpec => []ExemptionTypeOK`, `ExemptionDecisions` |
| | `RecordsImplementLedger` | `FinancialSpec => MovesMoneyOnce` |
| | `OneAggregateOnly` | `AggregationSpec => []OneAggregate` |

### What is assumed

The assumptions are those of the modules, and TLC evaluates them in the runs. Most give the types of the constants. These
say something of the system, and where it is from:

- `LimitCalculator`'s: the seeded rows are active, without predecessors and one per position, as a database is to which only runs
  that did not overlap have written; a code of the mapping has a market location, and finitely many.
- `TransactionsAssumption` and `RateAssumption`: finitely many requests are under way at a time, and lots come from a finite set, so that the largest
  trade of `OvershootBounded` exists. The number of either is arbitrary.
- `MonitoringAssumption`: one of the daily triggers is the import's, and the hours of daily jobs are more than two quarters of
  an hour apart (`wrangler.toml`); limits of positions are positive, which the calculator divides by.
- `CalendarAssumption`, `RulesAssumption`: dates are numbers of months and days, as `Calendar` makes them; holidays and
  questions are about months in range.
- `EnoughTradingDays` is no assumption of the module but a hypothesis of `StoreIsFresh` and
  `StatusIsByDefinition` alone (section 3, BidWeek).

### The arguments

**LimitCalculator.** From the assumptions of the module (mapping, feeds, seeds and clock of the right
types; seeds active, without predecessors and one per position).
`TypeOK` is inductive with `LocalsOK`, which ties each program counter to the
locals that must be set. `ReplacedOnce` is not inductive: an insert may only be allowed
when the row it replaces is inactive and has no successor. `LockInv` adds
`HeldOnce` (the row a run *holds* between its UPDATE and its INSERT is
inactive, not yet replaced, and held by no other run) and `WaitingTakenOver`
(the row a run is about to deactivate is active, or another run has taken it over)
to the three properties. The optimistic UPDATE is the only way to get hold of a row
and needs it active, an insert or a stop ends the hold. `StepEffect`
reduces the twelve actions to five effects on the table and the holds (quiet,
takes over, skips, inserts, stops), and one lemma per effect shows that it keeps `LockInv`. Type lemmas go field by field, since the SMT backend
loses itself in updates of large records.

*Runs that do not overlap* need more, since a run works on what it has read: `SerialInv` says of the one run that is
active that the items of its last pass are the parents, that the row it read as previous is the active row
of its position, that after the UPDATE the position has room for another (`Room`: fewer active rows than its bound), that the children a parent has added up are those
there are, and that the rows it has written are the last and hold no parent before the last pass. While orphan parents are made, those
already active and those still pending for an orphan are together no more than its code has market locations (`Fits`): a code has one orphan, since an orphan is
the only child of its code, and the SELECT lists it once per location. Where none was active, nothing has to be made room for; where `previous` was found, its UPDATE takes one
away, and that it was found at all is because some active row is the newest. Hence every INSERT
keeps the bound (`WithinBound`). The totals of the latest run stand (`TotalsStand`) because children are all
written before it adds up, until another run takes a row out of use or becomes the latest by writing one.
One lemma per action (`...Alone`), each over one frame lemma for the steps that leave the table.

**Decision.** A decided request is not pending, so nobody can come to have it in mind again, and who
has none cannot decide: `Decided` is inductive for each request. **PreTrade** needs only that approvals are a
sequence of requests and a deciding handler has one of them (`Types`); each step then submits, considers,
decides, withdraws or is nothing to the review (`StepKinds` and one lemma each). `DecisionFinal` needs
`NoRival`: of two handlers that have the same request in mind, the request is on record
as `raced`. For the rows, `RowsInv` has every reference name a row that exists, and `IdsInv` gives each
handler that validates a range of ids of its own, so that no more checks are saved than trades were submitted, and no two checks share breach events. `BreachInv`
says of the trade at hand that a violated rule is either still to be written or has its event; the check is
saved when none is left. `FollowInv` follows a decision through its statements: a check proceeds by its
validation or an approval; an approved request has released its check, is about to, or is `broken`; a released check has its
entry, or the decision is at the audit statement, or `broken`. `CheckFollowsDecisions` and `ReleasesAudited` are what is
left of it when nothing is under way. **Exemptions** map likewise, with a reviewer whose request is gone by the time of its statement: no row is
written, and the review is withdrawn. **FinancialRecords** settle in the
step whose trigger books; a completed transaction steps to itself.

**Sessions.** `LockedAgainstLater` is inductive with the types: the lock is written together with the set of those
about to clear it, and while it holds no reader gets that far. `OldSessionsExplained` is
inductive too: a password changes only in a step that leaves its reset between statements, and the reset
ends by deleting all sessions or by being recorded as `halfway`. **AuthStore** needs that an unauthenticated store is empty
or has had a stray answer (`StoreInv`). **MarketImport**'s
`ImportInv` adds that the uploads of any two requests under way are in `together` (`PairsKnown`) and that so
are a copy in force and the upload of a request past its DELETE (`InForceKnown`): the copies that it will meet when it inserts.

**AuthRateLimit.** Per minute, `WindowInv` balances the counters against the requests at each statement: the requests
let through are at most what the first counter has counted and one for each further counter; the counters and the requests about to
insert one are no more than all requests; and the first counter with the requests about to raise it exceeds the limit by no
more than the other requests. Numbers are cardinalities of sets of calls, of which a step moves one. **Aggregation.** Two savings of one company between their statements, and a saving and an active
row inserted since it began, are in `crossed`; so two active aggregates are too.

**Transactions.** `TradesInv` keeps, of each handler, that what it has seen plus what others have moved since (`drift`) is the
position with its trade, that past the check what it has seen is within the limits, and that ids are the
numbers of INSERTs, so a found row is the row with its id. The two action properties follow at once. `OvershootBounded`
is about a sum over a set of trades and a number of handlers. Each pending handler may still add the largest
trade, but *one* of those pending has its own trade already in what it has seen: `OverInv` says that position plus
pending load stay below the cap, or that they do with one such handler counted by its own lots. It is stated for both directions, less what was
deleted unchecked. The sum is a fold, whose value over a set with one more element is shown without an induction theorem: by a
least counterexample among the subsets, which `WFMin` of the library provides.

**Monitoring.** `TwinsInv`: of a breach each trigger has at most one open event, those of two triggers are of
one age, and what is open of it when a handler is about to record is another's and, if a trigger's, of this tick: nothing was
open when it looked, and no tick passes while a cycle runs. `NotifyInv`: the mails of an event and the triggers that have yet to
notify are at most the triggers of the tick, or three a quarter of an hour later; an open critical event without a mail has its own cycle
yet to notify or a miss on record, and a quarter of an hour later a miss and the next cycle or two misses. Of two ticks in a row only one is the
hour of a daily job (`MonitoringAssumption`): two would make it four mails. `CriticalInv`: for each accountability level that a cycle has listed, a position limit of the same row is listed as well or
on record. The check reports them together; the order of the rules takes the limit up first; and what fails
takes the whole rest of the row off the list.

**BidWeek.** `BidWeekInv` has two parts. `BasicInv` holds whatever overlaps and fails: types, each request's locals
in order (what is still to be scanned lies before what was found), rows well formed. `Cache` holds while no change of holidays has met
another request or failed: a change has the service to itself (`Alone`), a scan has found exactly the good days
it has passed (`FoundBy`), and a stored row is the one the holidays define *or is `Due`*, that is, still among the
months, years or changes that the change has on its list (`Kept`). Writing a holiday makes stale only the rows of its exchange and year, all of
which its handler has on its list; storing takes the month off. That N found days are the *last* N is counted with cardinalities of
sets of days. **LimitRules** needs only that `today` is a date; what is
proved are facts of the calendar, months of 28 to 31 days and the overflow of `setMonth` among them, by case
distinction on the month's length, and inequalities of the limits.

### What is not proved

`BreachesRecorded` is liveness under fairness and stays with TLC; so does whatever would need `ENABLED`, and deadlock freedom. No module declares a
RECURSIVE operator. The runs expected to be violated refute statements of documents and tests, there is nothing to prove of them.

## 6. Running

    tlc -workers 2 -config MCPortal.cfg MCPortal
    tlapm MarketImport_proofs.tla

The runs take from seconds to a few minutes, the proofs up to ten minutes each (`Calendar_proofs` and
`PreTrade_proofs` are the longest); `tlapm` keeps what it has proved, so that a second call is quick.
