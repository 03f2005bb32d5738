---------------------------- MODULE Transactions ----------------------------
(***************************************************************************)
(* Entering and deleting trades (src/backend/src/routes/transactions.ts),  *)
(* for the trades of one market location on one exchange.                  *)
(*                                                                         *)
(* POST adds the trade to the sum of the booked trades, checks the result  *)
(* against the regulatory rules and inserts the row; DELETE looks for the  *)
(* row and deletes it. Each is several statements without a transaction:   *)
(*                                                                         *)
(*    SumPosition -> CheckRules -> Insert            Find -> Delete        *)
(*                                                                         *)
(* Requests that are refused for a missing field, exchange or mapping do   *)
(* not touch the table and are left out.                                   *)
(***************************************************************************)
EXTENDS Compliance, FiniteSets, FiniteSetsExt

CONSTANTS
  Handlers,   \* the requests being served at a time
  Lots,       \* signed sizes of the trades
  Days,       \* days from today to the contract month of a trade
  RuleBooks,  \* what regulatory_rules may hold, by limit category
  MaxRows     \* bound on the trades ever entered

Categories == {"spot_month", "single_month", "all_month"}

ASSUME TransactionsAssumption ==
  /\ IsFiniteSet(Handlers) /\ Handlers # {}
  /\ IsFiniteSet(Lots) /\ Lots # {}
  /\ Lots \subseteq Int /\ Days \subseteq Int /\ MaxRows \in Nat
  /\ \A book \in RuleBooks : book \in [Categories -> SUBSET Rule]

VARIABLES
  rules,    \* the active rules, by limit category
  rows,     \* transactions
  entered,  \* history: number of INSERTs so far
  removed,  \* history: lots that were deleted
  handler   \* [Handlers -> the local variables]

vars == <<rules, rows, entered, removed, handler>>

-----------------------------------------------------------------------------
\* A row of transactions. booked: status = 0 and the exchange is recorded, so
\* that POST counts it; nth: history, the number of its INSERT.
Row == [id : Nat, lots : Int, booked : BOOLEAN, category : Categories, nth : Nat]

\* seen: the projected position the check is made with. found: history, the
\* nth of the row a DELETE has found. drift: history, how far other requests
\* have moved the position since it was summed.
Idle == [pc |-> "idle", lots |-> 0, booked |-> TRUE, category |-> "all_month",
         seen |-> 0, drift |-> 0, id |-> 0, found |-> 0]

Init ==
  /\ rules \in RuleBooks
  /\ rows = {}
  /\ entered = 0
  /\ removed = 0
  /\ handler = [h \in Handlers |-> Idle]

At(h, pc) == handler[h].pc = pc

SumLots(set) == MapThenSumSet(LAMBDA r : r.lots, set)
Booked == {r \in rows : r.booked}

\* The net position of the market, over all contract months.
Position == SumLots(Booked)

\* The limit category of a trade, by the time to its contract month.
Category(days) ==
  CASE days <= 30 -> "spot_month"
    [] days > 30 /\ days <= 90 -> "single_month"
    [] OTHER -> "all_month"

\* Mutant: the position of the trade's own limit category.
CategorySum(h) == SumLots({r \in Booked : r.category = handler[h].category})

SummedFor(h) == Position

\* 403 for a blocking position limit, 202 when an approval is demanded; both
\* only if the check is not compliant.
Refused(category, lots) ==
  /\ ~Compliant(rules[category], lots)
  /\ Enforcement(rules[category], lots) \in {"block_trade", "require_approval"}

-----------------------------------------------------------------------------
(* POST /api/transactions                                                  *)

StartPost(h) ==
  /\ At(h, "idle")
  /\ \E lots \in Lots, days \in Days, booked \in BOOLEAN :
       handler' = [handler EXCEPT ![h] =
         [Idle EXCEPT !.pc = "sum", !.lots = lots, !.booked = booked,
                      !.category = Category(days)]]
  /\ UNCHANGED <<rules, rows, entered, removed>>

SumPosition(h) ==
  /\ At(h, "sum")
  /\ handler' = [handler EXCEPT ![h].pc = "check", ![h].seen = SummedFor(h) + handler[h].lots]
  /\ UNCHANGED <<rules, rows, entered, removed>>

\* A trade that is refused is only answered: nothing is kept of it, also when
\* the answer is "pending approval".
CheckRules(h) ==
  LET me == handler[h]
  IN  /\ At(h, "check")
      /\ handler' = [handler EXCEPT ![h] =
           IF Refused(me.category, me.seen) THEN Idle ELSE [me EXCEPT !.pc = "insert"]]
      /\ UNCHANGED <<rules, rows, entered, removed>>

\* Mutant: a primary key without AUTOINCREMENT, which takes the largest id in
\* the table plus one.
LargestIdPlusOne == 1 + (IF rows = {} THEN 0 ELSE Max({r.id : r \in rows}))

\* Mutant: the number of rows plus one.
CountPlusOne == 1 + Cardinality(rows)

\* AUTOINCREMENT never hands out an id twice.
NewId == entered + 1

\* The handlers after h has moved the position by lots: h is done, and the
\* others' sums are out of date by as much.
After(h, lots) ==
  [g \in Handlers |-> IF g = h THEN Idle
                      ELSE IF handler[g].pc \in {"check", "insert"}
                      THEN [handler[g] EXCEPT !.drift = @ + lots]
                      ELSE handler[g]]

Insert(h) ==
  LET me == handler[h]
  IN  /\ At(h, "insert") /\ entered < MaxRows
      /\ entered' = entered + 1
      /\ rows' = rows \cup {[id |-> NewId, lots |-> me.lots, booked |-> me.booked,
                             category |-> me.category, nth |-> entered + 1]}
      /\ handler' = After(h, IF me.booked THEN me.lots ELSE 0)
      /\ UNCHANGED <<rules, removed>>

\* A row of a CSV import: inserted without a check and without an exchange_id,
\* so that no sum counts it (routes/csv-import.ts).
ImportRow ==
  /\ entered < MaxRows
  /\ entered' = entered + 1
  /\ \E lots \in Lots, days \in Days :
       rows' = rows \cup {[id |-> NewId, lots |-> lots, booked |-> FALSE,
                          category |-> Category(days), nth |-> entered + 1]}
  /\ UNCHANGED <<rules, removed, handler>>

-----------------------------------------------------------------------------
(* DELETE /api/transactions/:id                                            *)

Find(h) ==
  /\ At(h, "idle")
  /\ \E r \in rows :
       handler' = [handler EXCEPT ![h] =
         [Idle EXCEPT !.pc = "delete", !.id = r.id, !.found = r.nth]]
  /\ UNCHANGED <<rules, rows, entered, removed>>

Delete(h) ==
  LET gone == {r \in rows : r.id = handler[h].id}
      lots == SumLots(gone \cap Booked)
  IN  /\ At(h, "delete")
      /\ rows' = rows \ gone
      /\ removed' = removed + Size(lots)
      /\ handler' = After(h, -lots)
      /\ UNCHANGED <<rules, entered>>

\* A statement fails: 500.
Fail(h) ==
  /\ ~At(h, "idle")
  /\ handler' = [handler EXCEPT ![h] = Idle]
  /\ UNCHANGED <<rules, rows, entered, removed>>

Next ==
  \/ ImportRow
  \/ \E h \in Handlers :
       \/ StartPost(h) \/ SumPosition(h) \/ CheckRules(h) \/ Insert(h)
       \/ Find(h) \/ Delete(h)
       \/ Fail(h)

Spec == Init /\ [][Next]_vars

-----------------------------------------------------------------------------
(* Properties.                                                             *)

\* The rows have distinct ids, and a handler that is past its sum has one.
TypeOK ==
  /\ rules \in RuleBooks
  /\ rows \subseteq Row
  /\ \A r, s \in rows : r.id = s.id => r = s
  /\ entered \in 0..MaxRows /\ removed \in Nat
  /\ \A h \in Handlers :
       /\ handler[h].pc \in {"idle", "sum", "check", "insert", "delete"}
       /\ handler[h].category \in Categories
       /\ handler[h].seen \in Int /\ handler[h].drift \in Int

\* The position limits that block a trade of a category.
HardLimits(category) ==
  {r.limit : r \in {x \in rules[category] :
                      x.type = "position_limit" /\ x.action = "block_trade"}}

InsertsBooked(h) ==
  At(h, "insert") /\ handler[h].booked /\ entered' = entered + 1 /\ handler'[h] = Idle

\* A booked trade never takes the net position beyond a blocking limit of its
\* category, except by as much as other requests moved the position between
\* the sum and the insert (transactions.ts, POST: sum, check and insert are
\* separate statements).
InsertWithinLimit ==
  [][\A h \in Handlers : InsertsBooked(h) =>
       \A limit \in HardLimits(handler[h].category) :
         Size(Position' - handler[h].drift) <= limit]_vars

\* How far concurrent requests can overshoot: every request but one may still
\* add a trade that was checked against an older sum, and a deletion, which is
\* not checked at all, may take away a trade that offset the others. Stated
\* for rule books in which every category has a blocking limit.
OvershootBounded ==
  (\A category \in Categories : HardLimits(category) # {}) =>
    Size(Position) <=
        Max({Min(HardLimits(category)) : category \in Categories})
      + (Cardinality(Handlers) - 1) * Max({Size(lots) : lots \in Lots})
      + removed

\* A DELETE never deletes a row other than the one it found, however many
\* deletions and insertions come between its two statements.
DeletesWhatItFound ==
  [][\A r \in rows \ rows' : \E h \in Handlers : At(h, "delete") /\ handler[h].found = r.nth]_vars
=============================================================================
