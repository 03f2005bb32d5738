----------------------------- MODULE Aggregation -----------------------------
(***************************************************************************)
(* The aggregated positions of one group of commodities                    *)
(* (src/backend/src/services/aggregation-service.ts). The monitoring cycle *)
(* aggregates for no company in particular, POST /aggregation/calculate    *)
(* for the company it names:                                               *)
(*                                                                         *)
(*    read group, members and positions -> deactivate -> insert            *)
(***************************************************************************)
EXTENDS Naturals

CONSTANTS
  Aggregators,   \* the cycles and requests that aggregate at a time
  Companies,     \* the companies positions are aggregated for
  AnyCompany,    \* NULL: no company in particular
  MaxSavings     \* bound on the aggregates saved

Scopes == Companies \cup {AnyCompany}

VARIABLES
  active,      \* aggregated_positions: the active rows, [number, company]
  aggregator,  \* [Aggregators -> the local variables]
  savings,     \* number of savings begun
  crossed,     \* history: the pairs of savings under way at the same time
  saved,       \* history: the companies an aggregate was saved for
  dropped      \* history: the companies whose last saving stopped half-way

aggregationVars == <<active, aggregator, savings, crossed, saved, dropped>>

\* number: tells the savings apart.
Waiting == [pc |-> "idle", number |-> 0, company |-> AnyCompany]

AggregationInit ==
  /\ active = {} /\ savings = 0
  /\ aggregator = [a \in Aggregators |-> Waiting]
  /\ crossed = {} /\ saved = {} /\ dropped = {}

\* The aggregators between the two statements of saveAggregatedPosition.
Saving(company) ==
  {a \in Aggregators : aggregator[a].pc = "insert" /\ aggregator[a].company = company}

\* calculateGroupAggregation. A group that is unknown or without members ends
\* it; the arithmetic over the members is left out.
ReadGroup(a, company) ==
  /\ aggregator[a].pc = "idle"
  /\ aggregator' = [aggregator EXCEPT ![a] =
       [Waiting EXCEPT !.pc = "deactivate", !.company = company]]
  /\ UNCHANGED <<active, savings, crossed, saved, dropped>>

\* Mutant: the rows of every company are deactivated.
OfGroup(company) == active

\* company_id = ? OR (company_id IS NULL AND ? IS NULL)
OfCompany(company) == {row \in active : row.company = company}

Deactivate(a) ==
  LET me == aggregator[a]
      new == savings + 1
  IN  /\ me.pc = "deactivate" /\ savings < MaxSavings
      /\ active' = active \ OfCompany(me.company)
      /\ savings' = new
      /\ aggregator' = [aggregator EXCEPT ![a] = [@ EXCEPT !.pc = "insert", !.number = new]]
      /\ crossed' = crossed \cup {{new, aggregator[b].number} : b \in Saving(me.company)}
      /\ UNCHANGED <<saved, dropped>>

InsertAggregate(a) ==
  LET me == aggregator[a]
  IN  /\ me.pc = "insert"
      /\ active' = active \cup {[number |-> me.number, company |-> me.company]}
      /\ aggregator' = [aggregator EXCEPT ![a] = Waiting]
      /\ saved' = saved \cup {me.company}
      /\ dropped' = dropped \ {me.company}
      /\ UNCHANGED <<savings, crossed>>

\* A statement fails: the error is logged, the next group's turn.
FailGroup(a) ==
  LET me == aggregator[a]
  IN  /\ me.pc # "idle"
      /\ aggregator' = [aggregator EXCEPT ![a] = Waiting]
      /\ dropped' = IF me.pc = "insert" THEN dropped \cup {me.company} ELSE dropped
      /\ UNCHANGED <<active, savings, crossed, saved>>

AggregationNext ==
  \E a \in Aggregators :
    \/ \E company \in Scopes : ReadGroup(a, company)
    \/ Deactivate(a) \/ InsertAggregate(a) \/ FailGroup(a)

AggregationSpec == AggregationInit /\ [][AggregationNext]_aggregationVars

-----------------------------------------------------------------------------
\* Two active aggregates of a company: their savings crossed.
TwoOnlyIfCrossed ==
  \A row, other \in active :
    row # other /\ row.company = other.company => {row.number, other.number} \in crossed

\* None where there was one: a saving is half-way, or stopped there.
NoneOnlyHalfway ==
  \A company \in saved :
    (\A row \in active : row.company # company) =>
      Saving(company) # {} \/ company \in dropped

\* Deactivating the old aggregate and inserting the new one are two statements
\* without a transaction (aggregation-service.ts:213, 222). A company's view of
\* a group (is_active = 1) nevertheless has its one aggregate, whatever was
\* aggregated for others meanwhile, except for savings that crossed or stopped
\* between the two.
OneAggregate == TwoOnlyIfCrossed /\ NoneOnlyHalfway
=============================================================================
