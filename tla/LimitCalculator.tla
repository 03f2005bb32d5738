-------------------------- MODULE LimitCalculator --------------------------
(***************************************************************************)
(* The position-limit calculation engine                                   *)
(* (src/backend/src/services/limit-calculator.ts).                         *)
(*                                                                         *)
(* A run (cron cycle, import, POST /calculate/all, ...) walks the joined   *)
(* rows of temp_transactions in three passes and replaces, position by     *)
(* position, the active row of limit_calculations by a new one:            *)
(*                                                                         *)
(*    Query -> ReadPrevious -> Deactivate -> SumChildren -> Insert         *)
(*                                                                         *)
(* Each of these is one D1 statement and there is no transaction, so the   *)
(* statements of several runs interleave and a run can stop after any.     *)
(*                                                                         *)
(* total_pos_lots is kept as the set of child rows that were summed        *)
(* ("kids"), the sum itself being a function of that set. Limits,          *)
(* exemptions and percentages are the subject of LimitRules.               *)
(***************************************************************************)
EXTENDS Integers, Sequences, FiniteSets

CONSTANTS
  Runs,        \* the calculation runs of a behaviour, each executed once
  Codes,       \* commodity codes of the mapping table
  NULL,        \* SQL NULL
  Agg1,        \* [Codes -> Codes + NULL]: aggregate_1_positive_correlation
  Agg2,        \* [Codes -> Codes + NULL]: aggregate_2_negative_correlation
  Locations,   \* [Codes -> the market locations mapping lists under a code]
  Feeds,       \* the contents temp_transactions can be filled with
  Seeds,       \* what limit_calculations holds before the first run
  LimitTypes,  \* the limit types the runs are started for, of 1..4
  NextMonth,   \* the month after the current one; months are numbers
  DayLength,   \* clock ticks (created_at values) in a day
  MaxTime      \* bound on the clock

Months == NextMonth .. NextMonth + 3

\* A row of temp_transactions joined with mapping and market_limits.
Entry == [code : Codes, month : Months, qty : Int]

\* A row of limit_calculations. "prev" and "by" are history: the row whose
\* place it took (0: none) and the run that inserted it. mkt_index is left out:
\* nothing in the engine looks a row up by it.
Row == [child : Codes, code : Codes, lt : 1..4, month : Months, asOf : Nat,
        created : Nat, upd : Int, pos : Int, kids : SUBSET Nat, parent : BOOLEAN,
        active : BOOLEAN, prev : Nat, by : Runs \cup {NULL}]

ASSUME MappingAssumption ==
  /\ NULL \notin Codes \cup Runs
  /\ Agg1 \in [Codes -> Codes \cup {NULL}]
  /\ Agg2 \in [Codes -> Codes \cup {NULL}]
  /\ \A c \in Codes : IsFiniteSet(Locations[c]) /\ Locations[c] # {}

ASSUME FeedAssumption ==
  /\ \A feed \in Feeds : feed \subseteq Entry
  /\ LimitTypes \subseteq 1..4
  /\ NextMonth \in Nat

\* The table starts with active rows of an earlier day, one per position, as
\* migration 0002 leaves it.
ASSUME SeedAssumption ==
  /\ Seeds \subseteq Seq(Row)
  /\ \A seed \in Seeds : \A i \in DOMAIN seed :
       /\ seed[i].active /\ seed[i].prev = 0 /\ seed[i].by = NULL
       /\ seed[i].asOf = 0 /\ seed[i].created = 0
       /\ \A j \in DOMAIN seed :
            /\ seed[i].child = seed[j].child
            /\ seed[i].code = seed[j].code
            /\ seed[i].lt = seed[j].lt
            /\ seed[i].month = seed[j].month
            => i = j

ASSUME ClockAssumption ==
  /\ DayLength \in Nat \ {0}
  /\ MaxTime \in Nat

VARIABLES
  temp,        \* temp_transactions
  rows,        \* limit_calculations; the id of a row is its index
  now,         \* the clock behind new Date() and CURRENT_TIMESTAMP
  run,         \* [Runs -> the local variables of the run]
  importing,   \* a CSV import has emptied temp_transactions and not refilled it
  lost,        \* history: <<run, row>> deactivated by a run that then stopped
  skipped,     \* history: <<run, row>> given up after a concurrent deactivation
  overlap      \* history: two runs have been active at the same time

vars == <<temp, rows, now, run, importing, lost, skipped, overlap>>

-----------------------------------------------------------------------------
\* Mutant: the parents are calculated first.
ParentFirst == <<"parent", "pos_child", "nag_child">>

Passes == <<"pos_child", "nag_child", "parent">>

Day(t) == t \div DayLength
Today == Day(now)

\* The reporting code a commodity is counted under in a pass (NULL: not in it).
ReportingCode(c, pass) ==
  IF pass = "parent"
  THEN IF Agg1[c] = c /\ Agg2[c] = NULL THEN c ELSE NULL
  ELSE LET agg == IF pass = "pos_child" THEN Agg1[c] ELSE Agg2[c]
       IN  IF agg # c THEN agg ELSE NULL

\* Mutant: getMonth() taken without the + 1.
CurrentMonth(lt) ==
  CASE lt = 2 -> {e.month : e \in {x \in temp : x.month > NextMonth}}
    [] lt = 4 -> {NextMonth}
    [] OTHER  -> {NextMonth - 1}

\* getContractMonths: type 2 lists the months that temp_transactions holds
\* beyond the spot month, the other types have one month.
ContractMonths(lt) ==
  CASE lt = 2 -> {e.month : e \in {x \in temp : x.month > NextMonth}}
    [] lt = 4 -> {NextMonth + 1}
    [] OTHER  -> {NextMonth}

\* The rows the query of calculatePositions joins for one contract month.
Joined(pass, lt, month) ==
  {[child |-> e.code, code |-> ReportingCode(e.code, pass),
    month |-> e.month, qty |-> e.qty] :
     e \in {x \in temp : /\ ReportingCode(x.code, pass) # NULL
                         /\ IF lt = 3 THEN x.month >= month ELSE x.month = month}}

Ids == DOMAIN rows
ActiveIds == {i \in Ids : rows[i].active}

\* Mutant: only rows of the current day count as previous.
TodaysCandidates(item, lt, month) ==
  {i \in ActiveIds : /\ rows[i].child = item.child
                     /\ rows[i].code = item.code
                     /\ rows[i].lt = lt
                     /\ rows[i].month = month
                     /\ rows[i].asOf = Today}

\* The active rows that "previous" is looked for in: the month is that of the
\* loop over the contract months.
Candidates(item, lt, month) ==
  {i \in ActiveIds : /\ rows[i].child = item.child
                     /\ rows[i].code = item.code
                     /\ rows[i].lt = lt
                     /\ rows[i].month = month}

\* ORDER BY created_at DESC LIMIT 1, which leaves a tie open.
Newest(ids) == {i \in ids : \A j \in ids : rows[j].created <= rows[i].created}

\* The active child rows a parent adds up.
ChildIds(code, lt, month) ==
  {i \in ActiveIds : /\ rows[i].child # code
                     /\ rows[i].code = code
                     /\ rows[i].lt = lt
                     /\ rows[i].month = month}

\* The active rows createOrphanParents selects: alone in their code's group,
\* and not a parent.
OrphanIds(lt) ==
  {i \in ActiveIds : /\ rows[i].lt = lt
                     /\ rows[i].child # rows[i].code
                     /\ \A j \in ActiveIds :
                          rows[j].lt = lt /\ rows[j].code = rows[i].code => j = i}

\* What its LEFT JOIN with mapping returns: an orphan once for every market
\* location of its reporting code, deleted mappings included.
MissingParents(lt) ==
  UNION {{<<i, place>> : place \in Locations[rows[i].code]} : i \in OrphanIds(lt)}
-----------------------------------------------------------------------------
Item == [child : Codes, code : Codes, month : Months, qty : Int]

NoItem == [child |-> NULL, code |-> NULL, month |-> 0, qty |-> 0]

Idle == [pc |-> "idle", lt |-> 0, all |-> {}, months |-> {}, pass |-> 1,
         month |-> 0, asOf |-> 0, todo |-> {}, item |-> NoItem, prev |-> 0,
         pos |-> 0, kids |-> {}, orphans |-> {}]

Stopped == {"idle", "done", "aborted"}
Active(r) == run[r].pc \notin Stopped

\* A run holds the row it deactivated until it has inserted the successor.
Holds(r, i) == run[r].pc \in {"sum", "insert"} /\ run[r].prev = i

Init ==
  /\ temp \in Feeds
  /\ rows \in Seeds
  /\ now = DayLength
  /\ run = [r \in Runs |-> Idle]
  /\ importing = FALSE
  /\ lost = {}
  /\ skipped = {}
  /\ overlap = FALSE

\* The continuation after a statement: the next joined row, the next contract
\* month, the next pass (which reads asOfDate anew), or createOrphanParents.
Continue(s) ==
  CASE s.todo # {}                      -> [s EXCEPT !.pc = "read"]
    [] s.todo = {} /\ s.months # {}     -> [s EXCEPT !.pc = "query"]
    [] s.todo = {} /\ s.months = {} /\ s.all # {} /\ s.pass < Len(Passes) ->
         [s EXCEPT !.pc = "query", !.pass = @ + 1, !.months = s.all, !.asOf = Today]
    [] OTHER                            -> [s EXCEPT !.pc = "findOrphans", !.asOf = Today]

\* The item's local variables go out of scope.
ItemDone(s) ==
  Continue([s EXCEPT !.item = NoItem, !.prev = 0, !.pos = 0, !.kids = {}])

\* The locals of a run that has listed its contract months.
Started(lt) ==
  [Idle EXCEPT !.lt = lt, !.asOf = Today,
               !.all = ContractMonths(lt), !.months = ContractMonths(lt)]

\* calculateSpotMonthLimits and its three siblings.
Start(r, lt) ==
  /\ run[r].pc = "idle"
  /\ run' = [run EXCEPT ![r] = Continue(Started(lt))]
  /\ overlap' = (overlap \/ \E s \in Runs : Active(s))
  /\ UNCHANGED <<temp, rows, now, importing, lost, skipped>>

\* ... and one that has fetched the joined rows of a contract month.
Fetched(s, month) ==
  [s EXCEPT !.months = @ \ {month}, !.month = month,
            !.todo = Joined(Passes[s.pass], s.lt, month)]

\* The query of one contract month; the months are taken in order.
Query(r) ==
  /\ run[r].pc = "query"
  /\ \E month \in run[r].months :
       /\ \A m \in run[r].months : month <= m
       /\ run' = [run EXCEPT ![r] = Continue(Fetched(@, month))]
  /\ UNCHANGED <<temp, rows, now, importing, lost, skipped, overlap>>

\* A parent adds up its children before it is inserted, a child does not.
BeforeInsert(item) == IF item.code = item.child THEN "sum" ELSE "insert"

\* The locals after the SELECT of the previous row: posLots is the feed's
\* quantity, plus the previous one if that is of the same as_of_date.
WithoutPrevious(s, item) ==
  [s EXCEPT !.todo = @ \ {item}, !.item = item, !.pos = item.qty,
            !.pc = BeforeInsert(item)]

WithPrevious(s, item, p) ==
  [s EXCEPT !.todo = @ \ {item}, !.item = item, !.prev = p, !.pc = "deactivate",
            !.pos = IF rows[p].asOf = s.asOf THEN item.qty + rows[p].pos ELSE item.qty]

ReadPrevious(r) ==
  /\ run[r].pc = "read"
  /\ \E item \in run[r].todo :
       LET found == Newest(Candidates(item, run[r].lt, run[r].month))
       IN  \/ /\ found = {}
              /\ run' = [run EXCEPT ![r] = WithoutPrevious(@, item)]
           \/ \E p \in found : run' = [run EXCEPT ![r] = WithPrevious(@, item, p)]
  /\ UNCHANGED <<temp, rows, now, importing, lost, skipped, overlap>>

Deactivated(s) == [s EXCEPT !.pc = BeforeInsert(s.item)]

\* Mutant: the number of changed rows is not looked at.
DeactivateUnchecked(r) ==
  /\ run[r].pc = "deactivate"
  /\ rows' = [rows EXCEPT ![run[r].prev].active = FALSE]
  /\ run' = [run EXCEPT ![r] = Deactivated(@)]
  /\ UNCHANGED <<temp, now, importing, lost, skipped, overlap>>

\* Mutant: every active row of the position is deactivated, not the one read.
DeactivateAll(r) ==
  /\ run[r].pc = "deactivate"
  /\ rows' = [i \in Ids |->
       IF i \in Candidates(run[r].item, run[r].lt, run[r].month)
       THEN [rows[i] EXCEPT !.active = FALSE] ELSE rows[i]]
  /\ IF rows[run[r].prev].active
     THEN /\ run' = [run EXCEPT ![r] = Deactivated(@)]
          /\ UNCHANGED skipped
     ELSE /\ run' = [run EXCEPT ![r] = ItemDone(@)]
          /\ skipped' = skipped \cup {<<r, run[r].prev>>}
  /\ UNCHANGED <<temp, now, importing, lost, overlap>>

\* Mutant: the UPDATE also asks for the day of the run.
DeactivateToday(r) ==
  /\ run[r].pc = "deactivate"
  /\ LET p == run[r].prev
     IN  \/ /\ rows[p].active /\ rows[p].asOf = run[r].asOf
            /\ rows' = [rows EXCEPT ![p].active = FALSE]
            /\ run' = [run EXCEPT ![r] = Deactivated(@)]
            /\ UNCHANGED skipped
         \/ /\ ~(rows[p].active /\ rows[p].asOf = run[r].asOf)
            /\ run' = [run EXCEPT ![r] = ItemDone(@)]
            /\ skipped' = skipped \cup {<<r, p>>}
            /\ UNCHANGED rows
  /\ UNCHANGED <<temp, now, importing, lost, overlap>>

\* UPDATE ... SET is_active = 0 WHERE id = ? AND is_active = 1, and the skip
\* when it changed no row.
Deactivate(r) ==
  /\ run[r].pc = "deactivate"
  /\ LET p == run[r].prev
     IN  \/ /\ rows[p].active
            /\ rows' = [rows EXCEPT ![p].active = FALSE]
            /\ run' = [run EXCEPT ![r] = Deactivated(@)]
            /\ UNCHANGED skipped
         \/ /\ ~rows[p].active
            /\ run' = [run EXCEPT ![r] = ItemDone(@)]
            /\ skipped' = skipped \cup {<<r, p>>}
            /\ UNCHANGED rows
  /\ UNCHANGED <<temp, now, importing, lost, overlap>>

Summed(s) == [s EXCEPT !.kids = ChildIds(s.item.code, s.lt, s.month), !.pc = "insert"]

SumChildren(r) ==
  /\ run[r].pc = "sum"
  /\ run' = [run EXCEPT ![r] = Summed(@)]
  /\ UNCHANGED <<temp, rows, now, importing, lost, skipped, overlap>>

\* The row the INSERT of calculatePositions adds; is_active defaults to 1.
NewRow(r) ==
  [child |-> run[r].item.child, code |-> run[r].item.code, lt |-> run[r].lt,
   month |-> run[r].item.month, asOf |-> run[r].asOf, created |-> now,
   upd |-> run[r].item.qty, pos |-> run[r].pos, kids |-> run[r].kids,
   parent |-> (Passes[run[r].pass] = "parent"), active |-> TRUE,
   prev |-> run[r].prev, by |-> r]

Insert(r) ==
  /\ run[r].pc = "insert"
  /\ rows' = Append(rows, NewRow(r))
  /\ run' = [run EXCEPT ![r] = ItemDone(@)]
  /\ UNCHANGED <<temp, now, importing, lost, skipped, overlap>>

Finished == [Idle EXCEPT !.pc = "done"]

\* The loop over the joined orphans that are left.
Orphans(s, left) ==
  IF left = {} THEN Finished ELSE [s EXCEPT !.pc = "orphans", !.orphans = left]

FindOrphans(r) ==
  /\ run[r].pc = "findOrphans"
  /\ run' = [run EXCEPT ![r] = Orphans(@, MissingParents(@.lt))]
  /\ UNCHANGED <<temp, rows, now, importing, lost, skipped, overlap>>

\* The parent record made up for an orphan: no position of its own, the
\* total of the child it was selected with.
OrphanRow(r, i) ==
  [child |-> rows[i].code, code |-> rows[i].code, lt |-> rows[i].lt,
   month |-> rows[i].month, asOf |-> run[r].asOf, created |-> now,
   upd |-> 0, pos |-> 0, kids |-> {i}, parent |-> TRUE, active |-> TRUE,
   prev |-> 0, by |-> r]

InsertOrphan(r) ==
  /\ run[r].pc = "orphans"
  /\ \E e \in run[r].orphans :
       /\ rows' = Append(rows, OrphanRow(r, e[1]))
       /\ run' = [run EXCEPT ![r] = Orphans(@, @.orphans \ {e})]
  /\ UNCHANGED <<temp, now, importing, lost, skipped, overlap>>

Aborted == [Idle EXCEPT !.pc = "aborted"]

\* A statement fails and the error is rethrown, or the Worker is stopped:
\* what was committed stays.
Abort(r) ==
  /\ Active(r)
  /\ run' = [run EXCEPT ![r] = Aborted]
  /\ lost' = lost \cup {<<r, i>> : i \in {j \in Ids : Holds(r, j)}}
  /\ UNCHANGED <<temp, rows, now, importing, skipped, overlap>>

-----------------------------------------------------------------------------
\* POST /csv-import/transactions rebuilds temp_transactions in two statements.
ImportDelete ==
  /\ ~importing
  /\ temp' = {}
  /\ importing' = TRUE
  /\ UNCHANGED <<rows, now, run, lost, skipped, overlap>>

ImportAggregate ==
  /\ importing
  /\ temp' \in Feeds
  /\ importing' = FALSE
  /\ UNCHANGED <<rows, now, run, lost, skipped, overlap>>

Tick ==
  /\ now < MaxTime
  /\ now' = now + 1
  /\ UNCHANGED <<temp, rows, run, importing, lost, skipped, overlap>>

Step(r) ==
  \/ \E lt \in LimitTypes : Start(r, lt)
  \/ Query(r)
  \/ ReadPrevious(r)
  \/ Deactivate(r)
  \/ SumChildren(r)
  \/ Insert(r)
  \/ FindOrphans(r)
  \/ InsertOrphan(r)
  \/ Abort(r)

Next ==
  \/ \E r \in Runs : Step(r)
  \/ ImportDelete
  \/ ImportAggregate
  \/ Tick

Spec == Init /\ [][Next]_vars
-----------------------------------------------------------------------------
\* A joined orphan: the row and a market location of its reporting code.
OrphanPlace == Nat \X UNION {Locations[c] : c \in Codes}

RunState == [pc : {"idle", "query", "read", "deactivate", "sum", "insert",
                   "findOrphans", "orphans", "done", "aborted"},
             lt : 0..4, all : SUBSET Months, months : SUBSET Months,
             pass : 1..3, month : Months \cup {0}, asOf : Nat,
             todo : SUBSET Item, item : Item \cup {NoItem}, prev : Nat,
             pos : Int, kids : SUBSET Nat, orphans : SUBSET OrphanPlace]

\* The locals a statement of the run needs are set when it gets there.
LocalsOK(s, ids) ==
  /\ s.pc \notin Stopped => s.lt \in 1..4
  /\ s.pc \in {"deactivate", "sum", "insert"} => s.item \in Item
  /\ s.pc \notin {"deactivate", "sum", "insert"} => s.prev = 0
  /\ s.pc = "deactivate" => s.prev # 0
  /\ s.prev \in ids \cup {0}
  /\ \A e \in s.orphans : e[1] \in ids

\* The types of all variables; the ids that runs and rows refer to exist.
TypeOK ==
  /\ temp \subseteq Entry
  /\ rows \in Seq(Row)
  /\ now \in Nat
  /\ run \in [Runs -> RunState]
  /\ importing \in BOOLEAN
  /\ overlap \in BOOLEAN
  /\ lost \subseteq Runs \X Ids
  /\ skipped \subseteq Runs \X Ids
  /\ \A i \in Ids : rows[i].prev < i
  /\ \A r \in Runs : LocalsOK(run[r], Ids)

\* A row is replaced at most once, and only after it was deactivated: two
\* runs that read the same previous row never both add its position to a new
\* one. This is what the optimistic lock of lines 347-358 is for.
ReplacedOnce ==
  \A j \in Ids :
    rows[j].prev # 0 =>
      /\ ~rows[rows[j].prev].active
      /\ \A k \in Ids : rows[k].prev = rows[j].prev => k = j

Replaced(i) == \E j \in Ids : rows[j].prev = i

\* No position disappears silently: an inactive row has a successor, or a run
\* is about to insert it, or that run stopped between its UPDATE and its INSERT.
InactiveAccounted ==
  \A i \in Ids :
    ~rows[i].active => \/ Replaced(i)
                       \/ \E r \in Runs : Holds(r, i)
                       \/ \E r \in Runs : <<r, i>> \in lost

\* "another process already handled this" (line 354): when a run skips a
\* position, a different run has replaced the row, is about to, or has
\* stopped in between.
TakenByOther(r, i) ==
  \E s \in Runs \ {r} : \/ (\E j \in Ids : rows[j].prev = i /\ rows[j].by = s)
                         \/ Holds(s, i)
                         \/ <<s, i>> \in lost

SkipMeansTakenOver == \A e \in skipped : TakenByOther(e[1], e[2])

\* As long as no two runs were ever active together, a child's position has at
\* most one active row and a parent's no more than its code has market
\* locations (as many as one createOrphanParents makes), whatever runs were
\* stopped half-way and however the days and the feed changed: no later
\* calculation or orphan adds to them. (Not for limit type 3, whose rows carry
\* a month the next run does not look them up by.)
SamePosition(i, j) ==
  /\ rows[i].child = rows[j].child
  /\ rows[i].code = rows[j].code
  /\ rows[i].lt = rows[j].lt
  /\ rows[i].month = rows[j].month

ActiveBound(row) ==
  IF row.child = row.code THEN Cardinality(Locations[row.code]) ELSE 1

SerialActiveBound ==
  ~overlap => \A i \in ActiveIds : rows[i].lt # 3 =>
    Cardinality({j \in ActiveIds : SamePosition(j, i)}) <= ActiveBound(rows[i])

\* When runs did not overlap, the parents written by the latest run, once it
\* is past its passes, total exactly the child rows that are active: the
\* three passes and the orphans run children first.
PastPasses(r) == run[r].pc \in {"findOrphans", "orphans", "done"}

SerialParentTotal ==
  \A r \in Runs :
    /\ ~overlap
    /\ PastPasses(r)
    /\ \A s \in Runs \ {r} : run[s].pc \in {"idle", "done"}
    /\ rows # << >> /\ rows[Len(rows)].by = r
    => \A i \in ActiveIds :
         rows[i].by = r /\ rows[i].parent /\ rows[i].lt # 3
           => rows[i].kids = ChildIds(rows[i].code, rows[i].lt, rows[i].month)

\* "Step 1: Recalculate positions" (realtime-monitoring.ts:48): temp_transactions
\* holds each position in full, so a row that was just calculated shows that
\* position, however often the day's feed was calculated. The code adds the
\* feed to what the previous calculation of the day stored.
Recalculated ==
  ~overlap => \A i \in ActiveIds : rows[i].by # NULL => rows[i].pos = rows[i].upd

\* "Find reporting codes that only have children (no parent record)"
\* (limit-calculator.ts:449): when the last run has ended, undisturbed, every
\* reporting code it counted has a parent record. The code makes one only for
\* a code with a single active row.
OrphanCovered ==
  /\ ~overlap
  /\ \A s \in Runs : run[s].pc \in {"idle", "done"}
  /\ rows # << >> /\ rows[Len(rows)].by # NULL
  => LET lt == rows[Len(rows)].lt
     IN  \A i \in ActiveIds : rows[i].lt = lt =>
           \E j \in ActiveIds : /\ rows[j].lt = lt
                                /\ rows[j].code = rows[i].code
                                /\ rows[j].child = rows[i].code
=============================================================================
