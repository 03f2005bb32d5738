----------------------- MODULE LimitCalculator_proofs -----------------------
(***************************************************************************)
(* Proofs about LimitCalculator for any mapping, feed, number of runs and  *)
(* length of the clock: type correctness, what the optimistic lock of      *)
(* calculatePositions guarantees, and what runs leave that do not overlap: *)
(* a child's position with one active row and a parent's with no more than *)
(* its code has market locations, and parents that total their children.   *)
(***************************************************************************)
EXTENDS LimitCalculator, SequenceTheorems, FiniteSetTheorems, TLAPS

\* Days are counted from the clock's ticks.
LEMMA DayType == ASSUME NEW t \in Nat PROVE Day(t) \in Nat
  BY ClockAssumption DEF Day

\* The months a run may ask for.
LEMMA MonthsType ==
  /\ NextMonth \in Months
  /\ NextMonth + 1 \in Months
  /\ Months \subseteq Int
  BY FeedAssumption DEF Months

\* A child reports to a commodity of the mapping or to none.
LEMMA ReportingCodeType ==
  ASSUME NEW c \in Codes, NEW pass \in {"pos_child", "nag_child", "parent"}
  PROVE  ReportingCode(c, pass) \in Codes \cup {NULL}
  BY MappingAssumption DEF ReportingCode

\* The three passes, in the order of the code.
LEMMA PassesType ==
  /\ Len(Passes) = 3
  /\ \A k \in 1..3 : Passes[k] \in {"pos_child", "nag_child", "parent"}
  BY DEF Passes

\* What a joined query returns is well typed.
LEMMA JoinedType ==
  ASSUME temp \subseteq Entry, NEW k \in 1..3, NEW lt, NEW month
  PROVE  Joined(Passes[k], lt, month) \subseteq Item
  <1> SUFFICES ASSUME NEW e \in temp, ReportingCode(e.code, Passes[k]) # NULL
               PROVE  [child |-> e.code, code |-> ReportingCode(e.code, Passes[k]),
                       month |-> e.month, qty |-> e.qty] \in Item
    BY DEF Joined
  <1>1. e.code \in Codes /\ e.month \in Months /\ e.qty \in Int
    BY DEF Entry
  <1>2. ReportingCode(e.code, Passes[k]) \in Codes
    BY <1>1, PassesType, ReportingCodeType
  <1> QED
    BY <1>1, <1>2 DEF Item

\* Contract months are months.
LEMMA ContractMonthsType ==
  ASSUME temp \subseteq Entry, NEW lt
  PROVE  ContractMonths(lt) \subseteq Months
  BY MonthsType DEF ContractMonths, Entry

\* Assigning one local of a run a value of its type keeps the run well-typed.
LEMMA SetPc ==
  ASSUME NEW u \in RunState,
         NEW v \in {"idle", "query", "read", "deactivate", "sum", "insert",
                     "findOrphans", "orphans", "done", "aborted"}
  PROVE  [u EXCEPT !.pc = v] \in RunState
  BY DEF RunState

\* The updates of a run's locals, a field at a time: the limit type, ...
LEMMA SetLt ==
  ASSUME NEW u \in RunState,
         NEW v \in 0..4
  PROVE  [u EXCEPT !.lt = v] \in RunState
  BY DEF RunState

\* ... the contract months of the limit type, ...
LEMMA SetAll ==
  ASSUME NEW u \in RunState,
         NEW v \in SUBSET Months
  PROVE  [u EXCEPT !.all = v] \in RunState
  BY DEF RunState

\* ... those still to be queried, ...
LEMMA SetMonths ==
  ASSUME NEW u \in RunState,
         NEW v \in SUBSET Months
  PROVE  [u EXCEPT !.months = v] \in RunState
  BY DEF RunState

\* ... the one at hand, ...
LEMMA SetMonth ==
  ASSUME NEW u \in RunState,
         NEW v \in Months \cup {0}
  PROVE  [u EXCEPT !.month = v] \in RunState
  BY DEF RunState

\* ... the day of the run, ...
LEMMA SetAsOf ==
  ASSUME NEW u \in RunState,
         NEW v \in Nat
  PROVE  [u EXCEPT !.asOf = v] \in RunState
  BY DEF RunState

\* ... the positions still to be saved, ...
LEMMA SetTodo ==
  ASSUME NEW u \in RunState,
         NEW v \in SUBSET Item
  PROVE  [u EXCEPT !.todo = v] \in RunState
  BY DEF RunState

\* ... the one at hand, ...
LEMMA SetItem ==
  ASSUME NEW u \in RunState,
         NEW v \in Item \cup {NoItem}
  PROVE  [u EXCEPT !.item = v] \in RunState
  BY DEF RunState

\* ... its previous row, ...
LEMMA SetPrev ==
  ASSUME NEW u \in RunState,
         NEW v \in Nat
  PROVE  [u EXCEPT !.prev = v] \in RunState
  BY DEF RunState

\* ... its position, ...
LEMMA SetPos ==
  ASSUME NEW u \in RunState,
         NEW v \in Int
  PROVE  [u EXCEPT !.pos = v] \in RunState
  BY DEF RunState

\* ... the children summed for it, ...
LEMMA SetKids ==
  ASSUME NEW u \in RunState,
         NEW v \in SUBSET Nat
  PROVE  [u EXCEPT !.kids = v] \in RunState
  BY DEF RunState

\* ... and the rows still without a parent.
LEMMA SetOrphans ==
  ASSUME NEW u \in RunState,
         NEW v \in SUBSET OrphanPlace
  PROVE  [u EXCEPT !.orphans = v] \in RunState
  BY DEF RunState

\* Continue keeps the types of the locals and never leaves a run idle.
LEMMA ContinueType ==
  ASSUME now \in Nat, NEW s \in RunState
  PROVE  /\ Continue(s) \in RunState
         /\ Continue(s).pc \in {"read", "query", "findOrphans"}
         /\ Continue(s).lt = s.lt
         /\ Continue(s).prev = s.prev
         /\ Continue(s).orphans = s.orphans
  <1>1. Today \in Nat
    BY DayType DEF Today
  <1>2. s.pass < Len(Passes) => s.pass + 1 \in 1..3
    BY PassesType DEF RunState
  <1> QED
    BY <1>1, <1>2 DEF Continue, RunState

\* A run that is done with a position goes on with the same limit type.
LEMMA ItemDoneType ==
  ASSUME now \in Nat, NEW s \in RunState
  PROVE  /\ ItemDone(s) \in RunState
         /\ ItemDone(s).pc \in {"read", "query", "findOrphans"}
         /\ ItemDone(s).lt = s.lt
         /\ ItemDone(s).prev = 0
         /\ ItemDone(s).orphans = s.orphans
  <1> DEFINE t == [s EXCEPT !.item = NoItem, !.prev = 0, !.pos = 0, !.kids = {}]
  <1>1. [s EXCEPT !.item = NoItem] \in RunState
    BY SetItem
  <1>2. [s EXCEPT !.item = NoItem, !.prev = 0] \in RunState
    BY <1>1, SetPrev
  <1> DEFINE u == [s EXCEPT !.item = NoItem, !.prev = 0]
  <1>3. [u EXCEPT !.pos = 0] \in RunState
    <2> HIDE DEF u
    <2>1. u \in RunState
      BY <1>2 DEF u
    <2> QED
      BY <2>1, SetPos
  <1>4. t \in RunState
    BY <1>3, SetKids
  <1>5. t.lt = s.lt /\ t.prev = 0 /\ t.orphans = s.orphans
    BY DEF RunState
  <1> QED
    BY <1>4, <1>5, ContinueType DEF ItemDone

\* A run that has not begun, and one that has ended, hold nothing.
LEMMA IdleType ==
  /\ Idle \in RunState
  /\ Idle.pc = "idle" /\ Idle.prev = 0 /\ Idle.orphans = {}
  /\ Finished \in RunState
  /\ Finished.pc = "done" /\ Finished.prev = 0 /\ Finished.orphans = {}
  BY DEF Idle, Finished, RunState

\* Appending a row keeps the ids and rows there are.
LEMMA AppendRow ==
  ASSUME NEW s \in Seq(Row), NEW row \in Row
  PROVE  /\ Append(s, row) \in Seq(Row)
         /\ DOMAIN Append(s, row) = DOMAIN s \cup {Len(s) + 1}
         /\ Len(s) + 1 \notin DOMAIN s
         /\ \A i \in DOMAIN s : i < Len(s) + 1 /\ Append(s, row)[i] = s[i]
         /\ Append(s, row)[Len(s) + 1] = row
  OBVIOUS

-----------------------------------------------------------------------------
\* Replacing the locals of one run by well-typed ones keeps the types of all,
\* as long as no id disappears.
LEMMA RunUpdate ==
  ASSUME TypeOK, NEW r \in Runs, NEW u \in RunState, LocalsOK(u, Ids'),
         run' = [run EXCEPT ![r] = u], Ids \subseteq Ids'
  PROVE  /\ run' \in [Runs -> RunState]
         /\ \A s \in Runs : LocalsOK(run[s], Ids)'
  <1>1. run' \in [Runs -> RunState]
    BY DEF TypeOK
  <1>2. ASSUME NEW s \in Runs PROVE LocalsOK(run[s], Ids)'
    <2>1. CASE s = r
      BY <2>1 DEF LocalsOK, TypeOK
    <2>2. CASE s # r
      BY <2>2 DEF LocalsOK, TypeOK
    <2> QED
      BY <2>1, <2>2
  <1> QED
    BY <1>1, <1>2

\* Type correctness holds initially.
LEMMA TypeInit == Init => TypeOK
  <1> SUFFICES ASSUME Init PROVE TypeOK
    OBVIOUS
  <1>1. temp \subseteq Entry
    BY FeedAssumption DEF Init
  <1>2. rows \in Seq(Row) /\ \A i \in Ids : rows[i].prev < i
    BY SeedAssumption DEF Init, Ids
  <1>3. run \in [Runs -> RunState] /\ \A r \in Runs : LocalsOK(run[r], Ids)
    BY IdleType DEF Init, LocalsOK, Stopped
  <1> QED
    BY <1>1, <1>2, <1>3, ClockAssumption DEF Init, TypeOK

\* The locals of a run that goes on, if it held no row.
LEMMA ContinueLocals ==
  ASSUME now \in Nat, NEW s \in RunState, s.lt \in 1..4, s.prev = 0,
         \A e \in s.orphans : e[1] \in Ids, Ids \subseteq Ids'
  PROVE  Continue(s) \in RunState /\ LocalsOK(Continue(s), Ids')
  <1> DEFINE t == Continue(s)
  <1>1. /\ t \in RunState
        /\ t.pc \in {"read", "query", "findOrphans"}
        /\ t.lt = s.lt /\ t.prev = 0 /\ t.orphans = s.orphans
    BY ContinueType
  <1> HIDE DEF t
  <1>2. LocalsOK(t, Ids')
    BY <1>1 DEF LocalsOK, Stopped
  <1> QED
    BY <1>1, <1>2 DEF t

\* A run that begins holds nothing.
LEMMA StartedType ==
  ASSUME now \in Nat, temp \subseteq Entry, NEW lt \in LimitTypes
  PROVE  /\ Started(lt) \in RunState
         /\ Started(lt).lt = lt /\ Started(lt).prev = 0 /\ Started(lt).orphans = {}
  <1>1. lt \in 0..4 /\ Today \in Nat /\ ContractMonths(lt) \in SUBSET Months
    BY ContractMonthsType, DayType, FeedAssumption DEF Today
  <1>2. [Idle EXCEPT !.lt = lt] \in RunState
    BY <1>1, IdleType, SetLt
  <1>3. [Idle EXCEPT !.lt = lt, !.asOf = Today] \in RunState
    BY <1>1, <1>2, SetAsOf
  <1>4. [Idle EXCEPT !.lt = lt, !.asOf = Today, !.all = ContractMonths(lt)] \in RunState
    BY <1>1, <1>3, SetAll
  <1>5. Started(lt) \in RunState
    BY <1>1, <1>4, SetMonths DEF Started
  <1> QED
    BY <1>5 DEF Started, Idle

\* The query of a contract month leaves limit type and previous row.
LEMMA FetchedType ==
  ASSUME temp \subseteq Entry, NEW s \in RunState, NEW month \in s.months
  PROVE  /\ Fetched(s, month) \in RunState
         /\ Fetched(s, month).lt = s.lt
         /\ Fetched(s, month).prev = s.prev
         /\ Fetched(s, month).orphans = s.orphans
  <1> DEFINE items == Joined(Passes[s.pass], s.lt, month)
             left  == s.months \ {month}
  <1>1. left \in SUBSET Months /\ month \in Months \cup {0} /\ s.pass \in 1..3
    BY DEF RunState
  <1>2. items \in SUBSET Item
    BY <1>1, JoinedType
  <1> HIDE DEF items, left
  <1>3. [s EXCEPT !.months = left] \in RunState
    BY <1>1, SetMonths
  <1>4. [s EXCEPT !.months = left, !.month = month] \in RunState
    BY <1>1, <1>3, SetMonth
  <1>5. [s EXCEPT !.months = left, !.month = month, !.todo = items] \in RunState
    BY <1>2, <1>4, SetTodo
  <1> QED
    BY <1>5 DEF Fetched, items, left, RunState

\* Parents are summed before they are inserted, children not.
LEMMA BeforeInsertPc == \A item : BeforeInsert(item) \in {"sum", "insert"}
  BY DEF BeforeInsert

\* A position without a previous row goes on to its sum or INSERT, ...
LEMMA WithoutPreviousType ==
  ASSUME NEW s \in RunState, NEW item \in s.todo
  PROVE  /\ WithoutPrevious(s, item) \in RunState
         /\ WithoutPrevious(s, item).pc \in {"sum", "insert"}
         /\ WithoutPrevious(s, item).item = item
         /\ WithoutPrevious(s, item).lt = s.lt
         /\ WithoutPrevious(s, item).prev = s.prev
         /\ WithoutPrevious(s, item).orphans = s.orphans
  <1> DEFINE left == s.todo \ {item}
             pc   == BeforeInsert(item)
  <1>1. /\ left \in SUBSET Item /\ item \in Item /\ item.qty \in Int
        /\ pc \in {"sum", "insert"}
    BY BeforeInsertPc DEF RunState, Item
  <1> HIDE DEF left, pc
  <1>2. [s EXCEPT !.todo = left] \in RunState
    BY <1>1, SetTodo
  <1>3. [s EXCEPT !.todo = left, !.item = item] \in RunState
    BY <1>1, <1>2, SetItem
  <1> DEFINE u == [s EXCEPT !.todo = left, !.item = item]
  <1>4. [u EXCEPT !.pos = item.qty] \in RunState
    <2> HIDE DEF u
    <2> QED
      BY <1>1, <1>3, SetPos DEF u
  <1> DEFINE w == [s EXCEPT !.todo = left, !.item = item, !.pos = item.qty]
  <1>5. [w EXCEPT !.pc = pc] \in RunState
    <2>1. w \in RunState
      BY <1>4
    <2> HIDE DEF w
    <2> QED
      BY <1>1, <2>1, SetPc
  <1>6. WithoutPrevious(s, item) \in RunState
    BY <1>5 DEF WithoutPrevious, left, pc
  <1> QED
    BY <1>1, <1>6 DEF WithoutPrevious, RunState, pc

\* ... and one with a previous row to the row's UPDATE.
LEMMA WithPreviousType ==
  ASSUME rows \in Seq(Row), NEW s \in RunState, NEW item \in s.todo, NEW p \in Ids
  PROVE  /\ WithPrevious(s, item, p) \in RunState
         /\ WithPrevious(s, item, p).pc = "deactivate"
         /\ WithPrevious(s, item, p).item = item
         /\ WithPrevious(s, item, p).lt = s.lt
         /\ WithPrevious(s, item, p).prev = p
         /\ WithPrevious(s, item, p).orphans = s.orphans
  <1> DEFINE left == s.todo \ {item}
             pos  == IF rows[p].asOf = s.asOf THEN item.qty + rows[p].pos ELSE item.qty
  <1>1. left \in SUBSET Item /\ item \in Item /\ p \in Nat /\ pos \in Int
    <2>1. rows[p].pos \in Int /\ p \in Nat
      <3>1. rows[p] \in Row /\ p \in Nat
        BY DEF Ids
      <3> QED
        BY <3>1 DEF Row
    <2>2. item \in Item /\ item.qty \in Int /\ left \in SUBSET Item
      BY DEF RunState, Item
    <2> QED
      BY <2>1, <2>2
  <1> HIDE DEF left, pos
  <1>2. [s EXCEPT !.todo = left] \in RunState
    BY <1>1, SetTodo
  <1>3. [s EXCEPT !.todo = left, !.item = item] \in RunState
    BY <1>1, <1>2, SetItem
  <1> DEFINE u == [s EXCEPT !.todo = left, !.item = item]
  <1>4. [u EXCEPT !.prev = p] \in RunState
    <2> HIDE DEF u
    <2> QED
      BY <1>1, <1>3, SetPrev DEF u
  <1> DEFINE v == [s EXCEPT !.todo = left, !.item = item, !.prev = p]
  <1>5. [v EXCEPT !.pc = "deactivate"] \in RunState
    <2>1. v \in RunState
      BY <1>4
    <2> HIDE DEF v
    <2> QED
      BY <2>1, SetPc
  <1> DEFINE w == [s EXCEPT !.todo = left, !.item = item, !.prev = p, !.pc = "deactivate"]
  <1>6. [w EXCEPT !.pos = pos] \in RunState
    <2>1. w \in RunState
      BY <1>5
    <2> HIDE DEF w
    <2> QED
      BY <1>1, <2>1, SetPos
  <1>7. WithPrevious(s, item, p) \in RunState
    BY <1>6 DEF WithPrevious, left, pos
  <1> QED
    BY <1>7 DEF WithPrevious, RunState

\* After its UPDATE a run keeps the row it has taken over.
LEMMA DeactivatedType ==
  ASSUME NEW s \in RunState
  PROVE  /\ Deactivated(s) \in RunState
         /\ Deactivated(s).pc \in {"sum", "insert"}
         /\ Deactivated(s).item = s.item
         /\ Deactivated(s).lt = s.lt
         /\ Deactivated(s).prev = s.prev
         /\ Deactivated(s).orphans = s.orphans
  <1>1. BeforeInsert(s.item) \in {"sum", "insert"}
    BY BeforeInsertPc
  <1>2. Deactivated(s) \in RunState
    BY <1>1, SetPc DEF Deactivated
  <1> QED
    BY <1>1, <1>2 DEF Deactivated, RunState

\* A run that has summed the children goes on to the INSERT.
LEMMA SummedType ==
  ASSUME rows \in Seq(Row), NEW s \in RunState
  PROVE  /\ Summed(s) \in RunState
         /\ Summed(s).pc = "insert"
         /\ Summed(s).item = s.item
         /\ Summed(s).lt = s.lt
         /\ Summed(s).prev = s.prev
         /\ Summed(s).orphans = s.orphans
  <1> DEFINE kids == ChildIds(s.item.code, s.lt, s.month)
  <1>1. kids \in SUBSET Nat
    BY DEF ChildIds, ActiveIds, Ids
  <1> HIDE DEF kids
  <1>2. [s EXCEPT !.kids = kids] \in RunState
    BY <1>1, SetKids
  <1>3. [s EXCEPT !.kids = kids, !.pc = "insert"] \in RunState
    BY <1>2, SetPc
  <1> QED
    BY <1>3 DEF Summed, kids, RunState

\* The orphans left are worked off, then the run ends.
LEMMA OrphansType ==
  ASSUME NEW s \in RunState, NEW left \in SUBSET OrphanPlace
  PROVE  /\ Orphans(s, left) \in RunState
         /\ \/ /\ Orphans(s, left).pc = "done"
               /\ Orphans(s, left).prev = 0
               /\ Orphans(s, left).orphans = {}
            \/ /\ Orphans(s, left).pc = "orphans"
               /\ Orphans(s, left).lt = s.lt
               /\ Orphans(s, left).prev = s.prev
               /\ Orphans(s, left).orphans = left
  <1>1. CASE left = {}
    BY <1>1, IdleType DEF Orphans
  <1>2. CASE left # {}
    <2>1. [s EXCEPT !.pc = "orphans"] \in RunState
      BY SetPc
    <2>2. [s EXCEPT !.pc = "orphans", !.orphans = left] \in RunState
      BY <2>1, SetOrphans
    <2> QED
      BY <1>2, <2>2 DEF Orphans, RunState
  <1> QED
    BY <1>1, <1>2

\* The orphans are rows of the table, each with a location of its code.
LEMMA MissingType ==
  ASSUME rows \in Seq(Row), NEW lt
  PROVE  /\ MissingParents(lt) \in SUBSET OrphanPlace
         /\ \A e \in MissingParents(lt) : /\ e[1] \in OrphanIds(lt) /\ e[1] \in Ids
                                         /\ e = <<e[1], e[2]>>
                                         /\ e[2] \in Locations[rows[e[1]].code]
  <1>1. \A i \in Ids : i \in Nat /\ rows[i].code \in Codes
    <2>1. \A i \in Ids : i \in Nat /\ rows[i] \in Row
      BY DEF Ids
    <2> QED
      BY <2>1 DEF Row
  <1>2. OrphanIds(lt) \subseteq Ids
    BY DEF OrphanIds, ActiveIds
  <1> QED
    BY <1>1, <1>2 DEF MissingParents, OrphanPlace

\* The row that a run inserts names the one it replaces, ...
LEMMA NewRowType ==
  ASSUME now \in Nat, NEW r \in Runs, run[r] \in RunState, run[r].lt \in 1..4,
         run[r].item \in Item
  PROVE  /\ NewRow(r) \in Row
         /\ NewRow(r).prev = run[r].prev /\ NewRow(r).active /\ NewRow(r).by = r
  <1>1. run[r].pass \in 1..3 /\ (Passes[run[r].pass] = "parent") \in BOOLEAN
    BY DEF RunState
  <1> QED
    BY <1>1 DEF NewRow, Row, RunState, Item

\* ... and that of an orphan's parent replaces none.
LEMMA OrphanRowType ==
  ASSUME now \in Nat, rows \in Seq(Row), NEW r \in Runs, run[r] \in RunState,
         NEW i \in Ids
  PROVE  /\ OrphanRow(r, i) \in Row
         /\ OrphanRow(r, i).prev = 0 /\ OrphanRow(r, i).active /\ OrphanRow(r, i).by = r
  <1>1. rows[i] \in Row /\ i \in Nat
    BY DEF Ids
  <1>2. /\ rows[i].code \in Codes /\ rows[i].lt \in 1..4 /\ rows[i].month \in Months
        /\ run[r].asOf \in Nat /\ {i} \in SUBSET Nat
    BY <1>1 DEF Row, RunState
  <1> QED
    BY <1>2 DEF OrphanRow, Row

\* Deactivating a row changes nothing else.
LEMMA DeactivateRow ==
  ASSUME rows \in Seq(Row), NEW p \in Ids, rows' = [rows EXCEPT ![p].active = FALSE]
  PROVE  /\ rows' \in Seq(Row)
         /\ Ids' = Ids
         /\ ~rows'[p].active
         /\ \A i \in Ids : rows'[i].prev = rows[i].prev /\ rows'[i].by = rows[i].by
         /\ \A i \in Ids \ {p} : rows'[i] = rows[i]
  <1>1. rows[p] \in Row /\ \A i \in Ids : rows[i] \in Row
    BY DEF Ids
  <1>2. [rows[p] EXCEPT !.active = FALSE] \in Row
    BY <1>1 DEF Row
  <1>3. rows' = [rows EXCEPT ![p] = [rows[p] EXCEPT !.active = FALSE]]
    OBVIOUS
  <1> DEFINE row == [rows[p] EXCEPT !.active = FALSE]
  <1>4. row \in Row /\ ~row.active /\ row.prev = rows[p].prev /\ row.by = rows[p].by
    BY <1>1, <1>2 DEF Row
  <1> HIDE DEF row
  <1>5. rows' = [rows EXCEPT ![p] = row]
    BY <1>3 DEF row
  <1>6. rows' \in Seq(Row) /\ DOMAIN rows' = DOMAIN rows
    <2>1. p \in 1..Len(rows) /\ DOMAIN rows = 1..Len(rows)
      BY DEF Ids
    <2>2. [rows EXCEPT ![p] = row] \in Seq(Row)
          /\ Len([rows EXCEPT ![p] = row]) = Len(rows)
      BY <1>4, <2>1, ExceptSeq
    <2> QED
      BY <1>5, <2>1, <2>2
  <1> QED
    BY <1>4, <1>5, <1>6 DEF Ids

\* What an inserted row does to the ids.
LEMMA InsertRow ==
  ASSUME TypeOK, NEW row \in Row, rows' = Append(rows, row)
  PROVE  /\ rows' \in Seq(Row)
         /\ Ids' = Ids \cup {Len(rows) + 1}
         /\ Len(rows) + 1 \notin Ids
         /\ \A i \in Ids : i < Len(rows) + 1 /\ rows'[i] = rows[i]
         /\ rows'[Len(rows) + 1] = row
  BY AppendRow DEF TypeOK, Ids

\* Every step keeps the types.
LEMMA TypeStep == TypeOK /\ [Next]_vars => TypeOK'
  <1> SUFFICES ASSUME TypeOK, [Next]_vars PROVE TypeOK'
    OBVIOUS
  <1>0. /\ now \in Nat /\ temp \subseteq Entry
        /\ \A r \in Runs : run[r] \in RunState /\ LocalsOK(run[r], Ids)
    BY DEF TypeOK
  <1>1. ASSUME NEW r \in Runs, NEW lt \in LimitTypes, Start(r, lt) PROVE TypeOK'
    <2>1. lt \in 1..4 /\ Ids \subseteq Ids'
      BY <1>1, FeedAssumption DEF Start, Ids
    <2>2. Continue(Started(lt)) \in RunState /\ LocalsOK(Continue(Started(lt)), Ids')
      BY <1>0, <2>1, StartedType, ContinueLocals
    <2>3. run' \in [Runs -> RunState] /\ \A s \in Runs : LocalsOK(run[s], Ids)'
      BY <1>1, <2>1, <2>2, RunUpdate DEF Start
    <2> QED
      BY <1>1, <2>3 DEF Start, Ids, TypeOK
  <1>2. ASSUME NEW r \in Runs, Query(r) PROVE TypeOK'
    <2> PICK month \in run[r].months :
          run' = [run EXCEPT ![r] = Continue(Fetched(run[r], month))]
      BY <1>2 DEF Query
    <2>1. run[r].lt \in 1..4 /\ run[r].prev = 0 /\ (\A e \in run[r].orphans : e[1] \in Ids)
      BY <1>0, <1>2 DEF Query, LocalsOK, Stopped
    <2>2. Ids \subseteq Ids'
      BY <1>2 DEF Query, Ids
    <2> DEFINE s == Fetched(run[r], month)
    <2>3. s \in RunState /\ s.lt \in 1..4 /\ s.prev = 0 /\ (\A e \in s.orphans : e[1] \in Ids)
      BY <1>0, <2>1, FetchedType
    <2>4. Continue(s) \in RunState /\ LocalsOK(Continue(s), Ids')
      BY <1>0, <2>2, <2>3, ContinueLocals
    <2>5. run' \in [Runs -> RunState] /\ \A t \in Runs : LocalsOK(run[t], Ids)'
      BY <2>2, <2>4, RunUpdate
    <2> QED
      BY <1>2, <2>5 DEF Query, Ids, TypeOK
  <1>3. ASSUME NEW r \in Runs, ReadPrevious(r) PROVE TypeOK'
    <2> PICK item \in run[r].todo :
          \/ run' = [run EXCEPT ![r] = WithoutPrevious(run[r], item)]
          \/ \E p \in Ids : run' = [run EXCEPT ![r] = WithPrevious(run[r], item, p)]
      BY <1>3 DEF ReadPrevious, Newest, Candidates, ActiveIds
    <2>1. /\ run[r].lt \in 1..4 /\ run[r].prev = 0 /\ (\A e \in run[r].orphans : e[1] \in Ids)
          /\ item \in Item /\ rows \in Seq(Row) /\ 0 \notin Ids
      <3>1. run[r].lt \in 1..4 /\ run[r].prev = 0 /\ (\A e \in run[r].orphans : e[1] \in Ids)
        BY <1>0, <1>3 DEF ReadPrevious, LocalsOK, Stopped
      <3>2. item \in Item
        BY <1>0 DEF RunState
      <3> QED
        BY <3>1, <3>2 DEF TypeOK, Ids
    <2>2. Ids' = Ids
      BY <1>3 DEF ReadPrevious, Ids
    <2>3. run' \in [Runs -> RunState] /\ \A t \in Runs : LocalsOK(run[t], Ids)'
      <3>1. CASE run' = [run EXCEPT ![r] = WithoutPrevious(run[r], item)]
        <4> DEFINE s == WithoutPrevious(run[r], item)
        <4>1. /\ s \in RunState /\ s.pc \in {"sum", "insert"} /\ s.item = item
              /\ s.lt = run[r].lt /\ s.prev = run[r].prev /\ s.orphans = run[r].orphans
          BY <1>0, WithoutPreviousType
        <4> HIDE DEF s
        <4>2. LocalsOK(s, Ids')
          BY <2>1, <2>2, <4>1 DEF LocalsOK, Stopped
        <4> QED
          BY <2>2, <3>1, <4>1, <4>2, RunUpdate DEF s
      <3>2. ASSUME NEW p \in Ids, run' = [run EXCEPT ![r] = WithPrevious(run[r], item, p)]
            PROVE  run' \in [Runs -> RunState] /\ \A t \in Runs : LocalsOK(run[t], Ids)'
        <4> DEFINE s == WithPrevious(run[r], item, p)
        <4>1. /\ s \in RunState /\ s.pc = "deactivate" /\ s.item = item
              /\ s.lt = run[r].lt /\ s.prev = p /\ s.orphans = run[r].orphans
          BY <1>0, <2>1, WithPreviousType
        <4> HIDE DEF s
        <4>2. LocalsOK(s, Ids')
          BY <2>1, <2>2, <4>1 DEF LocalsOK, Stopped
        <4> QED
          BY <2>2, <3>2, <4>1, <4>2, RunUpdate DEF s
      <3> QED
        BY <3>1, <3>2
    <2> QED
      BY <1>3, <2>3 DEF ReadPrevious, Ids, TypeOK
  <1>4. ASSUME NEW r \in Runs, Deactivate(r) PROVE TypeOK'
    <2>1. /\ run[r].lt \in 1..4 /\ run[r].prev \in Ids /\ (\A e \in run[r].orphans : e[1] \in Ids)
          /\ run[r].item \in Item /\ run[r].pc = "deactivate"
      BY <1>0, <1>4 DEF Deactivate, LocalsOK, Stopped
    <2>2. CASE /\ rows' = [rows EXCEPT ![run[r].prev].active = FALSE]
               /\ run' = [run EXCEPT ![r] = Deactivated(run[r])]
               /\ UNCHANGED skipped
      <3>1. /\ rows' \in Seq(Row) /\ Ids' = Ids
            /\ \A i \in Ids : rows'[i].prev = rows[i].prev
        BY <2>1, <2>2, DeactivateRow DEF TypeOK
      <3> DEFINE s == Deactivated(run[r])
      <3>2. /\ s \in RunState /\ s.pc \in {"sum", "insert"} /\ s.item = run[r].item
            /\ s.lt = run[r].lt /\ s.prev = run[r].prev /\ s.orphans = run[r].orphans
        BY <1>0, DeactivatedType
      <3> HIDE DEF s
      <3>3. LocalsOK(s, Ids')
        BY <2>1, <3>1, <3>2 DEF LocalsOK, Stopped
      <3>4. run' \in [Runs -> RunState] /\ \A t \in Runs : LocalsOK(run[t], Ids)'
        BY <2>2, <3>1, <3>2, <3>3, RunUpdate DEF s
      <3> QED
        BY <1>4, <2>2, <3>1, <3>4 DEF Deactivate, TypeOK
    <2>3. CASE /\ run' = [run EXCEPT ![r] = ItemDone(run[r])]
               /\ skipped' = skipped \cup {<<r, run[r].prev>>}
               /\ UNCHANGED rows
      <3> DEFINE s == ItemDone(run[r])
      <3>1. /\ s \in RunState /\ s.pc \in {"read", "query", "findOrphans"}
            /\ s.lt = run[r].lt /\ s.prev = 0 /\ s.orphans = run[r].orphans
        BY <1>0, ItemDoneType
      <3> HIDE DEF s
      <3>2. Ids' = Ids
        BY <2>3 DEF Ids
      <3>3. LocalsOK(s, Ids')
        BY <2>1, <3>1, <3>2 DEF LocalsOK, Stopped
      <3>4. run' \in [Runs -> RunState] /\ \A t \in Runs : LocalsOK(run[t], Ids)'
        BY <2>3, <3>1, <3>2, <3>3, RunUpdate DEF s
      <3> QED
        BY <1>4, <2>1, <2>3, <3>2, <3>4 DEF Deactivate, TypeOK
    <2> QED
      BY <1>4, <2>2, <2>3 DEF Deactivate
  <1>5. ASSUME NEW r \in Runs, SumChildren(r) PROVE TypeOK'
    <2> DEFINE s == Summed(run[r])
    <2>1. /\ s \in RunState /\ s.pc = "insert" /\ s.item = run[r].item
          /\ s.lt = run[r].lt /\ s.prev = run[r].prev /\ s.orphans = run[r].orphans
      BY <1>0, SummedType DEF TypeOK
    <2>2. /\ run[r].lt \in 1..4 /\ run[r].item \in Item
          /\ run[r].prev \in Ids \cup {0} /\ (\A e \in run[r].orphans : e[1] \in Ids)
      BY <1>0, <1>5 DEF SumChildren, LocalsOK, Stopped
    <2>3. Ids' = Ids /\ run' = [run EXCEPT ![r] = s]
      BY <1>5 DEF SumChildren, Ids
    <2> HIDE DEF s
    <2>4. LocalsOK(s, Ids')
      BY <2>1, <2>2, <2>3 DEF LocalsOK, Stopped
    <2>5. run' \in [Runs -> RunState] /\ \A t \in Runs : LocalsOK(run[t], Ids)'
      BY <2>1, <2>3, <2>4, RunUpdate
    <2> QED
      BY <1>5, <2>3, <2>5 DEF SumChildren, TypeOK
  <1>6. ASSUME NEW r \in Runs, Insert(r) PROVE TypeOK'
    <2>1. /\ run[r].lt \in 1..4 /\ run[r].item \in Item
          /\ run[r].prev \in Ids \cup {0} /\ (\A e \in run[r].orphans : e[1] \in Ids)
      BY <1>0, <1>6 DEF Insert, LocalsOK, Stopped
    <2>2. NewRow(r) \in Row /\ NewRow(r).prev = run[r].prev
      BY <1>0, <2>1, NewRowType
    <2>3. /\ rows' \in Seq(Row) /\ Ids' = Ids \cup {Len(rows) + 1}
          /\ \A i \in Ids : i < Len(rows) + 1 /\ rows'[i] = rows[i]
          /\ rows'[Len(rows) + 1] = NewRow(r)
      BY <1>6, <2>2, InsertRow DEF Insert
    <2>4. \A i \in Ids' : rows'[i].prev < i
      BY <2>1, <2>2, <2>3 DEF TypeOK, Ids
    <2> DEFINE s == ItemDone(run[r])
    <2>5. /\ s \in RunState /\ s.pc \in {"read", "query", "findOrphans"}
          /\ s.lt = run[r].lt /\ s.prev = 0 /\ s.orphans = run[r].orphans
      BY <1>0, ItemDoneType
    <2>6. run' = [run EXCEPT ![r] = s]
      BY <1>6 DEF Insert
    <2> HIDE DEF s
    <2>7. LocalsOK(s, Ids')
      BY <2>1, <2>3, <2>5 DEF LocalsOK, Stopped
    <2>8. run' \in [Runs -> RunState] /\ \A t \in Runs : LocalsOK(run[t], Ids)'
      BY <2>3, <2>5, <2>6, <2>7, RunUpdate
    <2> QED
      BY <1>6, <2>3, <2>4, <2>8 DEF Insert, TypeOK
  <1>7. ASSUME NEW r \in Runs, FindOrphans(r) PROVE TypeOK'
    <2> DEFINE left == MissingParents(run[r].lt)
               s    == Orphans(run[r], left)
    <2>1. left \in SUBSET OrphanPlace /\ \A e \in left : e[1] \in Ids
      BY MissingType DEF TypeOK
    <2>2. run[r].lt \in 1..4 /\ run[r].prev = 0 /\ Ids' = Ids
      BY <1>0, <1>7 DEF FindOrphans, LocalsOK, Stopped, Ids
    <2>3. run' = [run EXCEPT ![r] = s]
      BY <1>7 DEF FindOrphans
    <2> HIDE DEF left
    <2>4. \/ s.pc = "done" /\ s.prev = 0 /\ s.orphans = {}
          \/ /\ s.pc = "orphans" /\ s.lt = run[r].lt
             /\ s.prev = run[r].prev /\ s.orphans = left
      BY <1>0, <2>1, OrphansType
    <2>5. s \in RunState
      BY <1>0, <2>1, OrphansType
    <2> HIDE DEF s
    <2>6. LocalsOK(s, Ids')
      BY <2>1, <2>2, <2>4 DEF LocalsOK, Stopped
    <2>7. run' \in [Runs -> RunState] /\ \A t \in Runs : LocalsOK(run[t], Ids)'
      BY <2>2, <2>3, <2>5, <2>6, RunUpdate
    <2> QED
      BY <1>7, <2>2, <2>7 DEF FindOrphans, TypeOK
  <1>8. ASSUME NEW r \in Runs, InsertOrphan(r) PROVE TypeOK'
    <2> PICK e \in run[r].orphans :
          /\ rows' = Append(rows, OrphanRow(r, e[1]))
          /\ run' = [run EXCEPT ![r] = Orphans(run[r], run[r].orphans \ {e})]
      BY <1>8 DEF InsertOrphan
    <2> DEFINE left == run[r].orphans \ {e}
               i    == e[1]
               s    == Orphans(run[r], left)
    <2>1. /\ run[r].lt \in 1..4 /\ run[r].prev = 0 /\ (\A f \in run[r].orphans : f[1] \in Ids)
      BY <1>0, <1>8 DEF InsertOrphan, LocalsOK, Stopped
    <2>2. OrphanRow(r, i) \in Row /\ OrphanRow(r, i).prev = 0
      BY <1>0, <2>1, OrphanRowType DEF TypeOK
    <2>3. /\ rows' \in Seq(Row) /\ Ids' = Ids \cup {Len(rows) + 1}
          /\ \A k \in Ids : k < Len(rows) + 1 /\ rows'[k] = rows[k]
          /\ rows'[Len(rows) + 1] = OrphanRow(r, i)
      BY <2>2, InsertRow
    <2>4. \A k \in Ids' : rows'[k].prev < k
      BY <2>2, <2>3 DEF TypeOK, Ids
    <2>5. /\ \A f \in left : f[1] \in Ids'
          /\ left \in SUBSET OrphanPlace /\ run' = [run EXCEPT ![r] = s]
      BY <1>0, <2>1, <2>3 DEF RunState
    <2> HIDE DEF left
    <2>6. \/ s.pc = "done" /\ s.prev = 0 /\ s.orphans = {}
          \/ /\ s.pc = "orphans" /\ s.lt = run[r].lt
             /\ s.prev = run[r].prev /\ s.orphans = left
      BY <1>0, <2>5, OrphansType
    <2>7. s \in RunState
      BY <1>0, <2>5, OrphansType
    <2> HIDE DEF s
    <2>8. LocalsOK(s, Ids')
      BY <2>1, <2>5, <2>6 DEF LocalsOK, Stopped
    <2>9. run' \in [Runs -> RunState] /\ \A t \in Runs : LocalsOK(run[t], Ids)'
      BY <2>3, <2>5, <2>7, <2>8, RunUpdate
    <2> QED
      BY <1>8, <2>3, <2>4, <2>9 DEF InsertOrphan, TypeOK
  <1>9. ASSUME NEW r \in Runs, Abort(r) PROVE TypeOK'
    <2>1. Aborted \in RunState /\ LocalsOK(Aborted, Ids') /\ Ids' = Ids
      BY <1>9, IdleType, SetPc DEF Aborted, Idle, LocalsOK, Stopped, Abort, Ids
    <2>2. run' \in [Runs -> RunState] /\ \A t \in Runs : LocalsOK(run[t], Ids)'
      BY <1>9, <2>1, RunUpdate DEF Abort
    <2> QED
      BY <1>9, <2>1, <2>2 DEF Abort, TypeOK
  <1>10. CASE ImportDelete \/ ImportAggregate \/ Tick
    <2>1. temp' \subseteq Entry
      BY <1>0, <1>10, FeedAssumption DEF ImportDelete, ImportAggregate, Tick
    <2>2. now' \in Nat
      BY <1>0, <1>10 DEF ImportDelete, ImportAggregate, Tick
    <2>3. importing' \in BOOLEAN
      BY <1>10 DEF ImportDelete, ImportAggregate, Tick, TypeOK
    <2>4. UNCHANGED <<rows, run, lost, skipped, overlap>>
      BY <1>10 DEF ImportDelete, ImportAggregate, Tick
    <2> QED
      BY <2>1, <2>2, <2>3, <2>4 DEF TypeOK, Ids
  <1>11. CASE UNCHANGED vars
    BY <1>11 DEF vars, TypeOK, Ids
  <1> QED
    BY <1>1, <1>2, <1>3, <1>4, <1>5, <1>6, <1>7, <1>8, <1>9, <1>10, <1>11 DEF Next, Step

\* The types of all variables, for any number of runs, any mapping and feed:
\* in particular no row refers to a later one, and no run to a row that the
\* table does not have.
THEOREM TypeCorrect == Spec => []TypeOK
  <1>1. Init => TypeOK
    BY TypeInit
  <1>2. TypeOK /\ [Next]_vars => TypeOK'
    BY TypeStep
  <1> QED
    BY <1>1, <1>2, PTL DEF Spec

-----------------------------------------------------------------------------
(***************************************************************************)
(* The optimistic lock. A step does one of five things to the table and to *)
(* the rows that runs hold; every other local is irrelevant to the lock.   *)
(***************************************************************************)
Waiting(s) == run[s].pc = "deactivate"

\* Run s holds what it held, and waits for what it waited for or for a row
\* that is active.
KeepsPlace(s) ==
  /\ \A i \in Ids : Holds(s, i)' <=> Holds(s, i)
  /\ Waiting(s)' => \/ Waiting(s) /\ run'[s].prev = run[s].prev
                    \/ rows[run'[s].prev].active

Quiet ==
  /\ UNCHANGED <<rows, lost, skipped>>
  /\ \A s \in Runs : KeepsPlace(s)

TakesOver(r, p) ==
  /\ p \in Ids /\ rows[p].active
  /\ rows' = [rows EXCEPT ![p].active = FALSE]
  /\ UNCHANGED <<lost, skipped>>
  /\ \A s \in Runs \ {r} : run'[s] = run[s]
  /\ ~Waiting(r)'
  /\ \A i \in Ids : ~Holds(r, i) /\ (Holds(r, i)' <=> i = p)

Skips(r, p) ==
  /\ p \in Ids /\ ~rows[p].active /\ Waiting(r) /\ run[r].prev = p
  /\ skipped' = skipped \cup {<<r, p>>}
  /\ UNCHANGED <<rows, lost>>
  /\ \A s \in Runs : KeepsPlace(s)

Inserts(r, row) ==
  /\ row \in Row /\ row.active /\ row.by = r
  /\ rows' = Append(rows, row)
  /\ UNCHANGED <<lost, skipped>>
  /\ \A s \in Runs \ {r} : run'[s] = run[s]
  /\ ~Waiting(r)'
  /\ row.prev \in Ids \cup {0}
  /\ \A i \in Ids : Holds(r, i) <=> i = row.prev
  /\ \A i \in Ids' : ~Holds(r, i)'

Stops(r) ==
  /\ UNCHANGED <<rows, skipped>>
  /\ lost' = lost \cup {<<r, i>> : i \in {j \in Ids : Holds(r, j)}}
  /\ \A s \in Runs \ {r} : run'[s] = run[s]
  /\ ~Waiting(r)'
  /\ \A i \in Ids : ~Holds(r, i)'

\* A step of one run that leaves the table alone, and its holds and waits too.
LEMMA QuietStep ==
  ASSUME TypeOK, NEW r \in Runs, NEW u, run' = [run EXCEPT ![r] = u],
         rows' = rows,
         \A i \in Ids : (u.pc \in {"sum", "insert"} /\ u.prev = i) <=> Holds(r, i),
         u.pc = "deactivate" => rows[u.prev].active
  PROVE  \A s \in Runs : KeepsPlace(s)
  <1> TAKE s \in Runs
  <1>1. CASE s = r
    <2>1. run'[s] = u
      BY <1>1 DEF TypeOK
    <2> QED
      BY <1>1, <2>1 DEF KeepsPlace, Holds, Waiting
  <1>2. CASE s # r
    <2>1. run'[s] = run[s]
      BY <1>2 DEF TypeOK
    <2> QED
      BY <2>1 DEF KeepsPlace, Holds, Waiting
  <1> QED
    BY <1>1, <1>2

\* A step is one of the five effects on rows, holds and waits.
LEMMA StepEffect ==
  ASSUME TypeOK, [Next]_vars
  PROVE  \/ Quiet
         \/ \E r \in Runs : \/ \E p \in Ids : TakesOver(r, p) \/ Skips(r, p)
                            \/ \E row \in Row : Inserts(r, row)
                            \/ Stops(r)
  <1> DEFINE Goal == \/ Quiet
                     \/ \E r \in Runs : \/ \E p \in Ids : TakesOver(r, p) \/ Skips(r, p)
                                        \/ \E row \in Row : Inserts(r, row)
                                        \/ Stops(r)
  <1>0. /\ now \in Nat /\ temp \subseteq Entry /\ rows \in Seq(Row) /\ Ids \subseteq Nat \ {0}
        /\ \A r \in Runs : run[r] \in RunState /\ LocalsOK(run[r], Ids)
    BY DEF TypeOK, Ids
  <1> SUFFICES Goal
    OBVIOUS
  <1> HIDE DEF Goal
  <1>1. ASSUME NEW r \in Runs, NEW lt \in LimitTypes, Start(r, lt) PROVE Goal
    <2> DEFINE u == Continue(Started(lt))
    <2>1. u.pc \in {"read", "query", "findOrphans"}
      BY <1>0, StartedType, ContinueType
    <2>2. run' = [run EXCEPT ![r] = u] /\ rows' = rows /\ UNCHANGED <<lost, skipped>>
          /\ run[r].pc = "idle"
      BY <1>1 DEF Start
    <2> HIDE DEF u
    <2>3. \A s \in Runs : KeepsPlace(s)
      BY <2>1, <2>2, QuietStep DEF Holds
    <2> QED
      BY <2>2, <2>3 DEF Goal, Quiet
  <1>2. ASSUME NEW r \in Runs, Query(r) PROVE Goal
    <2> PICK month \in run[r].months :
          run' = [run EXCEPT ![r] = Continue(Fetched(run[r], month))]
      BY <1>2 DEF Query
    <2> DEFINE u == Continue(Fetched(run[r], month))
    <2>1. u.pc \in {"read", "query", "findOrphans"}
      BY <1>0, FetchedType, ContinueType
    <2>2. run' = [run EXCEPT ![r] = u] /\ rows' = rows /\ UNCHANGED <<lost, skipped>>
          /\ run[r].pc = "query"
      BY <1>2 DEF Query
    <2> HIDE DEF u
    <2>3. \A s \in Runs : KeepsPlace(s)
      BY <2>1, <2>2, QuietStep DEF Holds
    <2> QED
      BY <2>2, <2>3 DEF Goal, Quiet
  <1>3. ASSUME NEW r \in Runs, ReadPrevious(r) PROVE Goal
    <2> PICK item \in run[r].todo :
          \/ run' = [run EXCEPT ![r] = WithoutPrevious(run[r], item)]
          \/ \E p \in ActiveIds : run' = [run EXCEPT ![r] = WithPrevious(run[r], item, p)]
      BY <1>3 DEF ReadPrevious, Newest, Candidates
    <2>1. /\ run[r].pc = "read" /\ run[r].prev = 0 /\ 0 \notin Ids
          /\ rows' = rows /\ UNCHANGED <<lost, skipped>>
      BY <1>0, <1>3 DEF ReadPrevious, LocalsOK
    <2>2. CASE run' = [run EXCEPT ![r] = WithoutPrevious(run[r], item)]
      <3> DEFINE u == WithoutPrevious(run[r], item)
      <3>1. u.pc \in {"sum", "insert"} /\ u.prev = 0
        BY <1>0, <2>1, WithoutPreviousType
      <3>2. run' = [run EXCEPT ![r] = u]
        BY <2>2
      <3> HIDE DEF u
      <3>3. /\ \A i \in Ids : (u.pc \in {"sum", "insert"} /\ u.prev = i) <=> Holds(r, i)
            /\ u.pc # "deactivate"
        BY <2>1, <3>1 DEF Holds
      <3>4. \A s \in Runs : KeepsPlace(s)
        BY <2>1, <3>1, <3>2, <3>3, QuietStep
      <3> QED
        BY <2>1, <3>4 DEF Goal, Quiet
    <2>3. ASSUME NEW p \in ActiveIds, run' = [run EXCEPT ![r] = WithPrevious(run[r], item, p)]
          PROVE  Goal
      <3> DEFINE u == WithPrevious(run[r], item, p)
      <3>1. p \in Ids /\ rows[p].active
        BY DEF ActiveIds
      <3>2. u.pc = "deactivate" /\ u.prev = p
        BY <1>0, <3>1, WithPreviousType
      <3> HIDE DEF u
      <3>3. \A s \in Runs : KeepsPlace(s)
        BY <2>1, <2>3, <3>1, <3>2, QuietStep DEF Holds, u
      <3> QED
        BY <2>1, <3>3 DEF Goal, Quiet
    <2> QED
      BY <2>2, <2>3
  <1>4. ASSUME NEW r \in Runs, Deactivate(r) PROVE Goal
    <2> DEFINE p == run[r].prev
    <2>1. p \in Ids /\ run[r].pc = "deactivate" /\ UNCHANGED lost
      BY <1>0, <1>4 DEF Deactivate, LocalsOK
    <2>2. CASE rows[p].active
      <3> DEFINE u == Deactivated(run[r])
      <3>1. u.pc \in {"sum", "insert"} /\ u.prev = p
        BY <1>0, DeactivatedType
      <3>2. /\ rows' = [rows EXCEPT ![p].active = FALSE]
            /\ run' = [run EXCEPT ![r] = u] /\ UNCHANGED skipped
        BY <1>4, <2>2 DEF Deactivate
      <3> HIDE DEF u
      <3>3. run'[r] = u /\ \A s \in Runs \ {r} : run'[s] = run[s]
        BY <3>2 DEF TypeOK
      <3>4. \A i \in Ids : ~Holds(r, i) /\ (Holds(r, i)' <=> i = p)
        BY <2>1, <3>1, <3>3 DEF Holds
      <3>5. TakesOver(r, p)
        BY <2>1, <2>2, <3>1, <3>2, <3>3, <3>4 DEF TakesOver, Waiting
      <3> QED
        BY <2>1, <3>5 DEF Goal
    <2>3. CASE ~rows[p].active
      <3> DEFINE u == ItemDone(run[r])
      <3>1. u.pc \in {"read", "query", "findOrphans"}
        BY <1>0, ItemDoneType
      <3>2. /\ skipped' = skipped \cup {<<r, p>>}
            /\ run' = [run EXCEPT ![r] = u] /\ UNCHANGED rows
        BY <1>4, <2>3 DEF Deactivate
      <3> HIDE DEF u
      <3>3. \A s \in Runs : KeepsPlace(s)
        BY <2>1, <3>1, <3>2, QuietStep DEF Holds
      <3>4. Skips(r, p)
        BY <2>1, <2>3, <3>2, <3>3 DEF Skips, Waiting
      <3> QED
        BY <2>1, <3>4 DEF Goal
    <2> QED
      BY <2>2, <2>3
  <1>5. ASSUME NEW r \in Runs, SumChildren(r) PROVE Goal
    <2> DEFINE u == Summed(run[r])
    <2>1. u.pc = "insert" /\ u.prev = run[r].prev
      BY <1>0, SummedType
    <2>2. run' = [run EXCEPT ![r] = u] /\ rows' = rows /\ UNCHANGED <<lost, skipped>>
          /\ run[r].pc = "sum"
      BY <1>5 DEF SumChildren
    <2> HIDE DEF u
    <2>3. \A i \in Ids : (u.pc \in {"sum", "insert"} /\ u.prev = i) <=> Holds(r, i)
      BY <2>1, <2>2 DEF Holds
    <2>4. \A s \in Runs : KeepsPlace(s)
      BY <2>1, <2>2, <2>3, QuietStep
    <2> QED
      BY <2>2, <2>4 DEF Goal, Quiet
  <1>6. ASSUME NEW r \in Runs, Insert(r) PROVE Goal
    <2> DEFINE u == ItemDone(run[r])
    <2>1. u.pc \in {"read", "query", "findOrphans"}
      BY <1>0, ItemDoneType
    <2>2. run' = [run EXCEPT ![r] = u] /\ rows' = Append(rows, NewRow(r))
          /\ UNCHANGED <<lost, skipped>> /\ run[r].pc = "insert"
      BY <1>6 DEF Insert
    <2> HIDE DEF u
    <2>3. run[r].prev \in Ids \cup {0} /\ run[r].item \in Item /\ run[r].lt \in 1..4
      BY <1>0, <2>2 DEF LocalsOK, Stopped
    <2>4. /\ NewRow(r) \in Row /\ NewRow(r).prev = run[r].prev
          /\ NewRow(r).active /\ NewRow(r).by = r
      BY <1>0, <2>3, NewRowType
    <2>5. run'[r] = u /\ \A s \in Runs \ {r} : run'[s] = run[s]
      BY <2>2 DEF TypeOK
    <2>6. /\ \A i \in Ids : Holds(r, i) <=> i = run[r].prev
          /\ \A i \in Ids' : ~Holds(r, i)'
          /\ ~Waiting(r)'
      BY <2>1, <2>2, <2>5 DEF Holds, Waiting
    <2> DEFINE row == NewRow(r)
    <2>7. row \in Row /\ row.prev = run[r].prev /\ row.active /\ row.by = r
          /\ rows' = Append(rows, row)
      BY <2>2, <2>4
    <2> HIDE DEF row
    <2>8. Inserts(r, row)
      BY <2>2, <2>3, <2>5, <2>6, <2>7 DEF Inserts
    <2> QED
      BY <2>7, <2>8 DEF Goal
  <1>7. ASSUME NEW r \in Runs, FindOrphans(r) PROVE Goal
    <2> DEFINE left == MissingParents(run[r].lt)
               u    == Orphans(run[r], left)
    <2>1. left \in SUBSET OrphanPlace
      BY <1>0, MissingType
    <2>2. u.pc \in {"done", "orphans"}
      BY <1>0, <2>1, OrphansType
    <2>3. run' = [run EXCEPT ![r] = u] /\ rows' = rows /\ UNCHANGED <<lost, skipped>>
          /\ run[r].pc = "findOrphans"
      BY <1>7 DEF FindOrphans
    <2> HIDE DEF u
    <2>4. \A s \in Runs : KeepsPlace(s)
      BY <2>2, <2>3, QuietStep DEF Holds
    <2> QED
      BY <2>3, <2>4 DEF Goal, Quiet
  <1>8. ASSUME NEW r \in Runs, InsertOrphan(r) PROVE Goal
    <2> PICK e \in run[r].orphans :
          /\ rows' = Append(rows, OrphanRow(r, e[1]))
          /\ run' = [run EXCEPT ![r] = Orphans(run[r], run[r].orphans \ {e})]
      BY <1>8 DEF InsertOrphan
    <2>1. /\ run[r].pc = "orphans" /\ UNCHANGED <<lost, skipped>> /\ e[1] \in Ids
          /\ run[r].orphans \ {e} \in SUBSET OrphanPlace
      BY <1>0, <1>8 DEF InsertOrphan, LocalsOK, RunState
    <2> DEFINE u   == Orphans(run[r], run[r].orphans \ {e})
               row == OrphanRow(r, e[1])
    <2>2. u.pc \in {"done", "orphans"}
      BY <1>0, <2>1, OrphansType
    <2>3. row \in Row /\ row.prev = 0 /\ row.active /\ row.by = r
      BY <1>0, <2>1, OrphanRowType
    <2>4. run' = [run EXCEPT ![r] = u] /\ rows' = Append(rows, row)
      OBVIOUS
    <2> HIDE DEF u, row
    <2>5. run'[r] = u /\ \A s \in Runs \ {r} : run'[s] = run[s]
      BY <2>4 DEF TypeOK
    <2>6. /\ \A k \in Ids : Holds(r, k) <=> k = row.prev
          /\ \A k \in Ids' : ~Holds(r, k)'
          /\ ~Waiting(r)'
      BY <1>0, <2>1, <2>2, <2>3, <2>5 DEF Holds, Waiting
    <2>7. Inserts(r, row)
      BY <2>1, <2>3, <2>4, <2>5, <2>6 DEF Inserts
    <2> QED
      BY <2>3, <2>7 DEF Goal
  <1>9. ASSUME NEW r \in Runs, Abort(r) PROVE Goal
    <2>1. run'[r] = Aborted /\ \A s \in Runs \ {r} : run'[s] = run[s]
      BY <1>9 DEF Abort, TypeOK
    <2>2. ~Waiting(r)' /\ \A i \in Ids : ~Holds(r, i)'
      BY <2>1 DEF Aborted, Idle, Waiting, Holds
    <2>3. Stops(r)
      BY <1>9, <2>1, <2>2 DEF Stops, Abort
    <2> QED
      BY <2>3 DEF Goal
  <1>10. ASSUME UNCHANGED <<rows, run, lost, skipped>> PROVE Goal
    <2>1. \A s \in Runs : KeepsPlace(s)
      BY <1>10 DEF KeepsPlace, Holds, Waiting
    <2> QED
      BY <1>10, <2>1 DEF Goal, Quiet
  <1>11. CASE ImportDelete \/ ImportAggregate \/ Tick
    BY <1>10, <1>11 DEF ImportDelete, ImportAggregate, Tick
  <1>12. CASE UNCHANGED vars
    BY <1>10, <1>12 DEF vars
  <1> QED
    BY <1>1, <1>2, <1>3, <1>4, <1>5, <1>6, <1>7, <1>8, <1>9, <1>11, <1>12 DEF Next, Step

-----------------------------------------------------------------------------
\* A held row is out of use, has no successor yet, and has one holder.
HeldOnce ==
  \A r \in Runs, i \in Ids :
    Holds(r, i) => /\ ~rows[i].active /\ ~Replaced(i)
                   /\ \A s \in Runs : Holds(s, i) => s = r

\* The row a run is about to deactivate is active, or another run got it.
WaitingTakenOver ==
  \A r \in Runs : Waiting(r) => \/ rows[run[r].prev].active
                               \/ TakenByOther(r, run[r].prev)

LockInv ==
  /\ ReplacedOnce
  /\ HeldOnce
  /\ InactiveAccounted
  /\ WaitingTakenOver
  /\ SkipMeansTakenOver

\* Nothing is held or inactive in the beginning.
LEMMA LockInit == Init => LockInv
  <1> SUFFICES ASSUME Init PROVE LockInv
    OBVIOUS
  <1>1. \A i \in Ids : rows[i].active /\ rows[i].prev = 0
    BY SeedAssumption DEF Init, Ids
  <1>2. skipped = {} /\ \A r \in Runs : run[r].pc = "idle"
    BY DEF Init, Idle
  <1> QED
    BY <1>1, <1>2 DEF LockInv, ReplacedOnce, HeldOnce, InactiveAccounted, WaitingTakenOver,
       SkipMeansTakenOver, Holds, Waiting

\* prev of a row is 0 or an earlier row.
LEMMA PrevExists ==
  ASSUME TypeOK, NEW j \in Ids PROVE rows[j].prev \in Ids \cup {0}
  <1>1. rows[j] \in Row /\ j \in 1..Len(rows) /\ rows[j].prev < j
    BY DEF TypeOK, Ids
  <1>2. rows[j].prev \in Nat
    BY <1>1 DEF Row
  <1> QED
    BY <1>1, <1>2 DEF TypeOK, Ids

\* The effects keep LockInv: of a step that touches neither row nor hold, ...
LEMMA LockQuiet ==
  ASSUME TypeOK, LockInv, Quiet PROVE LockInv'
  <1>1. Ids' = Ids /\ rows' = rows /\ lost' = lost /\ skipped' = skipped
    BY DEF Quiet, Ids
  <1>2. \A s \in Runs, i \in Ids : Holds(s, i)' <=> Holds(s, i)
    BY DEF Quiet, KeepsPlace
  <1>3. \A r \in Runs, i \in Ids : TakenByOther(r, i) => TakenByOther(r, i)'
    BY <1>1, <1>2 DEF TakenByOther
  <1>4. (ReplacedOnce /\ HeldOnce /\ InactiveAccounted)'
    BY <1>1, <1>2 DEF LockInv, ReplacedOnce, HeldOnce, InactiveAccounted, Replaced
  <1>5. WaitingTakenOver'
    <2> SUFFICES ASSUME NEW r \in Runs, Waiting(r)'
                 PROVE  rows'[run'[r].prev].active \/ TakenByOther(r, run[r].prev)'
      BY DEF WaitingTakenOver
    <2>1. CASE rows[run'[r].prev].active
      BY <1>1, <2>1
    <2>2. CASE Waiting(r) /\ run'[r].prev = run[r].prev
      <3>1. run[r].prev \in Ids
        BY <2>2 DEF TypeOK, LocalsOK, Waiting
      <3>2. rows[run[r].prev].active \/ TakenByOther(r, run[r].prev)
        BY <2>2 DEF LockInv, WaitingTakenOver
      <3> QED
        BY <1>1, <1>2, <2>2, <3>1, <3>2 DEF TakenByOther
    <2> QED
      BY <2>1, <2>2 DEF Quiet, KeepsPlace
  <1>6. SkipMeansTakenOver'
    <2> SUFFICES ASSUME NEW e \in skipped PROVE TakenByOther(e[1], e[2])'
      BY <1>1 DEF SkipMeansTakenOver
    <2>1. e[1] \in Runs /\ e[2] \in Ids
      BY DEF TypeOK
    <2> QED
      BY <1>3, <2>1 DEF LockInv, SkipMeansTakenOver
  <1> QED
    BY <1>4, <1>5, <1>6 DEF LockInv

\* ... of an UPDATE that finds its row active, ...
LEMMA LockTakesOver ==
  ASSUME TypeOK, LockInv, NEW r \in Runs, NEW p \in Ids, TakesOver(r, p) PROVE LockInv'
  <1>1. /\ Ids' = Ids /\ lost' = lost /\ skipped' = skipped
        /\ ~rows'[p].active
        /\ \A i \in Ids : rows'[i].prev = rows[i].prev /\ rows'[i].by = rows[i].by
        /\ \A i \in Ids \ {p} : rows'[i] = rows[i]
    BY DeactivateRow DEF TakesOver, TypeOK
  <1>2. /\ \A s \in Runs \ {r}, i \in Ids : Holds(s, i)' <=> Holds(s, i)
        /\ \A i \in Ids : ~Holds(r, i) /\ (Holds(r, i)' <=> i = p)
    BY DEF TakesOver, Holds
  <1>3. \A i \in Ids : Replaced(i)' <=> Replaced(i)
    BY <1>1 DEF Replaced
  <1>4. rows[p].active
    BY DEF TakesOver
  <1>5. ReplacedOnce'
    <2> SUFFICES ASSUME NEW j \in Ids, rows[j].prev # 0
                 PROVE  /\ ~rows'[rows[j].prev].active
                        /\ \A k \in Ids : rows[k].prev = rows[j].prev => k = j
      BY <1>1 DEF ReplacedOnce
    <2>1. rows[j].prev \in Ids
      BY PrevExists
    <2> QED
      BY <1>1, <2>1 DEF LockInv, ReplacedOnce
  <1>6. HeldOnce'
    <2>1. ~Replaced(p) /\ \A s \in Runs : ~Holds(s, p)
      <3>1. p # 0
        BY DEF Ids, TypeOK
      <3>2. ~Replaced(p)
        BY <1>4, <3>1 DEF LockInv, ReplacedOnce, Replaced
      <3>3. \A s \in Runs : ~Holds(s, p)
        BY <1>4 DEF LockInv, HeldOnce
      <3> QED
        BY <3>2, <3>3
    <2> SUFFICES ASSUME NEW s \in Runs, NEW i \in Ids, Holds(s, i)'
                 PROVE  /\ ~rows'[i].active /\ ~Replaced(i)
                        /\ \A t \in Runs : Holds(t, i)' => t = s
      BY <1>1, <1>3 DEF HeldOnce
    <2>2. CASE s = r
      BY <1>1, <1>2, <2>1, <2>2
    <2>3. CASE s # r
      BY <1>1, <1>2, <2>1, <2>3 DEF LockInv, HeldOnce
    <2> QED
      BY <2>2, <2>3
  <1>7. InactiveAccounted'
    <2> SUFFICES ASSUME NEW i \in Ids, ~rows'[i].active
                 PROVE  \/ Replaced(i)
                        \/ \E s \in Runs : Holds(s, i)'
                        \/ \E s \in Runs : <<s, i>> \in lost
      BY <1>1, <1>3 DEF InactiveAccounted
    <2> QED
      BY <1>1, <1>2 DEF LockInv, InactiveAccounted
  <1>8. \A s \in Runs, i \in Ids : TakenByOther(s, i) => TakenByOther(s, i)'
    BY <1>1, <1>2 DEF TakenByOther
  <1>9. WaitingTakenOver'
    <2> SUFFICES ASSUME NEW s \in Runs, Waiting(s)'
                 PROVE  rows'[run'[s].prev].active \/ TakenByOther(s, run[s].prev)'
      BY DEF WaitingTakenOver
    <2>1. s # r /\ run'[s] = run[s] /\ Waiting(s)
      BY DEF TakesOver, Waiting
    <2>2. run[s].prev \in Ids
      BY <2>1 DEF TypeOK, LocalsOK, Waiting
    <2>3. CASE run[s].prev = p
      <3>1. Holds(r, p)'
        BY <1>2
      <3> QED
        BY <1>1, <2>1, <2>3, <3>1 DEF TakenByOther
    <2>4. CASE run[s].prev # p
      <3>1. rows[run[s].prev].active \/ TakenByOther(s, run[s].prev)
        BY <2>1 DEF LockInv, WaitingTakenOver
      <3>2. CASE rows[run[s].prev].active
        BY <1>1, <2>1, <2>2, <2>4, <3>2
      <3>3. CASE TakenByOther(s, run[s].prev)
        <4>1. \A i \in Ids : TakenByOther(s, i) => TakenByOther(s, i)'
          BY <1>8
        <4> QED
          BY <1>1, <1>2, <2>1, <2>2, <3>3 DEF TakenByOther
      <3> QED
        BY <3>1, <3>2, <3>3
    <2> QED
      BY <2>3, <2>4
  <1>10. SkipMeansTakenOver'
    <2> SUFFICES ASSUME NEW e \in skipped PROVE TakenByOther(e[1], e[2])'
      BY <1>1 DEF SkipMeansTakenOver
    <2>1. e[1] \in Runs /\ e[2] \in Ids
      BY DEF TypeOK
    <2> QED
      BY <1>8, <2>1 DEF LockInv, SkipMeansTakenOver
  <1> QED
    BY <1>5, <1>6, <1>7, <1>9, <1>10 DEF LockInv

\* ... of one that finds it taken, ...
LEMMA LockSkips ==
  ASSUME TypeOK, LockInv, NEW r \in Runs, NEW p \in Ids, Skips(r, p) PROVE LockInv'
  <1>1. Ids' = Ids /\ rows' = rows /\ lost' = lost /\ skipped' = skipped \cup {<<r, p>>}
    BY DEF Skips, Ids
  <1>2. \A s \in Runs, i \in Ids : Holds(s, i)' <=> Holds(s, i)
    BY DEF Skips, KeepsPlace
  <1>3. \A s \in Runs, i \in Ids : TakenByOther(s, i) => TakenByOther(s, i)'
    BY <1>1, <1>2 DEF TakenByOther
  <1>4. (ReplacedOnce /\ HeldOnce /\ InactiveAccounted)'
    BY <1>1, <1>2 DEF LockInv, ReplacedOnce, HeldOnce, InactiveAccounted, Replaced
  <1>5. WaitingTakenOver'
    <2> SUFFICES ASSUME NEW s \in Runs, Waiting(s)'
                 PROVE  rows'[run'[s].prev].active \/ TakenByOther(s, run[s].prev)'
      BY DEF WaitingTakenOver
    <2>1. CASE rows[run'[s].prev].active
      BY <1>1, <2>1
    <2>2. CASE Waiting(s) /\ run'[s].prev = run[s].prev
      <3>1. run[s].prev \in Ids
        BY <2>2 DEF TypeOK, LocalsOK, Waiting
      <3>2. rows[run[s].prev].active \/ TakenByOther(s, run[s].prev)
        BY <2>2 DEF LockInv, WaitingTakenOver
      <3> QED
        BY <1>1, <1>2, <2>2, <3>1, <3>2 DEF TakenByOther
    <2> QED
      BY <2>1, <2>2 DEF Skips, KeepsPlace
  <1>6. SkipMeansTakenOver'
    <2> SUFFICES ASSUME NEW e \in skipped \cup {<<r, p>>} PROVE TakenByOther(e[1], e[2])'
      BY <1>1 DEF SkipMeansTakenOver
    <2>1. TakenByOther(r, p)'
      BY <1>3 DEF Skips, LockInv, WaitingTakenOver
    <2>2. CASE e = <<r, p>>
      BY <2>1, <2>2
    <2>3. CASE e \in skipped
      <3>1. e[1] \in Runs /\ e[2] \in Ids
        BY <2>3 DEF TypeOK
      <3> QED
        BY <1>3, <2>3, <3>1 DEF LockInv, SkipMeansTakenOver
    <2> QED
      BY <2>2, <2>3
  <1> QED
    BY <1>4, <1>5, <1>6 DEF LockInv

\* ... of a run that stops, ...
LEMMA LockStops ==
  ASSUME TypeOK, LockInv, NEW r \in Runs, Stops(r) PROVE LockInv'
  <1>1. /\ Ids' = Ids /\ rows' = rows /\ skipped' = skipped
        /\ \A e \in lost : e \in lost'
        /\ \A i \in Ids : Holds(r, i) => <<r, i>> \in lost'
    BY DEF Stops, Ids
  <1>2. /\ \A s \in Runs \ {r}, i \in Ids : Holds(s, i)' <=> Holds(s, i)
        /\ \A i \in Ids : ~Holds(r, i)'
    BY DEF Stops, Holds
  <1>3. \A s \in Runs, i \in Ids : TakenByOther(s, i) => TakenByOther(s, i)'
    BY <1>1, <1>2 DEF TakenByOther
  <1>4. (ReplacedOnce /\ HeldOnce)'
    BY <1>1, <1>2 DEF LockInv, ReplacedOnce, HeldOnce, Replaced
  <1>5. InactiveAccounted'
    BY <1>1, <1>2 DEF LockInv, InactiveAccounted, Replaced
  <1>6. WaitingTakenOver'
    <2> SUFFICES ASSUME NEW s \in Runs, Waiting(s)'
                 PROVE  rows'[run'[s].prev].active \/ TakenByOther(s, run[s].prev)'
      BY DEF WaitingTakenOver
    <2>1. s # r /\ run'[s] = run[s] /\ Waiting(s)
      BY DEF Stops, Waiting
    <2>2. run[s].prev \in Ids
      BY <2>1 DEF TypeOK, LocalsOK, Waiting
    <2>3. rows[run[s].prev].active \/ TakenByOther(s, run[s].prev)
      BY <2>1 DEF LockInv, WaitingTakenOver
    <2> QED
      BY <1>1, <1>2, <2>1, <2>2, <2>3 DEF TakenByOther
  <1>7. SkipMeansTakenOver'
    <2> SUFFICES ASSUME NEW e \in skipped PROVE TakenByOther(e[1], e[2])'
      BY <1>1 DEF SkipMeansTakenOver
    <2>1. e[1] \in Runs /\ e[2] \in Ids
      BY DEF TypeOK
    <2> QED
      BY <1>3, <2>1 DEF LockInv, SkipMeansTakenOver
  <1> QED
    BY <1>4, <1>5, <1>6, <1>7 DEF LockInv

\* ... and of an INSERT, which ends the hold.
LEMMA LockInserts ==
  ASSUME TypeOK, LockInv, NEW r \in Runs, NEW row \in Row, Inserts(r, row) PROVE LockInv'
  <1> DEFINE new == Len(rows) + 1
  <1>1. /\ Ids' = Ids \cup {new} /\ new \notin Ids /\ lost' = lost /\ skipped' = skipped
        /\ \A i \in Ids : rows'[i] = rows[i]
        /\ rows'[new] = row
    BY InsertRow DEF Inserts
  <1> HIDE DEF new
  <1>2. /\ row.active /\ row.by = r /\ row.prev \in Ids \cup {0} /\ 0 \notin Ids
        /\ \A i \in Ids : Holds(r, i) <=> i = row.prev
    BY DEF Inserts, Ids, TypeOK
  <1>3. /\ \A s \in Runs \ {r}, i \in Ids' : Holds(s, i)' <=> Holds(s, i)
        /\ \A i \in Ids' : ~Holds(r, i)'
    BY DEF Inserts, Holds
  <1>4. \A s \in Runs : ~Holds(s, new)
    BY <1>1 DEF TypeOK, LocalsOK, Holds, Ids, new
  <1>5. \A i \in Ids : Replaced(i)' <=> Replaced(i) \/ i = row.prev
    BY <1>1 DEF Replaced
  <1>6. ReplacedOnce'
    <2> SUFFICES ASSUME NEW j \in Ids', rows'[j].prev # 0
                 PROVE  /\ ~rows'[rows'[j].prev].active
                        /\ \A k \in Ids' : rows'[k].prev = rows'[j].prev => k = j
      BY DEF ReplacedOnce
    <2>1. CASE j \in Ids
      <3>1. rows[j].prev \in Ids /\ rows'[j] = rows[j] /\ ~rows[rows[j].prev].active
        BY <1>1, <2>1, PrevExists DEF LockInv, ReplacedOnce
      <3>2. rows[j].prev # row.prev
        BY <1>2, <2>1, <3>1 DEF LockInv, HeldOnce, Replaced
      <3> QED
        BY <1>1, <2>1, <3>1, <3>2 DEF LockInv, ReplacedOnce
    <2>2. CASE j = new
      <3>1. row.prev \in Ids /\ Holds(r, row.prev)
        BY <1>1, <1>2, <2>2
      <3>2. ~rows[row.prev].active /\ \A k \in Ids : rows[k].prev # row.prev
        BY <3>1 DEF LockInv, HeldOnce, Replaced
      <3> QED
        BY <1>1, <2>2, <3>1, <3>2
    <2> QED
      BY <1>1, <2>1, <2>2
  <1>7. HeldOnce'
    <2> SUFFICES ASSUME NEW s \in Runs, NEW i \in Ids', Holds(s, i)'
                 PROVE  /\ ~rows'[i].active /\ ~Replaced(i)'
                        /\ \A t \in Runs : Holds(t, i)' => t = s
      BY DEF HeldOnce
    <2>1. s # r /\ Holds(s, i) /\ i \in Ids
      BY <1>1, <1>3, <1>4
    <2>2. i # row.prev
      BY <1>2, <2>1 DEF LockInv, HeldOnce
    <2> QED
      BY <1>1, <1>3, <1>5, <2>1, <2>2 DEF LockInv, HeldOnce
  <1>8. InactiveAccounted'
    <2> SUFFICES ASSUME NEW i \in Ids', ~rows'[i].active
                 PROVE  \/ Replaced(i)'
                        \/ \E s \in Runs : Holds(s, i)'
                        \/ \E s \in Runs : <<s, i>> \in lost
      BY <1>1 DEF InactiveAccounted
    <2>1. i \in Ids /\ ~rows[i].active
      BY <1>1, <1>2
    <2>2. CASE i = row.prev
      BY <1>5, <2>1, <2>2
    <2>3. CASE i # row.prev
      BY <1>1, <1>2, <1>3, <1>5, <2>1, <2>3 DEF LockInv, InactiveAccounted
    <2> QED
      BY <2>2, <2>3
  <1>9. \A s \in Runs, i \in Ids : TakenByOther(s, i) => TakenByOther(s, i)'
    <2> SUFFICES ASSUME NEW s \in Runs, NEW i \in Ids, NEW t \in Runs \ {s},
                        \/ \E j \in Ids : rows[j].prev = i /\ rows[j].by = t
                        \/ Holds(t, i)
                        \/ <<t, i>> \in lost
                 PROVE  \/ \E j \in Ids' : rows'[j].prev = i /\ rows'[j].by = t
                        \/ Holds(t, i)'
                        \/ <<t, i>> \in lost'
      BY DEF TakenByOther
    <2>1. CASE t = r /\ Holds(t, i)
      <3>1. row.prev = i /\ rows'[new].prev = i /\ rows'[new].by = t
        BY <1>1, <1>2, <2>1
      <3> QED
        BY <1>1, <3>1
    <2>2. CASE ~(t = r /\ Holds(t, i))
      BY <1>1, <1>3, <2>2
    <2> QED
      BY <2>1, <2>2
  <1>10. WaitingTakenOver'
    <2> SUFFICES ASSUME NEW s \in Runs, Waiting(s)'
                 PROVE  rows'[run'[s].prev].active \/ TakenByOther(s, run[s].prev)'
      BY DEF WaitingTakenOver
    <2>1. s # r /\ run'[s] = run[s] /\ Waiting(s)
      BY DEF Inserts, Waiting
    <2>2. run[s].prev \in Ids
      BY <2>1 DEF TypeOK, LocalsOK, Waiting
    <2>3. CASE rows[run[s].prev].active
      BY <1>1, <2>1, <2>2, <2>3
    <2>4. CASE TakenByOther(s, run[s].prev)
      <3> DEFINE i == run[s].prev
      <3>1. TakenByOther(s, i)
        BY <2>4
      <3> QED
        BY <1>9, <2>1, <2>2, <3>1 DEF TakenByOther
    <2> QED
      BY <2>1, <2>3, <2>4 DEF LockInv, WaitingTakenOver
  <1>11. SkipMeansTakenOver'
    <2> SUFFICES ASSUME NEW e \in skipped PROVE TakenByOther(e[1], e[2])'
      BY <1>1 DEF SkipMeansTakenOver
    <2>1. e[1] \in Runs /\ e[2] \in Ids
      BY DEF TypeOK
    <2> QED
      BY <1>9, <2>1 DEF LockInv, SkipMeansTakenOver
  <1> QED
    BY <1>6, <1>7, <1>8, <1>10, <1>11 DEF LockInv

\* Every step keeps LockInv.
LEMMA LockStep == TypeOK /\ LockInv /\ [Next]_vars => LockInv'
  BY StepEffect, LockQuiet, LockTakesOver, LockSkips, LockInserts, LockStops

\* A row is replaced at most once and never while it is active, whatever
\* number of runs calculate the same position at the same time.
THEOREM LockSafe == Spec => []ReplacedOnce
  <1>1. Init => TypeOK /\ LockInv
    BY TypeInit, LockInit
  <1>2. TypeOK /\ LockInv /\ [Next]_vars => (TypeOK /\ LockInv)'
    BY TypeStep, LockStep
  <1>3. TypeOK /\ LockInv => ReplacedOnce
    BY DEF LockInv
  <1> QED
    BY <1>1, <1>2, <1>3, PTL DEF Spec

\* Every inactive row has its successor, is in the hands of a run, or was in
\* those of a run that stopped between its UPDATE and its INSERT.
THEOREM NothingVanishes == Spec => []InactiveAccounted
  <1>1. Init => TypeOK /\ LockInv
    BY TypeInit, LockInit
  <1>2. TypeOK /\ LockInv /\ [Next]_vars => (TypeOK /\ LockInv)'
    BY TypeStep, LockStep
  <1>3. TypeOK /\ LockInv => InactiveAccounted
    BY DEF LockInv
  <1> QED
    BY <1>1, <1>2, <1>3, PTL DEF Spec

\* A run gives a position up only to another run that took its row over.
THEOREM SkipSound == Spec => []SkipMeansTakenOver
  <1>1. Init => TypeOK /\ LockInv
    BY TypeInit, LockInit
  <1>2. TypeOK /\ LockInv /\ [Next]_vars => (TypeOK /\ LockInv)'
    BY TypeStep, LockStep
  <1>3. TypeOK /\ LockInv => SkipMeansTakenOver
    BY DEF LockInv
  <1> QED
    BY <1>1, <1>2, <1>3, PTL DEF Spec

-----------------------------------------------------------------------------
(***************************************************************************)
(* Runs that do not overlap. What one run relies on is told in terms of    *)
(* its locals s and the table rs.                                          *)
(***************************************************************************)
Touching == {"deactivate", "sum", "insert"}

\* The row is the position that "previous" is looked for in.
Place(row, item, lt, month) ==
  /\ row.child = item.child
  /\ row.code = item.code
  /\ row.lt = lt
  /\ row.month = month

Kids(rs, code, lt, month) ==
  {i \in DOMAIN rs : /\ rs[i].active
                     /\ rs[i].child # code
                     /\ rs[i].code = code
                     /\ rs[i].lt = lt
                     /\ rs[i].month = month}

\* The active rows of a position.
Holders(rs, item, lt, month) ==
  {i \in DOMAIN rs : rs[i].active /\ Place(rs[i], item, lt, month)}

\* It may have one more.
Room(rs, item, lt, month) ==
  Cardinality(Holders(rs, item, lt, month)) < ActiveBound(item)

\* A child, and the only active one of its code's group.
Orphan(rs, i, lt) ==
  /\ i \in DOMAIN rs /\ rs[i].active /\ rs[i].lt = lt /\ rs[i].child # rs[i].code
  /\ \A j \in DOMAIN rs :
       /\ rs[j].active /\ rs[j].lt = lt /\ rs[j].code = rs[i].code
       /\ rs[j].child # rs[j].code
       => j = i

\* What the parent of a child's group is looked up by.
ParentOf(row) == [child |-> row.code, code |-> row.code]

\* The parents still to be made for an orphan.
Pending(todo, i) == {e \in todo : e[1] = i}

\* With those already there they are no more than its code has locations.
Fits(rs, todo, i, lt) ==
  /\ IsFiniteSet(Pending(todo, i))
  /\ Cardinality(Holders(rs, ParentOf(rs[i]), lt, rs[i].month)) + Cardinality(Pending(todo, i))
       <= Cardinality(Locations[rs[i].code])

\* The items of the parents' pass are the parents. The row read as previous is
\* the position's; once it is deactivated the position has room for another.
\* The children a parent has added up are those there are. An orphan stays the
\* only child while its parents are made.
RunOK(s, rs) ==
  /\ \A e \in s.todo : /\ s.lt # 3 => e.month = s.month
                       /\ s.pass = 3 <=> e.code = e.child
  /\ s.pc \in Touching =>
       /\ s.lt # 3 => s.item.month = s.month
       /\ s.pass = 3 <=> s.item.code = s.item.child
  /\ s.pc = "deactivate" =>
       rs[s.prev].active /\ Place(rs[s.prev], s.item, s.lt, s.month)
  /\ s.pc \in {"sum", "insert"} /\ s.lt # 3 => Room(rs, s.item, s.lt, s.month)
  /\ s.pc = "insert" /\ s.pass = 3 => s.kids = Kids(rs, s.item.code, s.lt, s.month)
  /\ s.pc = "orphans" =>
       \A e \in s.orphans : Orphan(rs, e[1], s.lt) /\ Fits(rs, s.orphans, e[1], s.lt)

\* The rows a run has written are the last, and none is a parent before the
\* parents' pass.
Late(s) == s.pass = 3 \/ s.pc \in {"findOrphans", "orphans"}

OwnRows(r, s, rs) ==
  /\ (\E i \in DOMAIN rs : rs[i].by = r) => rs[Len(rs)].by = r
  /\ ~Late(s) => \A i \in DOMAIN rs : rs[i].by = r => ~rs[i].parent

WithinBound(rs) ==
  \A i \in DOMAIN rs :
    rs[i].active /\ rs[i].lt # 3 =>
      Cardinality(Holders(rs, rs[i], rs[i].lt, rs[i].month)) <= ActiveBound(rs[i])

Totals(r, rs) ==
  \A i \in DOMAIN rs :
    rs[i].active /\ rs[i].by = r /\ rs[i].parent /\ rs[i].lt # 3 =>
      rs[i].kids = Kids(rs, rs[i].code, rs[i].lt, rs[i].month)

\* Another run has taken a row out of use and not yet replaced it, or never will.
Interferes(s) == s.pc = "aborted" \/ (s.pc \in {"sum", "insert"} /\ s.prev # 0)

Latest(r, rs) == rs # << >> /\ rs[Len(rs)].by = r

\* The totals of the run that wrote last stand as long as no other interferes.
TotalsStand(r, locals, rs) ==
  /\ Latest(r, rs) /\ \A s \in Runs \ {r} : ~Interferes(locals[s])
  => Totals(r, rs)

SerialInv ==
  ~overlap =>
    /\ \A r \in Runs : run[r].pc = "idle" => \A i \in Ids : rows[i].by # r
    /\ \A r, s \in Runs : Active(r) /\ Active(s) => r = s
    /\ \A r \in Runs : Active(r) => RunOK(run[r], rows) /\ OwnRows(r, run[r], rows)
    /\ WithinBound(rows)
    /\ \A r \in Runs : TotalsStand(r, run, rows)

\* What Continue leaves of the locals.
LEMMA ContinueKeeps ==
  ASSUME NEW s \in RunState
  PROVE  LET t == Continue(s)
         IN  /\ t.todo = s.todo /\ t.lt = s.lt /\ t.month = s.month /\ t.prev = s.prev
             /\ t.pc \in {"read", "query", "findOrphans"}
             /\ t.pass = s.pass \/ (s.todo = {} /\ s.pass < 3)
BY PassesType DEF Continue, RunState

\* What ItemDone leaves of the locals.
LEMMA ItemDoneKeeps ==
  ASSUME NEW s \in RunState
  PROVE  LET t == ItemDone(s)
         IN  /\ t.todo = s.todo /\ t.lt = s.lt /\ t.month = s.month /\ t.prev = 0
             /\ t.pc \in {"read", "query", "findOrphans"}
             /\ t.pass = s.pass \/ (s.todo = {} /\ s.pass < 3)
<1> DEFINE a == [s EXCEPT !.item = NoItem]
           b == [a EXCEPT !.prev = 0]
           c == [b EXCEPT !.pos = 0]
           d == [c EXCEPT !.kids = {}]
<1>1. a \in RunState /\ a.todo = s.todo /\ a.lt = s.lt /\ a.month = s.month /\ a.pass = s.pass
  BY DEF RunState
<1> HIDE DEF a
<1>2. /\ b \in RunState /\ b.todo = s.todo /\ b.lt = s.lt /\ b.month = s.month
      /\ b.pass = s.pass /\ b.prev = 0
  BY <1>1 DEF RunState
<1> HIDE DEF b
<1>3. /\ c \in RunState /\ c.todo = s.todo /\ c.lt = s.lt /\ c.month = s.month
      /\ c.pass = s.pass /\ c.prev = 0
  BY <1>2 DEF RunState
<1> HIDE DEF c
<1>4. /\ d \in RunState /\ d.todo = s.todo /\ d.lt = s.lt /\ d.month = s.month
      /\ d.pass = s.pass /\ d.prev = 0
  BY <1>3 DEF RunState
<1> HIDE DEF d
<1>5. ItemDone(s) = Continue(d)
  BY DEF ItemDone, a, b, c, d
<1>6. QED
  BY <1>4, <1>5, ContinueKeeps

\* A run that goes on after a statement has nothing under way but its items.
LEMMA GoesOn ==
  ASSUME NEW s, NEW rs, NEW t, NEW new, RunOK(s, rs),
         t.todo = s.todo, t.lt = s.lt, t.month = s.month,
         t.pc \in {"read", "query", "findOrphans"},
         t.pass = s.pass \/ s.todo = {}
  PROVE  RunOK(t, new)
BY DEF RunOK, Touching

\* The items of a contract month.
LEMMA JoinedItems ==
  ASSUME NEW k \in 1..3, NEW lt, NEW month, NEW e \in Joined(Passes[k], lt, month)
  PROVE  /\ lt # 3 => e.month = month
         /\ k = 3 <=> e.code = e.child
<1> DEFINE pass == Passes[k]
<1>1. PICK x \in temp :
        /\ ReportingCode(x.code, pass) # NULL
        /\ IF lt = 3 THEN x.month >= month ELSE x.month = month
        /\ e = [child |-> x.code, code |-> ReportingCode(x.code, pass),
                month |-> x.month, qty |-> x.qty]
  BY DEF Joined
<1>2. e.month = x.month /\ e.code = ReportingCode(x.code, pass) /\ e.child = x.code
  BY <1>1
<1>3. k = 3 <=> pass = "parent"
  BY DEF Passes
<1> HIDE DEF pass
<1>4. pass = "parent" => ReportingCode(x.code, pass) = x.code
  BY <1>1 DEF ReportingCode
<1>5. pass # "parent" => ReportingCode(x.code, pass) # x.code
  BY <1>1 DEF ReportingCode
<1>6. QED
  BY <1>1, <1>2, <1>3, <1>4, <1>5

\* A step of a run that is alone, from what it leaves behind.
LEMMA AloneStep ==
  ASSUME TypeOK, SerialInv, ~overlap, NEW r \in Runs, NEW u,
         run' = [run EXCEPT ![r] = u], u.pc # "idle",
         \A s \in Runs \ {r} : ~Active(s),
         Ids \subseteq Ids', \A i \in Ids : rows'[i].by = rows[i].by,
         \A i \in Ids' \ Ids : rows'[i].by = r,
         u.pc \notin Stopped => RunOK(u, rows') /\ OwnRows(r, u, rows'),
         WithinBound(rows'),
         \A s \in Runs : TotalsStand(s, run', rows')
  PROVE  SerialInv'
<1>1. run'[r] = u /\ \A s \in Runs \ {r} : run'[s] = run[s]
  BY DEF TypeOK
<1>2. \A s \in Runs : run'[s].pc = "idle" => \A i \in Ids' : rows'[i].by # s
  BY <1>1 DEF SerialInv
<1>3. \A s \in Runs : Active(s)' => s = r
  BY <1>1 DEF Active
<1>4. \A s \in Runs : Active(s)' => RunOK(run'[s], rows') /\ OwnRows(s, run'[s], rows')
  BY <1>1, <1>3 DEF Active
<1>5. QED
  BY <1>2, <1>3, <1>4 DEF SerialInv

\* A step that leaves the table alone. The totals of other runs stand unless
\* this one holds a row.
LEMMA QuietAlone ==
  ASSUME TypeOK, SerialInv, ~overlap, NEW r \in Runs, NEW u,
         run' = [run EXCEPT ![r] = u], u.pc # "idle", rows' = rows,
         \A s \in Runs \ {r} : ~Active(s),
         u.pc \notin Stopped => RunOK(u, rows) /\ OwnRows(r, u, rows),
         Interferes(run[r]) => Interferes(u)
  PROVE  SerialInv'
<1>1. run'[r] = u /\ \A s \in Runs \ {r} : run'[s] = run[s]
  BY DEF TypeOK
<1>2. \A s \in Runs : TotalsStand(s, run', rows')
  BY <1>1 DEF SerialInv, TotalsStand
<1>3. WithinBound(rows')
  BY DEF SerialInv
<1>4. Ids' = Ids
  BY DEF Ids
<1>5. QED
  BY <1>2, <1>3, <1>4, AloneStep

\* What a run that is active may rely on.
LEMMA Alone ==
  ASSUME SerialInv, ~overlap, NEW r \in Runs, Active(r)
  PROVE  /\ \A s \in Runs \ {r} : ~Active(s)
         /\ RunOK(run[r], rows) /\ OwnRows(r, run[r], rows)
BY DEF SerialInv

\* Later locals of a run rely on no more of its own rows.
LEMMA OwnKept ==
  ASSUME NEW r, NEW s, NEW rs, NEW u, OwnRows(r, s, rs), Late(s) => Late(u)
  PROVE  OwnRows(r, u, rs)
BY DEF OwnRows

\* A run that starts has written nothing and has nothing to do yet.
LEMMA StartAlone ==
  ASSUME TypeOK, SerialInv, NEW r \in Runs, NEW lt \in LimitTypes, Start(r, lt), ~overlap'
  PROVE  SerialInv'
<1> DEFINE a == Started(lt)
           u == Continue(a)
<1>1. /\ run[r].pc = "idle" /\ run' = [run EXCEPT ![r] = u] /\ rows' = rows
      /\ ~overlap /\ \A s \in Runs : ~Active(s)
  BY DEF Start
<1>2. a \in RunState /\ a.todo = {}
  <2>1. a \in RunState
    BY StartedType DEF TypeOK
  <2>2. a.todo = {}
    BY DEF Started, Idle
  <2>3. QED
    BY <2>1, <2>2
<1> HIDE DEF a
<1>3. u.todo = {} /\ u.pc \in {"read", "query", "findOrphans"}
  BY <1>2, ContinueKeeps
<1> HIDE DEF u
<1>4. RunOK(u, rows)
  BY <1>3 DEF RunOK, Touching
<1>5. OwnRows(r, u, rows)
  BY <1>1 DEF SerialInv, OwnRows, Ids
<1>6. ~Interferes(run[r])
  BY <1>1 DEF Interferes
<1>7. QED
  BY <1>1, <1>3, <1>4, <1>5, <1>6, QuietAlone

\* A run alone queries the positions of its month and pass, ...
LEMMA QueryAlone ==
  ASSUME TypeOK, SerialInv, ~overlap, NEW r \in Runs, Query(r)
  PROVE  SerialInv'
<1> DEFINE s == run[r]
<1>1. PICK month \in s.months : run' = [run EXCEPT ![r] = Continue(Fetched(s, month))]
  BY DEF Query
<1>2. /\ s.pc = "query" /\ rows' = rows /\ s \in RunState /\ Active(r)
      /\ s.pass \in 1..3
  BY DEF Query, Active, Stopped, TypeOK, RunState
<1> DEFINE f == Fetched(s, month)
           u == Continue(f)
<1>3. f \in RunState
  BY <1>2, FetchedType DEF TypeOK
<1>4. /\ f.pc = "query" /\ f.lt = s.lt /\ f.month = month /\ f.pass = s.pass
      /\ f.todo = Joined(Passes[s.pass], s.lt, month)
  <2> DEFINE a == [s EXCEPT !.months = s.months \ {month}]
             b == [a EXCEPT !.month = month]
             c == [b EXCEPT !.todo = Joined(Passes[s.pass], s.lt, month)]
  <2>1. f = c
    BY DEF Fetched
  <2> HIDE DEF s
  <2>2. DOMAIN s = {"pc", "lt", "all", "months", "pass", "month", "asOf", "todo", "item",
                    "prev", "pos", "kids", "orphans"}
    BY <1>2 DEF RunState
  <2>3. /\ DOMAIN a = DOMAIN s /\ a.pc = s.pc /\ a.lt = s.lt /\ a.pass = s.pass
    BY <2>2
  <2> HIDE DEF a
  <2>4. /\ DOMAIN b = DOMAIN s /\ b.pc = s.pc /\ b.lt = s.lt /\ b.pass = s.pass
        /\ b.month = month
    BY <2>2, <2>3
  <2> HIDE DEF b
  <2>5. /\ c.pc = s.pc /\ c.lt = s.lt /\ c.pass = s.pass /\ c.month = month
        /\ c.todo = Joined(Passes[s.pass], s.lt, month)
    BY <2>2, <2>4
  <2>6. QED
    BY <1>2, <2>1, <2>5
<1>5. run' = [run EXCEPT ![r] = u]
  BY <1>1
<1> HIDE DEF f, s
<1>6. RunOK(f, rows)
  <2>1. \A e \in f.todo : /\ f.lt # 3 => e.month = f.month
                          /\ f.pass = 3 <=> e.code = e.child
    BY <1>2, <1>4, JoinedItems
  <2>2. QED
    BY <1>4, <2>1 DEF RunOK, Touching
<1>7. /\ u.todo = f.todo /\ u.lt = f.lt /\ u.month = f.month
      /\ u.pc \in {"read", "query", "findOrphans"}
      /\ u.pass = f.pass \/ (f.todo = {} /\ f.pass < 3)
  BY <1>3, ContinueKeeps
<1> HIDE DEF u
<1>8. RunOK(u, rows)
  BY <1>6, <1>7, GoesOn
<1>9. /\ \A q \in Runs \ {r} : ~Active(q)
      /\ OwnRows(r, s, rows)
  BY <1>2, Alone DEF s
<1>10. OwnRows(r, u, rows)
  BY <1>2, <1>4, <1>7, <1>9, OwnKept DEF Late
<1>11. ~Interferes(run[r])
  BY <1>2 DEF Interferes, s
<1>12. QED
  BY <1>2, <1>5, <1>7, <1>8, <1>9, <1>10, <1>11, QuietAlone

\* Parents, the items of the last pass, add up their children.
LEMMA SumsParents == \A item : BeforeInsert(item) = "insert" => item.code # item.child
BY DEF BeforeInsert

\* What the choice of a position leaves of the locals.
LEMMA WithoutKeeps ==
  ASSUME NEW s \in RunState, NEW item \in s.todo
  PROVE  LET u == WithoutPrevious(s, item)
         IN  /\ u.todo = s.todo \ {item} /\ u.month = s.month /\ u.pass = s.pass
             /\ u.pc = BeforeInsert(item)
BY DEF WithoutPrevious, RunState

\* The same when there is a previous row.
LEMMA WithKeeps ==
  ASSUME NEW s \in RunState, NEW item \in s.todo, NEW p
  PROVE  LET u == WithPrevious(s, item, p)
         IN  u.todo = s.todo \ {item} /\ u.month = s.month /\ u.pass = s.pass
BY DEF WithPrevious, RunState

\* The active rows of a position are finitely many, ...
LEMMA HoldersFinite ==
  ASSUME NEW rs \in Seq(Row), NEW item, NEW lt, NEW month
  PROVE  /\ IsFiniteSet(Holders(rs, item, lt, month))
         /\ Cardinality(Holders(rs, item, lt, month)) \in Nat
<1>1. IsFiniteSet(1..Len(rs))
  BY FS_Interval
<1>2. Holders(rs, item, lt, month) \in SUBSET (1..Len(rs))
  BY DEF Holders
<1>3. QED
  BY <1>1, <1>2, FS_Subset, FS_CardinalityType

\* ... and every position may have one.
LEMMA BoundType ==
  ASSUME NEW item, item.code \in Codes
  PROVE  ActiveBound(item) \in Nat \ {0}
<1>1. Cardinality(Locations[item.code]) \in Nat \ {0}
  BY MappingAssumption, FS_CardinalityType, FS_EmptySet
<1>2. QED
  BY <1>1 DEF ActiveBound

\* No row is newer than the clock.
CreatedPast == \A i \in Ids : rows[i].created <= now

\* A set of numbers that is not empty has a least one.
LEMMA LeastNumber ==
  ASSUME NEW B, B \subseteq Nat, B # {}
  PROVE  \E n \in B : \A m \in B : n <= m
<1>1. PICK n \in B : \A m \in B : ~(<<m, n>> \in OpToRel(<, Nat))
  BY NatLessThanWellFounded, WFMin
<1>2. ASSUME NEW m \in B PROVE n <= m
  <2>1. m \in Nat /\ n \in Nat /\ ~(m < n)
    BY <1>1 DEF OpToRel
  <2>2. QED
    BY <2>1
<1>3. QED
  BY <1>2

\* One of several candidates for "previous" is the newest, so that none is
\* found only where there is none.
LEMMA NoneFound ==
  ASSUME TypeOK, CreatedPast, NEW item, item.code \in Codes, NEW lt, NEW month,
         Newest(Candidates(item, lt, month)) = {}
  PROVE  Room(rows, item, lt, month)
<1> DEFINE C == Candidates(item, lt, month)
           B == {now - rows[j].created : j \in C}
<1>1. \A j \in C : rows[j].created \in Nat /\ rows[j].created <= now
  <2>1. \A j \in Ids : rows[j] \in Row
    BY DEF TypeOK, Ids
  <2>2. QED
    BY <2>1 DEF Candidates, ActiveIds, CreatedPast, Row
<1>2. now \in Nat
  BY DEF TypeOK
<1>3. C = {}
  <2> SUFFICES ASSUME C # {} PROVE FALSE
    OBVIOUS
  <2> HIDE DEF C
  <2>1. B \subseteq Nat /\ B # {}
    BY <1>1, <1>2
  <2>2. PICK n \in B : \A m \in B : n <= m
    BY <2>1, LeastNumber
  <2>3. PICK j \in C : n = now - rows[j].created
    OBVIOUS
  <2>4. \A k \in C : now - rows[j].created <= now - rows[k].created
    BY <2>2, <2>3
  <2>5. \A k \in C : rows[k].created <= rows[j].created
    BY <1>1, <1>2, <2>4
  <2>6. j \in Newest(C)
    BY <2>5 DEF Newest
  <2>7. QED
    BY <2>6 DEF C
<1>4. Holders(rows, item, lt, month) = C
  BY DEF Holders, Candidates, ActiveIds, Ids, Place
<1> HIDE DEF C
<1>5. Cardinality(Holders(rows, item, lt, month)) = 0
  BY <1>3, <1>4, FS_EmptySet
<1>6. QED
  BY <1>5, BoundType DEF Room

\* ... reads the active row of a position, if there is one, ...
LEMMA ReadAlone ==
  ASSUME TypeOK, CreatedPast, SerialInv, ~overlap, NEW r \in Runs, ReadPrevious(r)
  PROVE  SerialInv'
<1> DEFINE s == run[r]
<1>1. PICK item \in s.todo :
        LET found == Newest(Candidates(item, s.lt, s.month))
        IN  \/ /\ found = {}
               /\ run' = [run EXCEPT ![r] = WithoutPrevious(s, item)]
            \/ \E p \in found : run' = [run EXCEPT ![r] = WithPrevious(s, item, p)]
  BY DEF ReadPrevious
<1>2. /\ s.pc = "read" /\ rows' = rows /\ s \in RunState /\ Active(r) /\ rows \in Seq(Row)
  BY DEF ReadPrevious, Active, Stopped, TypeOK
<1>3. /\ \A q \in Runs \ {r} : ~Active(q)
      /\ RunOK(s, rows) /\ OwnRows(r, s, rows) /\ WithinBound(rows)
  BY <1>2, Alone DEF SerialInv
<1>4. ~Interferes(run[r])
  BY <1>2 DEF Interferes
<1>5. /\ \A e \in s.todo : /\ s.lt # 3 => e.month = s.month
                           /\ s.pass = 3 <=> e.code = e.child
      /\ s.lt # 3 => item.month = s.month
      /\ s.pass = 3 <=> item.code = item.child
  BY <1>3 DEF RunOK
<1>6. ASSUME Newest(Candidates(item, s.lt, s.month)) = {},
             run' = [run EXCEPT ![r] = WithoutPrevious(s, item)]
      PROVE  SerialInv'
  <2> DEFINE u == WithoutPrevious(s, item)
  <2>1. /\ u.pc \in {"sum", "insert"} /\ u.pc = BeforeInsert(item) /\ u.item = item
        /\ u.lt = s.lt /\ u.month = s.month /\ u.pass = s.pass /\ u.todo = s.todo \ {item}
    BY <1>2, WithoutPreviousType, WithoutKeeps
  <2>2. run' = [run EXCEPT ![r] = u]
    BY <1>6
  <2> HIDE DEF u, s
  <2>3. Room(rows, item, s.lt, s.month)
    <3>1. item.code \in Codes
      BY <1>2 DEF RunState, Item
    <3>2. QED
      BY <1>6, <3>1, NoneFound
  <2>4. RunOK(u, rows)
    <3>1. \A e \in u.todo : /\ u.lt # 3 => e.month = u.month
                            /\ u.pass = 3 <=> e.code = e.child
      BY <1>5, <2>1
    <3>2. u.pc = "insert" => u.pass # 3
      BY <1>5, <2>1, SumsParents
    <3>3. QED
      BY <1>5, <2>1, <2>3, <3>1, <3>2 DEF RunOK, Touching
  <2>5. OwnRows(r, u, rows)
    BY <1>2, <1>3, <2>1, OwnKept DEF Late
  <2>6. QED
    BY <1>2, <1>3, <1>4, <2>1, <2>2, <2>4, <2>5, QuietAlone
<1>7. ASSUME NEW p \in Newest(Candidates(item, s.lt, s.month)),
             run' = [run EXCEPT ![r] = WithPrevious(s, item, p)]
      PROVE  SerialInv'
  <2> DEFINE u == WithPrevious(s, item, p)
  <2>1. p \in Ids /\ rows[p].active /\ Place(rows[p], item, s.lt, s.month)
    BY <1>7 DEF Newest, Candidates, ActiveIds, Place
  <2>2. /\ u.pc = "deactivate" /\ u.prev = p /\ u.item = item
        /\ u.lt = s.lt /\ u.month = s.month /\ u.pass = s.pass /\ u.todo = s.todo \ {item}
    BY <1>2, <2>1, WithPreviousType, WithKeeps
  <2>3. run' = [run EXCEPT ![r] = u]
    BY <1>7
  <2> HIDE DEF u, s
  <2>4. RunOK(u, rows)
    <3>1. \A e \in u.todo : /\ u.lt # 3 => e.month = u.month
                            /\ u.pass = 3 <=> e.code = e.child
      BY <1>5, <2>2
    <3>2. QED
      BY <1>5, <2>1, <2>2, <3>1 DEF RunOK, Touching
  <2>5. OwnRows(r, u, rows)
    BY <1>2, <1>3, <2>2, OwnKept DEF Late
  <2>6. QED
    BY <1>2, <1>3, <1>4, <2>2, <2>3, <2>4, <2>5, QuietAlone
<1>8. QED
  BY <1>1, <1>6, <1>7

\* Deactivating a row changes nothing that rows are looked up by.
LEMMA DeactivateKeeps ==
  ASSUME rows \in Seq(Row), NEW p \in Ids, rows' = [rows EXCEPT ![p].active = FALSE]
  PROVE  /\ Ids' = Ids /\ Len(rows') = Len(rows) /\ ~rows'[p].active
         /\ rows' \in Seq(Row)
         /\ \A i \in Ids : i # p => rows'[i] = rows[i]
         /\ \A i \in Ids :
              /\ rows'[i].child = rows[i].child /\ rows'[i].code = rows[i].code
              /\ rows'[i].lt = rows[i].lt /\ rows'[i].month = rows[i].month
              /\ rows'[i].by = rows[i].by /\ rows'[i].parent = rows[i].parent
              /\ rows'[i].kids = rows[i].kids
<1> DEFINE row == [rows[p] EXCEPT !.active = FALSE]
<1>1. rows[p] \in Row /\ p \in 1..Len(rows)
  BY DEF Ids
<1>2. /\ row \in Row /\ ~row.active /\ row.child = rows[p].child /\ row.code = rows[p].code
      /\ row.lt = rows[p].lt /\ row.month = rows[p].month /\ row.by = rows[p].by
      /\ row.parent = rows[p].parent /\ row.kids = rows[p].kids
  BY <1>1 DEF Row
<1>3. rows' = [rows EXCEPT ![p] = row]
  OBVIOUS
<1> HIDE DEF row
<1>4. rows' \in Seq(Row) /\ Len(rows') = Len(rows) /\ DOMAIN rows' = DOMAIN rows
  <2>1. [rows EXCEPT ![p] = row] \in Seq(Row) /\ Len([rows EXCEPT ![p] = row]) = Len(rows)
    BY <1>1, <1>2, ExceptSeq
  <2>2. QED
    BY <1>3, <2>1
<1>5. rows'[p] = row /\ \A i \in Ids : i # p => rows'[i] = rows[i]
  BY <1>1, <1>3 DEF Ids
<1>6. QED
  BY <1>2, <1>4, <1>5 DEF Ids

\* What an UPDATE leaves of the locals.
LEMMA DeactivatedKeeps ==
  ASSUME NEW s \in RunState
  PROVE  LET u == Deactivated(s)
         IN  /\ u.todo = s.todo /\ u.month = s.month /\ u.pass = s.pass
             /\ u.pc = BeforeInsert(s.item)
BY DEF Deactivated, RunState

\* Its position then has room for another, and no position has more.
LEMMA DeactivatedBound ==
  ASSUME rows \in Seq(Row), rows' \in Seq(Row), WithinBound(rows), Ids' = Ids,
         NEW p \in Ids, rows[p].active, ~rows'[p].active,
         \A i \in Ids : i # p => rows'[i] = rows[i]
  PROVE  /\ WithinBound(rows')
         /\ \A item, lt, month :
              Place(rows[p], item, lt, month) /\ lt # 3 => Room(rows', item, lt, month)
<1>1. \A item, lt, month :
        /\ Holders(rows', item, lt, month) = Holders(rows, item, lt, month) \ {p}
        /\ IsFiniteSet(Holders(rows, item, lt, month))
        /\ Cardinality(Holders(rows, item, lt, month)) \in Nat
  <2> TAKE item, lt, month
  <2>1. Holders(rows', item, lt, month) = Holders(rows, item, lt, month) \ {p}
    BY DEF Holders, Ids
  <2>2. QED
    BY <2>1, HoldersFinite
<1>2. ASSUME NEW item, NEW lt, NEW month, Place(rows[p], item, lt, month), lt # 3
      PROVE  Room(rows', item, lt, month)
  <2>1. Holders(rows, rows[p], rows[p].lt, rows[p].month) = Holders(rows, item, lt, month)
    BY <1>2 DEF Holders, Place
  <2>2. ActiveBound(item) = ActiveBound(rows[p]) /\ ActiveBound(item) \in Nat
    <3>1. rows[p] \in Row
      BY DEF Ids
    <3>2. item.code \in Codes /\ item.code = rows[p].code /\ item.child = rows[p].child
      BY <1>2, <3>1 DEF Place, Row
    <3>3. QED
      BY <3>2, BoundType DEF ActiveBound
  <2>3. Cardinality(Holders(rows, item, lt, month)) <= ActiveBound(item)
    BY <1>2, <2>1, <2>2 DEF WithinBound, Place, Ids
  <2>4. p \in Holders(rows, item, lt, month)
    BY <1>2 DEF Holders, Ids
  <2>5. Cardinality(Holders(rows', item, lt, month))
          = Cardinality(Holders(rows, item, lt, month)) - 1
    <3> DEFINE H == Holders(rows, item, lt, month)
    <3>1. Holders(rows', item, lt, month) = H \ {p} /\ IsFiniteSet(H) /\ p \in H
      BY <1>1, <2>4
    <3> HIDE DEF H
    <3>2. Cardinality(H \ {p}) = Cardinality(H) - 1
      BY <3>1, FS_RemoveElement
    <3>3. QED
      BY <3>1, <3>2 DEF H
  <2>6. QED
    BY <1>1, <2>2, <2>3, <2>5 DEF Room
<1>3. ASSUME NEW i \in Ids, rows'[i].active, rows'[i].lt # 3
      PROVE  Cardinality(Holders(rows', rows'[i], rows'[i].lt, rows'[i].month))
               <= ActiveBound(rows'[i])
  <2>1. i # p /\ rows'[i] = rows[i]
    BY <1>3
  <2>2. Cardinality(Holders(rows, rows[i], rows[i].lt, rows[i].month)) <= ActiveBound(rows[i])
    BY <1>3, <2>1 DEF WithinBound, Ids
  <2>3. ActiveBound(rows[i]) \in Nat
    <3>1. rows[i] \in Row
      BY DEF Ids
    <3>2. rows[i].code \in Codes
      BY <3>1 DEF Row
    <3>3. QED
      BY <3>2, BoundType
  <2> DEFINE H == Holders(rows, rows[i], rows[i].lt, rows[i].month)
  <2>4. Holders(rows', rows[i], rows[i].lt, rows[i].month) = H \ {p}
    BY <1>1
  <2>5. IsFiniteSet(H) /\ Cardinality(H) \in Nat
    BY <1>1
  <2> HIDE DEF H
  <2>6. Cardinality(H \ {p}) <= Cardinality(H) /\ Cardinality(H \ {p}) \in Nat
    <3>1. H \ {p} \in SUBSET H
      OBVIOUS
    <3>2. QED
      BY <2>5, <3>1, FS_Subset, FS_CardinalityType
  <2>7. QED
    BY <2>1, <2>2, <2>3, <2>4, <2>5, <2>6 DEF H
<1>4. QED
  BY <1>2, <1>3 DEF WithinBound, Ids

\* ... deactivates it, after which the position has room for another, ...
LEMMA DeactivateAlone ==
  ASSUME TypeOK, SerialInv, ~overlap, NEW r \in Runs, Deactivate(r)
  PROVE  SerialInv'
<1> DEFINE s == run[r]
           u == Deactivated(s)
<1>1. /\ s.pc = "deactivate" /\ s \in RunState /\ Active(r) /\ rows \in Seq(Row)
      /\ s.prev \in Ids /\ s.prev # 0 /\ s.pass \in 1..3
  <2>1. s.pc = "deactivate" /\ s \in RunState /\ rows \in Seq(Row) /\ LocalsOK(s, Ids)
    BY DEF Deactivate, TypeOK
  <2>2. s.prev \in Ids /\ s.prev # 0
    BY <2>1 DEF LocalsOK
  <2>3. s.pass \in 1..3
    BY <2>1 DEF RunState
  <2>4. QED
    BY <2>1, <2>2, <2>3 DEF Active, Stopped
<1>2. /\ \A q \in Runs \ {r} : ~Active(q)
      /\ RunOK(s, rows) /\ OwnRows(r, s, rows) /\ WithinBound(rows)
      /\ \A q \in Runs : TotalsStand(q, run, rows)
  BY <1>1, Alone DEF SerialInv
<1>3. PICK p \in Ids : p = s.prev
  BY <1>1
<1>4. /\ rows[p].active /\ Place(rows[p], s.item, s.lt, s.month)
      /\ \A e \in s.todo : /\ s.lt # 3 => e.month = s.month
                           /\ s.pass = 3 <=> e.code = e.child
      /\ s.lt # 3 => s.item.month = s.month
      /\ s.pass = 3 <=> s.item.code = s.item.child
  BY <1>1, <1>2, <1>3 DEF RunOK, Touching
<1>5. rows' = [rows EXCEPT ![p].active = FALSE] /\ run' = [run EXCEPT ![r] = u]
  BY <1>3, <1>4 DEF Deactivate
<1>6. /\ u.pc \in {"sum", "insert"} /\ u.pc = BeforeInsert(s.item) /\ u.item = s.item
      /\ u.lt = s.lt /\ u.month = s.month /\ u.pass = s.pass /\ u.todo = s.todo /\ u.prev = p
  BY <1>1, <1>3, DeactivatedType, DeactivatedKeeps
<1>7. /\ Ids' = Ids /\ Len(rows') = Len(rows) /\ ~rows'[p].active
      /\ rows' \in Seq(Row)
      /\ \A i \in Ids : i # p => rows'[i] = rows[i]
      /\ \A i \in Ids :
           /\ rows'[i].child = rows[i].child /\ rows'[i].code = rows[i].code
           /\ rows'[i].lt = rows[i].lt /\ rows'[i].month = rows[i].month
           /\ rows'[i].by = rows[i].by /\ rows'[i].parent = rows[i].parent
           /\ rows'[i].kids = rows[i].kids
  BY <1>1, <1>5, DeactivateKeeps
<1>8. run'[r] = u /\ \A q \in Runs \ {r} : run'[q] = run[q]
  BY <1>5 DEF TypeOK
<1> HIDE DEF s, u
<1>9. \A i \in Ids : rows'[i].active => rows[i].active /\ i # p
  BY <1>7
<1>10. RunOK(u, rows')
  <2>1. u.lt # 3 => Room(rows', u.item, u.lt, u.month)
    <3>1. s.lt # 3 => Room(rows', s.item, s.lt, s.month)
      BY <1>1, <1>2, <1>4, <1>7, DeactivatedBound
    <3>2. QED
      BY <1>6, <3>1
  <2>2. u.pc = "insert" => u.pass # 3
    BY <1>4, <1>6, SumsParents
  <2>3. QED
    BY <1>4, <1>6, <2>1, <2>2 DEF RunOK, Touching
<1>11. OwnRows(r, u, rows')
  <2>1. Late(s) => Late(u)
    BY <1>1, <1>6 DEF Late
  <2>2. OwnRows(r, u, rows)
    BY <1>2, <2>1, OwnKept
  <2>3. rows'[Len(rows')].by = rows[Len(rows)].by
    BY <1>1, <1>3, <1>7 DEF Ids
  <2>4. QED
    BY <1>7, <2>2, <2>3 DEF OwnRows, Ids
<1>12. WithinBound(rows')
  BY <1>1, <1>2, <1>4, <1>7, DeactivatedBound
<1>13. \A q \in Runs : TotalsStand(q, run', rows')
  <2>1. ASSUME NEW q \in Runs, q # r PROVE TotalsStand(q, run', rows')
    <3>1. Interferes(run'[r])
      BY <1>1, <1>3, <1>6, <1>8 DEF Interferes
    <3>2. QED
      BY <2>1, <3>1 DEF TotalsStand
  <2>2. TotalsStand(r, run', rows')
    <3> SUFFICES ASSUME Latest(r, rows'), \A q \in Runs \ {r} : ~Interferes(run'[q]),
                        NEW i \in Ids, rows'[i].active, rows'[i].by = r,
                        rows'[i].parent, rows'[i].lt # 3
                 PROVE  rows'[i].kids = Kids(rows', rows'[i].code, rows'[i].lt, rows'[i].month)
      BY <1>7 DEF TotalsStand, Totals, Ids
    <3>1. s.pass = 3
      BY <1>1, <1>2, <1>7 DEF OwnRows, Late, Ids
    <3>2. rows[p].child = rows[p].code
      BY <1>4, <3>1 DEF Place
    <3>3. \A code, lt, month : Kids(rows', code, lt, month) = Kids(rows, code, lt, month)
      BY <1>7, <3>2 DEF Kids, Ids
    <3>4. \E k \in DOMAIN rows : rows[k].by = r
      BY <1>7 DEF Ids
    <3>5. Latest(r, rows)
      BY <1>2, <3>4 DEF OwnRows, Latest
    <3>6. Totals(r, rows)
      BY <1>2, <1>8, <3>5 DEF TotalsStand
    <3>7. rows[i].kids = Kids(rows, rows[i].code, rows[i].lt, rows[i].month)
      BY <1>7, <1>9, <3>6 DEF Totals, Ids
    <3>8. QED
      BY <1>7, <3>3, <3>7
  <2>3. QED
    BY <2>1, <2>2
<1>14. QED
  BY <1>2, <1>5, <1>6, <1>7, <1>10, <1>11, <1>12, <1>13, AloneStep

\* What summing the children leaves of the locals.
LEMMA SummedKeeps ==
  ASSUME NEW s \in RunState
  PROVE  LET u == Summed(s)
         IN  /\ u.todo = s.todo /\ u.month = s.month /\ u.pass = s.pass
             /\ u.kids = Kids(rows, s.item.code, s.lt, s.month)
<1>1. ChildIds(s.item.code, s.lt, s.month) = Kids(rows, s.item.code, s.lt, s.month)
  BY DEF ChildIds, Kids, ActiveIds, Ids
<1>2. QED
  BY <1>1 DEF Summed, RunState

\* ... adds up the children there are, ...
LEMMA SumAlone ==
  ASSUME TypeOK, SerialInv, ~overlap, NEW r \in Runs, SumChildren(r)
  PROVE  SerialInv'
<1> DEFINE s == run[r]
           u == Summed(s)
<1>1. /\ s.pc = "sum" /\ s \in RunState /\ Active(r) /\ rows \in Seq(Row)
      /\ rows' = rows /\ run' = [run EXCEPT ![r] = u]
  BY DEF SumChildren, TypeOK, Active, Stopped
<1>2. /\ \A q \in Runs \ {r} : ~Active(q)
      /\ RunOK(s, rows) /\ OwnRows(r, s, rows)
  BY <1>1, Alone
<1>3. /\ u.pc = "insert" /\ u.item = s.item /\ u.prev = s.prev
      /\ u.lt = s.lt /\ u.month = s.month /\ u.pass = s.pass /\ u.todo = s.todo
      /\ u.kids = Kids(rows, s.item.code, s.lt, s.month)
  BY <1>1, SummedType, SummedKeeps
<1>4. Interferes(s) => Interferes(u)
  BY <1>1, <1>3 DEF Interferes
<1> HIDE DEF u
<1>5. RunOK(u, rows)
  BY <1>1, <1>2, <1>3 DEF RunOK, Touching
<1>6. OwnRows(r, u, rows)
  BY <1>1, <1>2, <1>3, OwnKept DEF Late
<1>7. QED
  BY <1>1, <1>2, <1>3, <1>4, <1>5, <1>6, QuietAlone

\* A row inserted where there is room leaves every position within its bound.
LEMMA InsertedBound ==
  ASSUME TypeOK, NEW row \in Row, row.active, rows' = Append(rows, row), WithinBound(rows),
         row.lt # 3 => Room(rows, row, row.lt, row.month)
  PROVE  WithinBound(rows')
<1> DEFINE new == Len(rows) + 1
<1>1. /\ rows \in Seq(Row) /\ rows' \in Seq(Row)
      /\ Ids' = Ids \cup {new} /\ new \notin Ids
      /\ \A i \in Ids : rows'[i] = rows[i]
      /\ rows'[new] = row
  BY InsertRow DEF TypeOK
<1> HIDE DEF new
<1> SUFFICES ASSUME NEW i \in Ids', rows'[i].active, rows'[i].lt # 3
             PROVE  Cardinality(Holders(rows', rows'[i], rows'[i].lt, rows'[i].month))
                      <= ActiveBound(rows'[i])
  BY DEF WithinBound, Ids
<1>2. CASE Place(row, rows'[i], rows'[i].lt, rows'[i].month)
  <2> DEFINE H == Holders(rows, row, row.lt, row.month)
  <2>1. row.lt # 3 /\ ActiveBound(row) = ActiveBound(rows'[i])
    BY <1>2 DEF Place, ActiveBound
  <2>2. Holders(rows', rows'[i], rows'[i].lt, rows'[i].month) = H \cup {new}
    BY <1>1, <1>2 DEF Holders, Place, Ids
  <2>3. new \notin H
    BY <1>1 DEF Holders, Ids
  <2>4. IsFiniteSet(H) /\ Cardinality(H) \in Nat
    BY <1>1, HoldersFinite
  <2>5. Cardinality(H) < ActiveBound(row)
    BY <2>1 DEF Room
  <2>6. ActiveBound(row) \in Nat
    BY BoundType DEF Row
  <2> HIDE DEF H
  <2>7. Cardinality(H \cup {new}) = Cardinality(H) + 1
    BY <2>3, <2>4, FS_AddElement
  <2>8. Cardinality(H \cup {new}) <= ActiveBound(row)
    <3>1. \A n, b \in Nat : n < b => n + 1 <= b
      OBVIOUS
    <3>2. Cardinality(H) + 1 <= ActiveBound(row)
      BY <2>4, <2>5, <2>6, <3>1 DEF H
    <3>3. QED
      BY <2>7, <3>2
  <2>9. QED
    BY <2>1, <2>2, <2>8
<1>3. CASE ~Place(row, rows'[i], rows'[i].lt, rows'[i].month)
  <2>1. i \in Ids /\ rows'[i] = rows[i]
    BY <1>1, <1>3 DEF Place
  <2>2. Holders(rows', rows[i], rows[i].lt, rows[i].month)
          = Holders(rows, rows[i], rows[i].lt, rows[i].month)
    BY <1>1, <1>3, <2>1 DEF Holders, Ids
  <2>3. QED
    BY <2>1, <2>2 DEF WithinBound, Ids
<1>4. QED
  BY <1>2, <1>3

\* A row that a run alone inserts takes a position with room for it, and
\* totals the children there are if it is a parent.
LEMMA InsertedAlone ==
  ASSUME TypeOK, SerialInv, ~overlap, NEW r \in Runs, Active(r), NEW row \in Row, NEW u,
         rows' = Append(rows, row), run' = [run EXCEPT ![r] = u], u.pc # "idle",
         row.active, row.by = r,
         row.lt # 3 => Room(rows, row, row.lt, row.month),
         Late(run[r]) => row.child = row.code,
         ~Late(run[r]) => ~row.parent,
         Late(run[r]) /\ row.lt # 3 => row.kids = Kids(rows, row.code, row.lt, row.month),
         u.pc \notin Stopped => RunOK(u, rows') /\ (Late(run[r]) => Late(u))
  PROVE  SerialInv'
<1> DEFINE new == Len(rows) + 1
<1>1. /\ Ids' = Ids \cup {new} /\ new \notin Ids /\ Len(rows') = new
      /\ \A i \in Ids : rows'[i] = rows[i]
      /\ rows'[new] = row /\ rows' # << >>
  <2>1. rows \in Seq(Row)
    BY DEF TypeOK
  <2>2. Len(rows') = new /\ rows' # << >>
    BY <2>1
  <2>3. QED
    BY <2>2, InsertRow
<1> HIDE DEF new
<1>2. /\ \A q \in Runs \ {r} : ~Active(q)
      /\ OwnRows(r, run[r], rows) /\ WithinBound(rows)
      /\ \A q \in Runs : TotalsStand(q, run, rows)
  BY Alone DEF SerialInv
<1>3. \A q \in Runs \ {r} : run'[q] = run[q]
  BY DEF TypeOK
<1>4. u.pc \notin Stopped => RunOK(u, rows') /\ OwnRows(r, u, rows')
  BY <1>1, <1>2 DEF OwnRows, Ids
<1>5. WithinBound(rows')
  BY <1>2, InsertedBound
<1>6. \A q \in Runs : TotalsStand(q, run', rows')
  <2>1. ASSUME NEW q \in Runs, q # r PROVE TotalsStand(q, run', rows')
    BY <1>1, <2>1 DEF TotalsStand, Latest
  <2>2. TotalsStand(r, run', rows')
    <3> SUFFICES ASSUME \A q \in Runs \ {r} : ~Interferes(run'[q]),
                        NEW i \in Ids', rows'[i].active, rows'[i].by = r,
                        rows'[i].parent, rows'[i].lt # 3
                 PROVE  rows'[i].kids = Kids(rows', rows'[i].code, rows'[i].lt, rows'[i].month)
      BY DEF TotalsStand, Totals, Ids
    <3>1. Late(run[r])
      BY <1>1, <1>2 DEF OwnRows, Ids
    <3>2. \A code, lt, month : Kids(rows', code, lt, month) = Kids(rows, code, lt, month)
      BY <1>1, <3>1 DEF Kids, Ids
    <3>3. CASE i = new
      BY <1>1, <3>1, <3>2, <3>3
    <3>4. CASE i \in Ids
      <4>1. rows[i].by = r /\ rows[i].active /\ rows[i].parent /\ rows[i].lt # 3
        BY <1>1, <3>4
      <4>2. rows # << >>
        BY <3>4 DEF Ids
      <4>3. Latest(r, rows)
        BY <1>2, <3>4, <4>1, <4>2 DEF OwnRows, Latest, Ids
      <4>4. Totals(r, rows)
        BY <1>2, <1>3, <4>3 DEF TotalsStand
      <4>5. rows[i].kids = Kids(rows, rows[i].code, rows[i].lt, rows[i].month)
        BY <3>4, <4>1, <4>4 DEF Totals, Ids
      <4>6. Kids(rows', rows[i].code, rows[i].lt, rows[i].month)
              = Kids(rows, rows[i].code, rows[i].lt, rows[i].month)
        BY <3>2
      <4>7. rows'[i] = rows[i]
        BY <1>1, <3>4
      <4>8. QED
        BY <4>5, <4>6, <4>7
    <3>5. QED
      BY <1>1, <3>3, <3>4
  <2>3. QED
    BY <2>1, <2>2
<1>7. /\ Ids \subseteq Ids' /\ \A i \in Ids : rows'[i].by = rows[i].by
      /\ \A i \in Ids' \ Ids : rows'[i].by = r
  BY <1>1
<1>8. QED
  BY <1>2, <1>4, <1>5, <1>6, <1>7, AloneStep

\* ... inserts another row of the position, ...
LEMMA InsertAlone ==
  ASSUME TypeOK, SerialInv, ~overlap, NEW r \in Runs, Insert(r)
  PROVE  SerialInv'
<1> DEFINE s == run[r]
           u == ItemDone(s)
           row == NewRow(r)
<1>1. /\ s.pc = "insert" /\ s \in RunState /\ Active(r) /\ s.pass \in 1..3
      /\ s.lt \in 1..4 /\ s.item \in Item /\ now \in Nat
      /\ rows' = Append(rows, row) /\ run' = [run EXCEPT ![r] = u]
  <2>1. s.pc = "insert" /\ s \in RunState /\ LocalsOK(s, Ids) /\ now \in Nat
    BY DEF Insert, TypeOK
  <2>2. s.lt \in 1..4 /\ s.item \in Item
    BY <2>1 DEF LocalsOK, Stopped
  <2>3. s.pass \in 1..3
    BY <2>1 DEF RunState
  <2>4. QED
    BY <2>1, <2>2, <2>3 DEF Insert, Active, Stopped
<1>2. RunOK(s, rows)
  BY <1>1, Alone
<1>3. /\ row \in Row /\ row.active /\ row.by = r
      /\ row.child = s.item.child /\ row.code = s.item.code /\ row.lt = s.lt
      /\ row.month = s.item.month /\ row.kids = s.kids
      /\ row.parent = (Passes[s.pass] = "parent")
  <2>1. row \in Row /\ row.active /\ row.by = r
    BY <1>1, NewRowType
  <2>2. QED
    BY <2>1 DEF NewRow
<1>4. /\ s.lt # 3 => s.item.month = s.month
      /\ s.pass = 3 <=> s.item.code = s.item.child
      /\ s.lt # 3 => Room(rows, s.item, s.lt, s.month)
      /\ s.pass = 3 => s.kids = Kids(rows, s.item.code, s.lt, s.month)
  BY <1>1, <1>2 DEF RunOK, Touching, Ids
<1>5. Passes[s.pass] = "parent" <=> s.pass = 3
  BY <1>1 DEF Passes
<1>6. Late(s) <=> s.pass = 3
  BY <1>1 DEF Late
<1>7. /\ u.todo = s.todo /\ u.lt = s.lt /\ u.month = s.month
      /\ u.pc \in {"read", "query", "findOrphans"}
      /\ u.pass = s.pass \/ (s.todo = {} /\ s.pass < 3)
  BY <1>1, ItemDoneKeeps
<1> HIDE DEF u, row, s
<1>8. RunOK(u, rows')
  BY <1>2, <1>7, GoesOn
<1>9. Late(s) => Late(u)
  BY <1>6, <1>7 DEF Late
<1>10. row.lt # 3 => Room(rows, row, row.lt, row.month)
  BY <1>3, <1>4 DEF Room, Holders, Place, ActiveBound
<1>11. /\ Late(s) => row.child = row.code
       /\ ~Late(s) => ~row.parent
       /\ Late(s) /\ row.lt # 3 => row.kids = Kids(rows, row.code, row.lt, row.month)
  BY <1>3, <1>4, <1>5, <1>6
<1>12. QED
  BY <1>1, <1>3, <1>7, <1>8, <1>9, <1>10, <1>11, InsertedAlone DEF s

\* What taking an orphan off the list leaves of the locals.
LEMMA OrphansKeeps ==
  ASSUME NEW s \in RunState, NEW left
  PROVE  LET u == Orphans(s, left)
         IN  \/ u.pc = "done"
             \/ /\ u.pc = "orphans" /\ u.orphans = left /\ u.lt = s.lt
                /\ u.pass = s.pass /\ u.todo = s.todo /\ u.month = s.month
<1>1. CASE left = {}
  BY <1>1, IdleType DEF Orphans
<1>2. CASE left # {}
  BY <1>2 DEF Orphans, RunState
<1>3. QED
  BY <1>1, <1>2

\* Before any is made, the parents an orphan lacks are as many as its code has
\* locations, and there are none yet.
LEMMA FindsFit ==
  ASSUME rows \in Seq(Row), NEW lt, NEW e \in MissingParents(lt)
  PROVE  /\ Orphan(rows, e[1], lt)
         /\ Fits(rows, MissingParents(lt), e[1], lt)
<1> DEFINE i == e[1]
           L == Locations[rows[i].code]
           P == Pending(MissingParents(lt), i)
           H == Holders(rows, ParentOf(rows[i]), lt, rows[i].month)
<1>1. /\ i \in Ids /\ rows[i].active /\ rows[i].lt = lt /\ rows[i].child # rows[i].code
      /\ \A j \in Ids :
           rows[j].active /\ rows[j].lt = lt /\ rows[j].code = rows[i].code => j = i
  BY MissingType DEF OrphanIds, ActiveIds
<1>2. Orphan(rows, i, lt)
  BY <1>1 DEF Orphan, Ids
<1>3. H = {}
  BY <1>1 DEF Holders, Place, ParentOf, Ids
<1>4. IsFiniteSet(L)
  <2>1. rows[i] \in Row
    BY <1>1 DEF Ids
  <2>2. rows[i].code \in Codes
    BY <2>1 DEF Row
  <2>3. QED
    BY <2>2, MappingAssumption
<1>5. \A f \in P : f = <<i, f[2]>> /\ f[2] \in L
  BY MissingType DEF Pending
<1> DEFINE place == [f \in P |-> f[2]]
<1>6. place \in Injection(P, L)
  <2> HIDE DEF P, L
  <2>1. place \in [P -> L]
    BY <1>5
  <2>2. \A f, g \in P : place[f] = place[g] => f = g
    <3> SUFFICES ASSUME NEW f \in P, NEW g \in P, f[2] = g[2] PROVE f = g
      OBVIOUS
    <3>1. f = <<i, f[2]>> /\ g = <<i, g[2]>>
      BY <1>5
    <3>2. QED
      BY <3>1
  <2>3. QED
    BY <2>1, <2>2 DEF Injection, IsInjective
<1> HIDE DEF place, P, L, H
<1>7. Cardinality(P) <= Cardinality(L) /\ IsFiniteSet(P)
  BY <1>4, <1>6, FS_Injection
<1>8. Cardinality(H) = 0
  BY <1>3, FS_EmptySet
<1>9. Cardinality(P) \in Nat /\ Cardinality(L) \in Nat
  BY <1>4, <1>7, FS_CardinalityType
<1>10. Cardinality(H) + Cardinality(P) <= Cardinality(L)
  BY <1>7, <1>8, <1>9
<1>11. QED
  BY <1>2, <1>7, <1>10 DEF Fits, H, P, L

\* ... finds the children without a parent, ...
LEMMA FindAlone ==
  ASSUME TypeOK, SerialInv, ~overlap, NEW r \in Runs, FindOrphans(r)
  PROVE  SerialInv'
<1> DEFINE s == run[r]
           left == MissingParents(s.lt)
           u == Orphans(s, left)
<1>1. /\ s.pc = "findOrphans" /\ s \in RunState /\ Active(r)
      /\ rows' = rows /\ run' = [run EXCEPT ![r] = u]
  BY DEF FindOrphans, TypeOK, Active, Stopped
<1>2. /\ \A q \in Runs \ {r} : ~Active(q)
      /\ RunOK(s, rows) /\ OwnRows(r, s, rows)
  BY <1>1, Alone
<1>3. \A e \in left : Orphan(rows, e[1], s.lt) /\ Fits(rows, left, e[1], s.lt)
  BY FindsFit DEF TypeOK
<1>4. \/ u.pc = "done"
      \/ /\ u.pc = "orphans" /\ u.orphans = left /\ u.lt = s.lt
         /\ u.pass = s.pass /\ u.todo = s.todo /\ u.month = s.month
  BY <1>1, OrphansKeeps
<1>5. ~Interferes(s)
  BY <1>1 DEF Interferes
<1> HIDE DEF u, left
<1>6. u.pc \notin Stopped => RunOK(u, rows) /\ OwnRows(r, u, rows)
  <2>1. u.pc = "orphans" => RunOK(u, rows)
    BY <1>2, <1>3, <1>4 DEF RunOK, Touching
  <2>2. u.pc = "orphans" => OwnRows(r, u, rows)
    BY <1>2, OwnKept DEF Late
  <2>3. QED
    BY <1>4, <2>1, <2>2 DEF Stopped
<1>7. u.pc # "idle"
  BY <1>4
<1>8. QED
  BY <1>1, <1>2, <1>5, <1>6, <1>7, QuietAlone

\* A parent still to be made has room.
LEMMA FitsRoom ==
  ASSUME rows \in Seq(Row), NEW todo, NEW e \in todo, NEW lt,
         Fits(rows, todo, e[1], lt), e[1] \in Ids
  PROVE  Room(rows, ParentOf(rows[e[1]]), lt, rows[e[1]].month)
<1> DEFINE i == e[1]
           P == Pending(todo, i)
           H == Holders(rows, ParentOf(rows[i]), lt, rows[i].month)
           L == Locations[rows[i].code]
<1>1. Cardinality(H) + Cardinality(P) <= Cardinality(L)
  BY DEF Fits
<1>2. Cardinality(H) \in Nat
  BY HoldersFinite
<1>3. Cardinality(P) \in Nat \ {0}
  <2>1. e \in P
    BY DEF Pending
  <2>2. IsFiniteSet(P)
    BY DEF Fits
  <2> HIDE DEF P
  <2>3. QED
    BY <2>1, <2>2, FS_CardinalityType, FS_EmptySet
<1>4. Cardinality(L) \in Nat
  <2>1. rows[i] \in Row
    BY DEF Ids
  <2>2. rows[i].code \in Codes
    BY <2>1 DEF Row
  <2>3. QED
    BY <2>2, MappingAssumption, FS_CardinalityType
<1>5. ActiveBound(ParentOf(rows[i])) = Cardinality(L)
  BY DEF ActiveBound, ParentOf
<1> HIDE DEF H, P, L
<1>6. Cardinality(H) < Cardinality(L)
  BY <1>1, <1>2, <1>3, <1>4
<1>7. QED
  BY <1>5, <1>6 DEF Room, H

\* Making one parent leaves as much less to be made.
LEMMA StillFits ==
  ASSUME TypeOK, NEW todo, NEW e \in todo, NEW f \in todo \ {e}, NEW lt,
         NEW row \in Row, rows' = Append(rows, row), row.active, row.lt = lt,
         row.child = rows[e[1]].code, row.code = rows[e[1]].code, row.month = rows[e[1]].month,
         Orphan(rows, e[1], lt), Orphan(rows, f[1], lt), Fits(rows, todo, f[1], lt)
  PROVE  Orphan(rows', f[1], lt) /\ Fits(rows', todo \ {e}, f[1], lt)
<1> DEFINE new == Len(rows) + 1
           i == f[1]
           P == Pending(todo, i)
           H == Holders(rows, ParentOf(rows[i]), lt, rows[i].month)
<1>1. /\ rows \in Seq(Row) /\ Ids' = Ids \cup {new} /\ new \notin Ids
      /\ \A j \in Ids : rows'[j] = rows[j]
      /\ rows'[new] = row
  BY InsertRow DEF TypeOK
<1>2. i \in Ids /\ e[1] \in Ids /\ rows'[i] = rows[i]
  BY <1>1 DEF Orphan, Ids
<1> HIDE DEF new
<1>3. Orphan(rows', i, lt)
  BY <1>1, <1>2 DEF Orphan, Ids
<1>4. IsFiniteSet(H) /\ Cardinality(H) \in Nat /\ new \notin H
  <2>1. IsFiniteSet(H) /\ Cardinality(H) \in Nat
    BY <1>1, HoldersFinite
  <2>2. new \notin H
    BY <1>1 DEF Holders, Ids
  <2>3. QED
    BY <2>1, <2>2
<1>5. IsFiniteSet(P) /\ Cardinality(P) \in Nat
  BY FS_CardinalityType DEF Fits
<1>6. Cardinality(H) + Cardinality(P) <= Cardinality(Locations[rows[i].code])
  BY DEF Fits
<1>7. CASE e[1] = i
  <2>1. Holders(rows', ParentOf(rows[i]), lt, rows[i].month) = H \cup {new}
    BY <1>1, <1>2, <1>7 DEF Holders, Place, ParentOf, Ids
  <2>2. Pending(todo \ {e}, i) = P \ {e} /\ e \in P
    BY <1>7 DEF Pending
  <2> HIDE DEF H, P
  <2>3. Cardinality(H \cup {new}) = Cardinality(H) + 1
    BY <1>4, FS_AddElement
  <2>4. IsFiniteSet(P \ {e}) /\ Cardinality(P \ {e}) = Cardinality(P) - 1
    BY <1>5, <2>2, FS_RemoveElement
  <2>5. (Cardinality(H) + 1) + (Cardinality(P) - 1) = Cardinality(H) + Cardinality(P)
    BY <1>4, <1>5
  <2>6. Cardinality(H \cup {new}) + Cardinality(P \ {e}) <= Cardinality(Locations[rows[i].code])
    BY <1>6, <2>3, <2>4, <2>5
  <2>7. QED
    BY <1>2, <1>3, <2>1, <2>2, <2>4, <2>6 DEF Fits
<1>8. CASE e[1] # i
  <2>1. rows[e[1]].code # rows[i].code
    BY <1>8 DEF Orphan
  <2>2. Holders(rows', ParentOf(rows[i]), lt, rows[i].month) = H
    BY <1>1, <2>1 DEF Holders, Place, ParentOf, Ids
  <2>3. Pending(todo \ {e}, i) = P
    BY <1>8 DEF Pending
  <2> HIDE DEF H, P
  <2>4. QED
    BY <1>2, <1>3, <1>5, <1>6, <2>2, <2>3 DEF Fits
<1>9. QED
  BY <1>7, <1>8

\* ... gives each of them one for every location, ...
LEMMA InsertOrphanAlone ==
  ASSUME TypeOK, SerialInv, ~overlap, NEW r \in Runs, InsertOrphan(r)
  PROVE  SerialInv'
<1> DEFINE s == run[r]
<1>1. PICK e \in s.orphans :
        /\ rows' = Append(rows, OrphanRow(r, e[1]))
        /\ run' = [run EXCEPT ![r] = Orphans(s, s.orphans \ {e})]
  BY DEF InsertOrphan
<1> DEFINE i == e[1]
           row == OrphanRow(r, i)
           u == Orphans(s, s.orphans \ {e})
<1>2. /\ s.pc = "orphans" /\ s \in RunState /\ Active(r) /\ rows \in Seq(Row) /\ now \in Nat
  BY DEF InsertOrphan, TypeOK, Active, Stopped
<1>3. RunOK(s, rows)
  BY <1>2, Alone
<1>4. \A f \in s.orphans : Orphan(rows, f[1], s.lt) /\ Fits(rows, s.orphans, f[1], s.lt)
  BY <1>2, <1>3 DEF RunOK
<1>5. /\ i \in Ids /\ rows[i].active /\ rows[i].lt = s.lt /\ rows[i].child # rows[i].code
      /\ \A j \in Ids :
           /\ rows[j].active /\ rows[j].lt = s.lt /\ rows[j].code = rows[i].code
           /\ rows[j].child # rows[j].code
           => j = i
  BY <1>4 DEF Orphan, Ids
<1>6. /\ row \in Row /\ row.active /\ row.by = r
      /\ row.child = rows[i].code /\ row.code = rows[i].code /\ row.lt = s.lt
      /\ row.month = rows[i].month /\ row.kids = {i}
  <2>1. row \in Row /\ row.active /\ row.by = r
    BY <1>2, <1>5, OrphanRowType
  <2>2. QED
    BY <1>5, <2>1 DEF OrphanRow
<1>7. \/ u.pc = "done"
      \/ /\ u.pc = "orphans" /\ u.orphans = s.orphans \ {e} /\ u.lt = s.lt
         /\ u.pass = s.pass /\ u.todo = s.todo /\ u.month = s.month
  BY <1>2, OrphansKeeps
<1>8. rows' = Append(rows, row) /\ run' = [run EXCEPT ![r] = u]
  BY <1>1
<1> HIDE DEF u, row, s
<1>9. Kids(rows, row.code, row.lt, row.month) = {i}
  BY <1>5, <1>6 DEF Kids, Ids
<1>10. Room(rows, row, row.lt, row.month)
  <2>1. Room(rows, ParentOf(rows[i]), s.lt, rows[i].month)
    BY <1>2, <1>4, <1>5, FitsRoom
  <2>2. /\ Holders(rows, ParentOf(rows[i]), s.lt, rows[i].month)
             = Holders(rows, row, row.lt, row.month)
        /\ ActiveBound(ParentOf(rows[i])) = ActiveBound(row)
    BY <1>6 DEF Holders, Place, ParentOf, ActiveBound
  <2>3. QED
    BY <2>1, <2>2 DEF Room
<1>11. \A f \in s.orphans \ {e} :
         Orphan(rows', f[1], s.lt) /\ Fits(rows', s.orphans \ {e}, f[1], s.lt)
  BY <1>4, <1>6, <1>8, StillFits
<1>12. Late(s)
  BY <1>2 DEF Late
<1>13. u.pc \notin Stopped => RunOK(u, rows') /\ Late(u)
  <2>1. u.pc = "orphans" => RunOK(u, rows') /\ Late(u)
    BY <1>3, <1>7, <1>11 DEF RunOK, Touching, Late
  <2>2. QED
    BY <1>7, <2>1 DEF Stopped
<1>14. u.pc # "idle"
  BY <1>7
<1>15. QED
  BY <1>2, <1>6, <1>8, <1>9, <1>10, <1>12, <1>13, <1>14, InsertedAlone DEF s

\* ... or stops anywhere.
LEMMA AbortAlone ==
  ASSUME TypeOK, SerialInv, ~overlap, NEW r \in Runs, Abort(r)
  PROVE  SerialInv'
<1>1. /\ run' = [run EXCEPT ![r] = Aborted] /\ rows' = rows /\ Active(r)
      /\ Aborted.pc = "aborted"
  BY DEF Abort, Aborted, Idle
<1>2. \A q \in Runs \ {r} : ~Active(q)
  BY <1>1, Alone
<1>3. Interferes(Aborted)
  BY <1>1 DEF Interferes
<1> HIDE DEF Aborted
<1>4. QED
  BY <1>1, <1>2, <1>3, QuietAlone DEF Stopped

\* Rows are created by the clock, which only goes forward.
LEMMA CreatedStep ==
  ASSUME TypeOK, CreatedPast, [Next]_vars PROVE CreatedPast'
<1>1. /\ now \in Nat /\ rows \in Seq(Row)
      /\ \A i \in Ids : rows[i].created \in Nat /\ rows[i].created <= now
  <2>1. now \in Nat /\ rows \in Seq(Row) /\ \A i \in Ids : rows[i] \in Row
    BY DEF TypeOK, Ids
  <2>2. QED
    BY <2>1 DEF CreatedPast, Row
<1>2. ASSUME UNCHANGED <<rows, now>> PROVE CreatedPast'
  BY <1>2 DEF CreatedPast, Ids
<1>3. ASSUME NEW row, rows' = Append(rows, row), row.created = now, now' = now
      PROVE  CreatedPast'
  BY <1>1, <1>3 DEF CreatedPast, Ids
<1>4. ASSUME NEW r \in Runs, Step(r) PROVE CreatedPast'
  <2>1. CASE Deactivate(r)
    <3>1. CASE rows' = [rows EXCEPT ![run[r].prev].active = FALSE]
      <4>1. Ids' = Ids /\ \A i \in Ids : rows'[i].created = rows[i].created
        <5>1. \A i \in Ids : rows[i] \in Row
          BY <1>1 DEF Ids
        <5>2. QED
          BY <3>1, <5>1 DEF Ids, Row
      <4>2. QED
        BY <1>1, <2>1, <4>1 DEF CreatedPast, Deactivate
    <3>2. QED
      BY <1>2, <2>1, <3>1 DEF Deactivate
  <2>2. CASE Insert(r)
    <3>1. NewRow(r).created = now
      BY DEF NewRow
    <3>2. QED
      BY <1>3, <2>2, <3>1 DEF Insert
  <2>3. CASE InsertOrphan(r)
    <3>1. \A i : OrphanRow(r, i).created = now
      BY DEF OrphanRow
    <3>2. QED
      BY <1>3, <2>3, <3>1 DEF InsertOrphan
  <2>4. CASE \/ \E lt \in LimitTypes : Start(r, lt)
             \/ Query(r) \/ ReadPrevious(r) \/ SumChildren(r) \/ FindOrphans(r) \/ Abort(r)
    BY <1>2, <2>4 DEF Start, Query, ReadPrevious, SumChildren, FindOrphans, Abort
  <2>5. QED
    BY <1>4, <2>1, <2>2, <2>3, <2>4 DEF Step
<1>5. CASE ImportDelete \/ ImportAggregate \/ UNCHANGED vars
  BY <1>2, <1>5 DEF ImportDelete, ImportAggregate, vars
<1>6. CASE Tick
  <2>1. rows' = rows /\ now' = now + 1
    BY <1>6 DEF Tick
  <2>2. QED
    BY <1>1, <2>1 DEF CreatedPast, Ids
<1>7. QED
  BY <1>4, <1>5, <1>6 DEF Next

\* Every step keeps SerialInv.
LEMMA SerialStep ==
  ASSUME TypeOK, CreatedPast, SerialInv, [Next]_vars PROVE SerialInv'
<1> SUFFICES ASSUME ~overlap' PROVE SerialInv'
  BY DEF SerialInv
<1>1. ~overlap
  BY DEF Next, Step, Start, Query, ReadPrevious, Deactivate, SumChildren, Insert,
         FindOrphans, InsertOrphan, Abort, ImportDelete, ImportAggregate, Tick, vars
<1>2. ASSUME UNCHANGED <<rows, run>> PROVE SerialInv'
  BY <1>1, <1>2 DEF SerialInv, Active, Ids
<1>3. CASE ImportDelete \/ ImportAggregate \/ Tick \/ UNCHANGED vars
  BY <1>2, <1>3 DEF ImportDelete, ImportAggregate, Tick, vars
<1>4. ASSUME NEW r \in Runs, Step(r) PROVE SerialInv'
  BY <1>1, <1>4, StartAlone, QueryAlone, ReadAlone, DeactivateAlone, SumAlone, InsertAlone,
     FindAlone, InsertOrphanAlone, AbortAlone DEF Step
<1>5. QED
  BY <1>3, <1>4 DEF Next

\* A run that overlaps no other finds its positions within their bounds, leaves
\* them so, and its totals stand until another run takes rows out of use.
THEOREM SerialInvariant == Spec => []SerialInv
<1>1. Init => SerialInv /\ CreatedPast
  <2> SUFFICES ASSUME Init PROVE SerialInv /\ CreatedPast
    OBVIOUS
  <2>1. /\ \A r \in Runs : run[r].pc = "idle" /\ ~Active(r)
        /\ rows \in Seeds /\ rows \in Seq(Row) /\ now \in Nat
    BY SeedAssumption, ClockAssumption DEF Init, Idle, Active, Stopped
  <2>2. \A i \in DOMAIN rows : rows[i].by \notin Runs /\ rows[i].created = 0
    BY <2>1, SeedAssumption, MappingAssumption
  <2>3. WithinBound(rows)
    <3> SUFFICES ASSUME NEW i \in DOMAIN rows, rows[i].active
                 PROVE  Cardinality(Holders(rows, rows[i], rows[i].lt, rows[i].month))
                          <= ActiveBound(rows[i])
      BY DEF WithinBound
    <3>1. Holders(rows, rows[i], rows[i].lt, rows[i].month) = {i}
      BY <2>1, SeedAssumption DEF Holders, Place
    <3>2. Cardinality({i}) = 1
      BY FS_Singleton
    <3>3. rows[i] \in Row
      BY <2>1
    <3>4. ActiveBound(rows[i]) \in Nat \ {0}
      BY <3>3, BoundType DEF Row
    <3>5. QED
      BY <3>1, <3>2, <3>4
  <2>4. \A r \in Runs : TotalsStand(r, run, rows)
    <3> SUFFICES ASSUME NEW r \in Runs, NEW i \in DOMAIN rows, rows[i].by = r PROVE FALSE
      BY DEF TotalsStand, Totals
    <3>1. QED
      BY <2>2
  <2>5. CreatedPast
    BY <2>1, <2>2 DEF CreatedPast, Ids
  <2>6. QED
    BY <2>1, <2>2, <2>3, <2>4, <2>5 DEF SerialInv, Ids
<1>2. TypeOK /\ SerialInv /\ CreatedPast /\ [Next]_vars => SerialInv' /\ CreatedPast'
  BY SerialStep, CreatedStep
<1>3. QED
  BY <1>1, <1>2, TypeCorrect, PTL DEF Spec

\* SerialActiveBound: as long as runs do not overlap, a child's position has at
\* most one active row and a parent's at most one per market location of its
\* code, however many runs were stopped half-way.
THEOREM RowsPerPosition == Spec => []SerialActiveBound
<1>1. SerialInv => SerialActiveBound
  <2> SUFFICES ASSUME SerialInv, ~overlap, NEW i \in ActiveIds, rows[i].lt # 3
               PROVE  Cardinality({j \in ActiveIds : SamePosition(j, i)}) <= ActiveBound(rows[i])
    BY DEF SerialActiveBound
  <2>1. {j \in ActiveIds : SamePosition(j, i)}
          = Holders(rows, rows[i], rows[i].lt, rows[i].month)
    BY DEF ActiveIds, SamePosition, Holders, Place, Ids
  <2>2. QED
    BY <2>1 DEF SerialInv, WithinBound, ActiveIds, Ids
<1>2. QED
  BY <1>1, SerialInvariant, PTL

\* SerialParentTotal: without overlap, the parents the latest run wrote total
\* exactly the child rows that are active.
THEOREM ParentsTotal == Spec => []SerialParentTotal
<1>1. SerialInv => SerialParentTotal
  <2> SUFFICES ASSUME SerialInv, NEW r \in Runs, ~overlap,
                      \A s \in Runs \ {r} : run[s].pc \in {"idle", "done"},
                      rows # << >>, rows[Len(rows)].by = r,
                      NEW i \in ActiveIds, rows[i].by = r, rows[i].parent, rows[i].lt # 3
               PROVE  rows[i].kids = ChildIds(rows[i].code, rows[i].lt, rows[i].month)
    BY DEF SerialParentTotal
  <2>1. \A s \in Runs \ {r} : ~Interferes(run[s])
    BY DEF Interferes
  <2>2. Totals(r, rows)
    BY <2>1 DEF SerialInv, TotalsStand, Latest
  <2>3. rows[i].kids = Kids(rows, rows[i].code, rows[i].lt, rows[i].month)
    BY <2>2 DEF Totals, ActiveIds, Ids
  <2>4. Kids(rows, rows[i].code, rows[i].lt, rows[i].month)
          = ChildIds(rows[i].code, rows[i].lt, rows[i].month)
    BY DEF Kids, ChildIds, ActiveIds, Ids
  <2>5. QED
    BY <2>3, <2>4
<1>2. QED
  BY <1>1, SerialInvariant, PTL
=============================================================================
