-------------------------- MODULE Monitoring_proofs --------------------------
(***************************************************************************)
(* What the monitoring cycles and the notifications keep to, for any       *)
(* number of positions, rules and events.                                  *)
(***************************************************************************)
EXTENDS Monitoring, MarketImport_proofs, FiniteSetTheorems

\* The rules whose violations are reported.
Violable == {r \in Rules : r.type \in {"position_limit", "accountability_level"}}

\* What a handler may list.
Listed == Positions \X Violable \X Joined

Cycle ==
  [pc : {"off", "calculate", "select", "look", "record", "import", "importing"},
   nightly : BOOLEAN, todo : SUBSET Listed]

CycleTypes ==
  /\ cycle \in [Nightly -> Cycle]
  /\ events \in Seq(Event)
  /\ lots \in Books
  /\ clock \in 0..(Day - 1) /\ due \subseteq Nightly
  /\ misses \in Nat
  /\ \A c \in Nightly : cycle[c].pc = "record" => cycle[c].todo # {}

\* Requests are served start to end here, so that only triggers import, and keep
\* no upload.
ImportTypes ==
  /\ Types /\ limits \subseteq Copy /\ published = 1
  /\ uploads \in Seq(UploadStatus) /\ wiped \in BOOLEAN /\ importFailures = 0
  /\ \A i \in Importers :
       /\ importer[i].pc \in {"idle", "look", "delete", "insert"}
       /\ importer[i].upload = 0
       /\ i \in Requests => ~Importing(i)
  /\ \A c \in Nightly : cycle[c].pc = "importing" <=> Importing(c)

\* The step is one of c's handler: no other handler moves.
Turns(c) ==
  /\ cycle' \in [Nightly -> Cycle]
  /\ \A d \in Nightly : d # c => cycle'[d] = cycle[d]

\* A handler whose variables change is the only one to move.
LEMMA Turned ==
  ASSUME CycleTypes, NEW c \in Nightly, NEW new \in Cycle,
         cycle' = [cycle EXCEPT ![c] = new]
  PROVE  Turns(c) /\ cycle'[c] = new
BY DEF CycleTypes, Turns

\* The handler that has ended or not yet begun.
LEMMA OffOK ==
  /\ Off \in Cycle /\ Off.pc = "off" /\ Off.todo = {}
  /\ \A n \in BOOLEAN :
       LET new == [Off EXCEPT !.pc = "calculate", !.nightly = n]
       IN  new \in Cycle /\ new.pc = "calculate" /\ new.todo = {}
BY DEF Off, Cycle

\* A handler that goes on.
LEMMA PcTurns ==
  ASSUME CycleTypes, NEW c \in Nightly,
         NEW pc \in {"select", "look", "record", "import", "importing"},
         cycle' = [cycle EXCEPT ![c] = [cycle[c] EXCEPT !.pc = pc]]
  PROVE  Turns(c) /\ cycle'[c].pc = pc /\ cycle'[c].todo = cycle[c].todo
<1> DEFINE l == cycle[c]
           new == [l EXCEPT !.pc = pc]
<1>1. l \in Cycle
  BY DEF CycleTypes
<1>2. cycle' = [cycle EXCEPT ![c] = new]
  OBVIOUS
<1> HIDE DEF l
<1>3. new \in Cycle /\ new.pc = pc /\ new.todo = l.todo
  BY <1>1 DEF Cycle
<1> HIDE DEF new
<1>4. Turns(c) /\ cycle'[c] = new
  BY <1>2, <1>3, Turned
<1>5. QED
  BY <1>3, <1>4 DEF l

\* A handler that takes violations off its list, or puts them on it.
LEMMA ListTurns ==
  ASSUME CycleTypes, NEW c \in Nightly, NEW pc \in {"look", "record"},
         NEW todo \in SUBSET Listed,
         cycle' = [cycle EXCEPT ![c].pc = pc, ![c].todo = todo]
  PROVE  Turns(c) /\ cycle'[c].pc = pc /\ cycle'[c].todo = todo
<1> DEFINE l == cycle[c]
           new == [l EXCEPT !.pc = pc, !.todo = todo]
<1>1. l \in Cycle
  BY DEF CycleTypes
<1>2. cycle' = [cycle EXCEPT ![c] = new]
  OBVIOUS
<1> HIDE DEF l
<1>3. new \in Cycle /\ new.pc = pc /\ new.todo = todo
  BY <1>1 DEF Cycle
<1> HIDE DEF new
<1>4. Turns(c) /\ cycle'[c] = new
  BY <1>2, <1>3, Turned
<1>5. QED
  BY <1>3, <1>4
-----------------------------------------------------------------------------
(* The next violation.                                                     *)

\* Among natural numbers one is least.
LEMMA LeastLimit ==
  ASSUME NEW B, B \subseteq Nat, B # {}
  PROVE  \E n \in B : \A m \in B : n <= m
<1>1. \E n \in B : \A m \in B : ~(<<m, n>> \in OpToRel(<, Nat))
  BY NatLessThanWellFounded, WFMin
<1>2. PICK n \in B : \A m \in B : ~(<<m, n>> \in OpToRel(<, Nat))
  BY <1>1
<1>3. ASSUME NEW m \in B PROVE n <= m
  <2>1. m \in Nat /\ n \in Nat /\ ~(m < n)
    BY <1>2 DEF OpToRel
  <2>2. QED
    BY <2>1
<1>4. QED
  BY <1>3

\* Of the violations of a row, one is of a smallest limit of a type.
LEMMA SmallestOfType ==
  ASSUME NEW S \in SUBSET Listed, NEW u \in S
  PROVE  \E v \in S : /\ SameRow(u, v) /\ v[2].type = u[2].type
                      /\ \A w \in S : SameRow(v, w) /\ w[2].type = v[2].type =>
                           v[2].limit <= w[2].limit
<1> DEFINE T == {w \in S : SameRow(u, w) /\ w[2].type = u[2].type}
           B == {w[2].limit : w \in T}
<1>1. \A w \in S : w[2] \in Rules /\ w[2].limit \in Nat
  BY MonitoringAssumption DEF Listed, Violable
<1>2. B \subseteq Nat /\ u[2].limit \in B
  BY <1>1 DEF SameRow
<1> HIDE DEF B
<1>3. PICK n \in B : \A m \in B : n <= m
  BY <1>2, LeastLimit
<1> USE DEF B
<1>4. PICK v \in T : v[2].limit = n
  OBVIOUS
<1>5. \A w \in T : v[2].limit <= w[2].limit
  BY <1>3, <1>4
<1>6. QED
  BY <1>4, <1>5 DEF SameRow

\* The order of the rules has a first one among any violations of a row.
LEMMA NextExists ==
  ASSUME NEW S \in SUBSET Listed, S # {}
  PROVE  \E v \in S : \A w \in S : SameRow(v, w) => Before(v[2], w[2])
<1>1. PICK u \in S : TRUE
  OBVIOUS
<1>2. \A w \in S : w[2].type \in {"position_limit", "accountability_level"}
  BY DEF Listed, Violable
<1>3. CASE \E w \in S : SameRow(u, w) /\ w[2].type = "position_limit"
  <2>1. PICK w \in S : SameRow(u, w) /\ w[2].type = "position_limit"
    BY <1>3
  <2>2. PICK v \in S : /\ SameRow(w, v) /\ v[2].type = w[2].type
                       /\ \A x \in S : SameRow(v, x) /\ x[2].type = v[2].type =>
                            v[2].limit <= x[2].limit
    BY SmallestOfType
  <2>3. QED
    BY <2>1, <2>2 DEF Before
<1>4. CASE ~ \E w \in S : SameRow(u, w) /\ w[2].type = "position_limit"
  <2>1. PICK v \in S : /\ SameRow(u, v) /\ v[2].type = u[2].type
                       /\ \A x \in S : SameRow(v, x) /\ x[2].type = v[2].type =>
                            v[2].limit <= x[2].limit
    BY SmallestOfType
  <2>2. \A x \in S : SameRow(v, x) => x[2].type = v[2].type
    BY <1>2, <1>4, <2>1 DEF SameRow
  <2>3. QED
    BY <2>1, <2>2 DEF Before
<1>5. QED
  BY <1>3, <1>4

\* The violation next to be handled is one of the list, and none of its row comes
\* before it.
LEMMA NextIsListed ==
  ASSUME CycleTypes, NEW c \in Nightly, cycle[c].todo # {}
  PROVE  /\ NextViolation(c) \in cycle[c].todo
         /\ NextViolation(c)[1] \in Positions /\ NextViolation(c)[2] \in Rules
         /\ \A w \in cycle[c].todo :
              SameRow(NextViolation(c), w) => Before(NextViolation(c)[2], w[2])
<1>1. cycle[c].todo \in SUBSET Listed
  BY DEF CycleTypes, Cycle
<1>2. /\ NextViolation(c) \in cycle[c].todo
      /\ \A w \in cycle[c].todo :
           SameRow(NextViolation(c), w) => Before(NextViolation(c)[2], w[2])
  BY <1>1, NextExists DEF NextViolation
<1>3. QED
  BY <1>1, <1>2 DEF Listed, Violable
-----------------------------------------------------------------------------
(* Where the steps of a handler take it.                                   *)

\* The steps of a handler: a trigger in time starts one without a list, ...
LEMMA FireTurns ==
  ASSUME CycleTypes, NEW c \in Nightly, Fire(c)
  PROVE  Turns(c) /\ cycle'[c].pc = "calculate" /\ cycle'[c].todo = {}
<1> DEFINE n == (clock = 0)
           new == [Off EXCEPT !.pc = "calculate", !.nightly = n]
<1>1. cycle' = [cycle EXCEPT ![c] = new]
  BY DEF Fire
<1>2. n \in BOOLEAN
  OBVIOUS
<1> HIDE DEF n
<1>3. new \in Cycle /\ new.pc = "calculate" /\ new.todo = {}
  BY <1>2, OffOK
<1> HIDE DEF new
<1>4. QED
  BY <1>1, <1>3, Turned

\* ... it recalculates, ...
LEMMA CalculateTurns ==
  ASSUME CycleTypes, NEW c \in Nightly, Calculate(c)
  PROVE  Turns(c) /\ cycle'[c].pc = "select" /\ cycle'[c].todo = cycle[c].todo
BY PcTurns DEF Calculate

\* What the SELECT finds to report.
AllFound == {v \in Violation : Found(v[1], v[2], v[3])}

\* It is of the rules whose violations are reported.
LEMMA FoundAreListed == AllFound \in SUBSET Listed
<1>1. ASSUME NEW pos \in Positions, NEW rule \in Rules, NEW exchange,
             Found(pos, rule, exchange)
      PROVE  rule \in Violable
  BY <1>1 DEF Found, Reported, Violations, Critical, High, Violable
<1>2. QED
  BY <1>1 DEF AllFound, Violation, Listed

\* ... lists the violations that are found, ...
LEMMA SelectTurns ==
  ASSUME CycleTypes, NEW c \in Nightly, SelectPositions(c)
  PROVE  /\ Turns(c) /\ cycle'[c].pc = "look"
         /\ cycle'[c].todo = AllFound
<1>1. cycle' = [cycle EXCEPT ![c].pc = "look", ![c].todo = AllFound]
  BY DEF SelectPositions, AllFound
<1>2. QED
  BY <1>1, FoundAreListed, ListTurns

\* Either the violation is known, and off the list, or it is to be recorded.
LEMMA LookTurns ==
  ASSUME CycleTypes, NEW c \in Nightly, LookForEvent(c)
  PROVE  /\ Turns(c)
         /\ \/ /\ cycle'[c].pc = "look" /\ cycle'[c].todo = cycle[c].todo \ {NextViolation(c)}
               /\ KnownBreach(NextViolation(c)[1], NextViolation(c)[2])
            \/ /\ cycle'[c].pc = "record" /\ cycle'[c].todo = cycle[c].todo
               /\ ~KnownBreach(NextViolation(c)[1], NextViolation(c)[2])
<1> DEFINE v == NextViolation(c)
           l == cycle[c]
<1>1. l \in Cycle /\ l.pc = "look"
  BY DEF CycleTypes, LookForEvent
<1>2. cycle' = [cycle EXCEPT ![c] = AfterLooking(l, v)]
  BY DEF LookForEvent
<1>3. CASE KnownBreach(v[1], v[2])
  <2>1. cycle' = [cycle EXCEPT ![c] = [l EXCEPT !.todo = l.todo \ {v}]]
    BY <1>2, <1>3 DEF AfterLooking
  <2> DEFINE T == l.todo \ {v}
  <2>2. T \in SUBSET Listed
    BY <1>1 DEF Cycle
  <2>3. cycle' = [cycle EXCEPT ![c].pc = "look", ![c].todo = T]
    <3> HIDE DEF v
    <3>1. [l EXCEPT !.todo = T] = [l EXCEPT !.pc = "look", !.todo = T]
      BY <1>1 DEF Cycle
    <3>2. QED
      BY <2>1, <3>1
  <2> HIDE DEF T
  <2>4. Turns(c) /\ cycle'[c].pc = "look" /\ cycle'[c].todo = T
    BY <2>2, <2>3, ListTurns
  <2>5. QED
    BY <1>3, <2>4 DEF T
<1>4. CASE ~KnownBreach(v[1], v[2])
  <2>1. cycle' = [cycle EXCEPT ![c] = [cycle[c] EXCEPT !.pc = "record"]]
    BY <1>2, <1>4 DEF AfterLooking
  <2>2. QED
    BY <1>4, <2>1, PcTurns
<1>5. QED
  BY <1>3, <1>4

\* ... works them off one by one as it records them, ...
LEMMA RecordTurns ==
  ASSUME CycleTypes, NEW c \in Nightly, RecordEvent(c)
  PROVE  /\ Turns(c) /\ cycle'[c].pc = "look"
         /\ cycle'[c].todo = cycle[c].todo \ {NextViolation(c)}
<1> DEFINE T == cycle[c].todo \ {NextViolation(c)}
<1>1. cycle' = [cycle EXCEPT ![c].pc = "look", ![c].todo = T]
  BY DEF RecordEvent
<1>2. T \in SUBSET Listed
  BY DEF CycleTypes, Cycle
<1> HIDE DEF T
<1>3. Turns(c) /\ cycle'[c].pc = "look" /\ cycle'[c].todo = T
  BY <1>1, <1>2, ListTurns
<1>4. QED
  BY <1>3 DEF T

\* ... or drops those of a row that failed, ...
LEMMA FailPositionTurns ==
  ASSUME CycleTypes, NEW c \in Nightly, FailPosition(c)
  PROVE  /\ Turns(c) /\ cycle'[c].pc = "look" /\ cycle'[c].todo \subseteq cycle[c].todo
         /\ cycle'[c].todo = {v \in cycle[c].todo : ~SameRow(v, NextViolation(c))}
<1> DEFINE T == {v \in cycle[c].todo : ~SameRow(v, NextViolation(c))}
<1>1. cycle' = [cycle EXCEPT ![c].pc = "look", ![c].todo = T]
  BY DEF FailPosition
<1>2. T \in SUBSET Listed /\ T \subseteq cycle[c].todo
  BY DEF CycleTypes, Cycle
<1> HIDE DEF T
<1>3. Turns(c) /\ cycle'[c].pc = "look" /\ cycle'[c].todo = T
  BY <1>1, <1>2, ListTurns
<1>4. QED
  BY <1>2, <1>3 DEF T

\* A handler that ends, for whatever reason.
LEMMA OffTurns ==
  ASSUME CycleTypes, NEW c \in Nightly, cycle' = [cycle EXCEPT ![c] = Off]
  PROVE  Turns(c) /\ cycle'[c].pc = "off" /\ cycle'[c].todo = {}
BY OffOK, Turned

\* ... ends, or goes on to its import, when it has mailed, ...
LEMMA NotifyTurns ==
  ASSUME CycleTypes, NEW c \in Nightly, Notify(c)
  PROVE  Turns(c) /\ cycle'[c].pc \in {"off", "import"} /\ cycle'[c].todo = {}
<1>1. cycle' = [cycle EXCEPT ![c] = AfterCycle(cycle[c])] /\ cycle[c].todo = {}
  BY DEF Notify
<1>2. CASE cycle[c].nightly
  BY <1>1, <1>2, PcTurns DEF AfterCycle
<1>3. CASE ~cycle[c].nightly
  BY <1>1, <1>3, OffTurns DEF AfterCycle
<1>4. QED
  BY <1>2, <1>3

\* ... begins the import, ...
LEMMA BeginTurns ==
  ASSUME CycleTypes, NEW c \in Nightly, BeginImport(c)
  PROVE  Turns(c) /\ cycle'[c].pc = "importing" /\ cycle'[c].todo = cycle[c].todo
BY PcTurns DEF BeginImport

\* ... and ends with it.
LEMMA RunTurns ==
  ASSUME CycleTypes, NEW c \in Nightly, RunImport(c)
  PROVE  /\ Turns(c)
         /\ \/ /\ importer'[c].pc # "idle"
               /\ cycle'[c].pc = cycle[c].pc /\ cycle'[c].todo = cycle[c].todo
            \/ importer'[c].pc = "idle" /\ cycle'[c].pc = "off" /\ cycle'[c].todo = {}
<1>1. CASE importer'[c].pc = "idle"
  BY <1>1, OffTurns DEF RunImport
<1>2. CASE importer'[c].pc # "idle"
  BY <1>2 DEF RunImport, Turns, CycleTypes
<1>3. QED
  BY <1>1, <1>2
-----------------------------------------------------------------------------
(* What becomes of the events.                                             *)

\* The events there were keep all but their mails and, when acknowledged, their
\* being open; none is added.
KeepsEvents ==
  /\ events' \in Seq(Event) /\ DOMAIN events' = DOMAIN events
  /\ \A k \in DOMAIN events :
       /\ events'[k].key = events[k].key /\ events'[k].rule = events[k].rule
       /\ events'[k].by = events[k].by /\ events'[k].age = events[k].age
       /\ events'[k].open => events[k].open

\* Event e is added, those there were stay as they are.
Adds(e) ==
  /\ events' \in Seq(Event)
  /\ \A k \in DOMAIN events : k \in DOMAIN events' /\ events'[k] = events[k]
  /\ \A k \in DOMAIN events' : k \in DOMAIN events \/ events'[k] = e

\* An event is a record of its fields.
LEMMA EventFields ==
  ASSUME CycleTypes, NEW k \in DOMAIN events
  PROVE  /\ events[k] \in Event /\ k \in 1..Len(events)
         /\ events[k].key \in Keys /\ events[k].rule \in Rules
         /\ events[k].by \in Sources /\ events[k].open \in BOOLEAN
         /\ events[k].age \in {0, 1, 2} /\ events[k].mails \in Nat
<1>1. events[k] \in Event /\ k \in 1..Len(events)
  BY DEF CycleTypes
<1>2. QED
  BY <1>1 DEF Event, MaxAge

\* A step that leaves the table alone keeps every event.
LEMMA EventsSame ==
  ASSUME CycleTypes, events' = events
  PROVE  KeepsEvents
BY DEF CycleTypes, KeepsEvents

\* A new event is of this tick, and nobody has mailed it.
LEMMA NewEventOK ==
  ASSUME NEW pos \in Positions, NEW rule \in Rules, NEW by \in Sources
  PROVE  /\ NewEvent(pos, rule, by) \in Event
         /\ NewEvent(pos, rule, by).key = Key[pos] /\ NewEvent(pos, rule, by).rule = rule
         /\ NewEvent(pos, rule, by).by = by /\ NewEvent(pos, rule, by).age = 0
         /\ NewEvent(pos, rule, by).mails = 0
BY DEF NewEvent, Event, MaxAge, Keys

\* An INSERT adds one event and keeps the others.
LEMMA AppendAdds ==
  ASSUME CycleTypes, NEW e \in Event, events' = Append(events, e)
  PROVE  Adds(e)
<1>1. events \in Seq(Event)
  BY DEF CycleTypes
<1>2. QED
  BY <1>1, AppendProperties DEF Adds

\* A cycle records the violation it has come to, and nothing else.
LEMMA RecordAdds ==
  ASSUME CycleTypes, NEW c \in Nightly, RecordEvent(c)
  PROVE  /\ NextViolation(c) \in cycle[c].todo
         /\ Adds(NewEvent(NextViolation(c)[1], NextViolation(c)[2], c))
         /\ NewEvent(NextViolation(c)[1], NextViolation(c)[2], c) \in Event
         /\ NextViolation(c)[1] \in Positions /\ NextViolation(c)[2] \in Rules
<1>1. cycle[c].todo # {} /\ c \in Sources
  BY DEF CycleTypes, RecordEvent, Sources
<1>2. events' = Append(events, NewEvent(NextViolation(c)[1], NextViolation(c)[2], c))
  BY DEF RecordEvent
<1>3. NewEvent(NextViolation(c)[1], NextViolation(c)[2], c) \in Event
  BY <1>1, NextIsListed, NewEventOK
<1>4. QED
  BY <1>1, <1>2, <1>3, NextIsListed, AppendAdds

\* An event of another component is of no trigger.
LEMMA ForeignAdds ==
  ASSUME CycleTypes, ForeignEvent
  PROVE  \E e \in Event : Adds(e) /\ e.by \notin Nightly /\ e.age = 0 /\ e.mails = 0
<1>1. PICK pos \in Positions, rule \in Rules :
        events' = Append(events, NewEvent(pos, rule, "pre-trade"))
  BY DEF ForeignEvent, Rules
<1>2. "pre-trade" \in Sources /\ "pre-trade" \notin Nightly
  BY MonitoringAssumption DEF Sources
<1>3. QED
  BY <1>1, <1>2, NewEventOK, AppendAdds

\* Acknowledging closes an event and changes nothing else of it.
LEMMA AcknowledgeKeeps ==
  ASSUME CycleTypes, Acknowledge
  PROVE  KeepsEvents /\ \A k \in DOMAIN events : events'[k].mails = events[k].mails
<1>1. PICK k \in DOMAIN events : events' = [events EXCEPT ![k].open = FALSE]
  BY DEF Acknowledge
<1> DEFINE l == events[k]
           e == [l EXCEPT !.open = FALSE]
<1>2. events' = [events EXCEPT ![k] = e]
  BY <1>1
<1>3. l \in Event /\ k \in 1..Len(events) /\ events \in Seq(Event)
  BY EventFields DEF CycleTypes
<1> HIDE DEF l
<1>4. /\ e \in Event /\ ~e.open /\ e.key = l.key /\ e.rule = l.rule /\ e.by = l.by
      /\ e.age = l.age /\ e.mails = l.mails
  BY <1>3 DEF Event
<1> HIDE DEF e
<1>5. /\ events' \in Seq(Event) /\ DOMAIN events' = DOMAIN events /\ events'[k] = e
      /\ \A j \in DOMAIN events : j # k => events'[j] = events[j]
  BY <1>2, <1>3, <1>4, ExceptSeq
<1>6. QED
  BY <1>4, <1>5 DEF KeepsEvents, l

\* A sequence of events is rewritten one by one.
LEMMA Rewritten ==
  ASSUME CycleTypes, NEW f, f \in [DOMAIN events -> Event]
  PROVE  f \in Seq(Event) /\ DOMAIN f = DOMAIN events
<1>1. DOMAIN events = 1..Len(events) /\ Len(events) \in Nat
  BY DEF CycleTypes
<1>2. QED
  BY <1>1, SeqDef

\* A breach to be notified of is mailed, or one more thing went wrong.
LEMMA NotifyMails ==
  ASSUME CycleTypes, NEW c \in Nightly, Notify(c)
  PROVE  /\ KeepsEvents /\ misses' \in Nat /\ misses <= misses'
         /\ \A k \in DOMAIN events :
              /\ events'[k].mails \in {events[k].mails, events[k].mails + 1}
              /\ k \notin ToNotify => events'[k].mails = events[k].mails
              /\ k \in ToNotify =>
                   events'[k].mails = events[k].mails + 1 \/ misses < misses'
<1>1. PICK failed \in SUBSET ToNotify :
        /\ misses' = misses + Cardinality(failed)
        /\ events' = [k \in DOMAIN events |->
             IF k \in ToNotify \ failed THEN [events[k] EXCEPT !.mails = @ + 1]
             ELSE events[k]]
  BY DEF Notify
<1>2. /\ Cardinality(failed) \in Nat /\ misses \in Nat
      /\ failed # {} => Cardinality(failed) > 0
  <2>1. DOMAIN events = 1..Len(events) /\ Len(events) \in Nat
    BY DEF CycleTypes
  <2>2. IsFiniteSet(DOMAIN events) /\ failed \in SUBSET (DOMAIN events)
    BY <2>1, FS_Interval DEF ToNotify
  <2>3. IsFiniteSet(failed)
    BY <2>2, FS_Subset
  <2>4. QED
    BY <2>3, FS_CardinalityType, FS_EmptySet DEF CycleTypes
<1>3. ASSUME NEW k \in DOMAIN events
      PROVE  /\ events'[k] \in Event
             /\ events'[k].key = events[k].key /\ events'[k].rule = events[k].rule
             /\ events'[k].by = events[k].by /\ events'[k].age = events[k].age
             /\ events'[k].open = events[k].open
             /\ k \in ToNotify \ failed => events'[k].mails = events[k].mails + 1
             /\ k \notin ToNotify \ failed => events'[k].mails = events[k].mails
  <2>1. events[k] \in Event /\ events[k].mails \in Nat
    BY EventFields
  <2>2. CASE k \in ToNotify \ failed
    <3> DEFINE l == events[k]
               m == l.mails + 1
               e == [l EXCEPT !.mails = m]
    <3>1. events'[k] = e
      BY <1>1, <2>2
    <3>2. m \in Nat /\ l \in Event
      BY <2>1
    <3> HIDE DEF l, m
    <3>3. /\ e \in Event /\ e.mails = m /\ e.key = l.key /\ e.rule = l.rule
          /\ e.by = l.by /\ e.age = l.age /\ e.open = l.open
      BY <3>2 DEF Event
    <3> HIDE DEF e
    <3>4. QED
      BY <2>2, <3>1, <3>3 DEF l, m
  <2>3. CASE k \notin ToNotify \ failed
    BY <1>1, <2>1, <2>3
  <2>4. QED
    BY <2>2, <2>3
<1>4. events' \in Seq(Event) /\ DOMAIN events' = DOMAIN events
  <2>1. events' \in [DOMAIN events -> Event]
    BY <1>1, <1>3
  <2>2. QED
    BY <2>1, Rewritten
<1>5. KeepsEvents
  BY <1>3, <1>4 DEF KeepsEvents
<1>6. misses' \in Nat /\ misses <= misses' /\ (failed # {} => misses < misses')
  BY <1>1, <1>2
<1>7. QED
  BY <1>3, <1>5, <1>6

\* An event a quarter of an hour later.
LEMMA OlderEvent ==
  ASSUME NEW e \in Event
  PROVE  /\ Older(e) \in Event
         /\ Older(e).key = e.key /\ Older(e).rule = e.rule /\ Older(e).by = e.by
         /\ Older(e).open = e.open
         /\ e.age = 0 => Older(e).age = 1 /\ Older(e).mails = e.mails
         /\ e.age = 1 => Older(e).age = 2 /\ Older(e).mails = 0
         /\ e.age = 2 => Older(e).age = 2 /\ Older(e).mails = e.mails
<1>1. e.age \in {0, 1, 2}
  BY DEF Event, MaxAge
<1>2. CASE e.age = 0
  <2>1. Older(e) = [e EXCEPT !.age = e.age + 1]
    BY <1>2 DEF Older, MaxAge
  <2> DEFINE f == [e EXCEPT !.age = e.age + 1]
  <2>2. /\ f \in Event /\ f.key = e.key /\ f.rule = e.rule /\ f.by = e.by
        /\ f.open = e.open /\ f.age = 1 /\ f.mails = e.mails
    BY <1>2 DEF Event, MaxAge
  <2> HIDE DEF f
  <2>3. QED
    BY <1>2, <2>1, <2>2 DEF f
<1>3. CASE e.age = 1
  <2>1. Older(e) = [e EXCEPT !.age = 2, !.mails = 0]
    BY <1>3 DEF Older, MaxAge
  <2> DEFINE g == [e EXCEPT !.age = 2]
             f == [g EXCEPT !.mails = 0]
  <2>2. /\ g \in Event /\ g.key = e.key /\ g.rule = e.rule /\ g.by = e.by
        /\ g.open = e.open /\ g.age = 2
    BY DEF Event, MaxAge
  <2>3. Older(e) = f
    BY <2>1
  <2> HIDE DEF g
  <2>4. /\ f \in Event /\ f.key = g.key /\ f.rule = g.rule /\ f.by = g.by
        /\ f.open = g.open /\ f.age = g.age /\ f.mails = 0
    BY <2>2 DEF Event
  <2> HIDE DEF f
  <2>5. QED
    BY <1>3, <2>2, <2>3, <2>4
<1>4. CASE e.age = 2
  BY <1>4 DEF Older, Event, MaxAge
<1>5. QED
  BY <1>1, <1>2, <1>3, <1>4

\* Time ages every event.
LEMMA TickAges ==
  ASSUME CycleTypes, Tick
  PROVE  /\ events' \in Seq(Event) /\ DOMAIN events' = DOMAIN events
         /\ \A k \in DOMAIN events : events'[k] = Older(events[k])
<1>1. events' = [k \in DOMAIN events |-> Older(events[k])]
  BY DEF Tick
<1>2. events' \in [DOMAIN events -> Event]
  BY <1>1, EventFields, OlderEvent
<1>3. QED
  BY <1>1, <1>2, Rewritten
-----------------------------------------------------------------------------
(* TypeOK.                                                                 *)

\* The steps of a cycle proper, and the others, which touch no limits.
CycleStep(c) ==
  \/ Fire(c) \/ Late(c) \/ Calculate(c) \/ SelectPositions(c) \/ LookForEvent(c)
  \/ RecordEvent(c) \/ Notify(c) \/ FailPosition(c) \/ FailCycle(c)

OtherStep == Tick \/ Acknowledge \/ ForeignEvent \/ UNCHANGED vars

\* A bad turn of events that happens is counted.
LEMMA OneMore ==
  ASSUME CycleTypes, misses' = misses + 1
  PROVE  misses' \in Nat
BY DEF CycleTypes

\* The steps keep CycleTypes: those of a cycle, ...
LEMMA CycleStepTypes ==
  ASSUME CycleTypes, NEW c \in Nightly, CycleStep(c)
  PROVE  CycleTypes'
<1> DEFINE Recording == \A d \in Nightly : cycle'[d].pc = "record" => cycle'[d].todo # {}
           Rest == /\ lots' \in Books /\ clock' \in 0..(Day - 1)
                   /\ due' \subseteq Nightly /\ misses' \in Nat
<1>1. ASSUME Turns(c), cycle'[c].pc = "record" => cycle'[c].todo # {}, events' \in Seq(Event),
             Rest
      PROVE  CycleTypes'
  BY <1>1 DEF CycleTypes, Turns
<1>2. CASE Fire(c)
  <2>1. Rest /\ events' \in Seq(Event)
    BY <1>2 DEF Fire, UnchangedBook, CycleTypes
  <2>2. QED
    BY <1>1, <1>2, <2>1, FireTurns
<1>3. CASE Late(c)
  BY <1>3, OneMore DEF Late, UnchangedBook, CycleTypes
<1>4. CASE Calculate(c)
  <2>1. Rest /\ events' \in Seq(Event)
    BY <1>4 DEF Calculate, UnchangedBook, CycleTypes
  <2>2. QED
    BY <1>1, <1>4, <2>1, CalculateTurns
<1>5. CASE SelectPositions(c)
  <2>1. Rest /\ events' \in Seq(Event)
    BY <1>5 DEF SelectPositions, UnchangedBook, CycleTypes
  <2>2. QED
    BY <1>1, <1>5, <2>1, SelectTurns
<1>6. CASE LookForEvent(c)
  <2>1. Rest /\ events' \in Seq(Event) /\ cycle[c].todo # {}
    BY <1>6 DEF LookForEvent, UnchangedBook, CycleTypes
  <2>2. QED
    BY <1>1, <1>6, <2>1, LookTurns
<1>7. CASE RecordEvent(c)
  <2>1. Rest
    BY <1>7 DEF RecordEvent, UnchangedBook, CycleTypes
  <2>2. events' \in Seq(Event)
    BY <1>7, RecordAdds DEF Adds
  <2>3. QED
    BY <1>1, <1>7, <2>1, <2>2, RecordTurns
<1>8. CASE Notify(c)
  <2>1. /\ lots' \in Books /\ clock' \in 0..(Day - 1)
        /\ due' \subseteq Nightly
    BY <1>8 DEF Notify, UnchangedBook, CycleTypes
  <2>2. events' \in Seq(Event) /\ misses' \in Nat
    BY <1>8, NotifyMails DEF KeepsEvents
  <2>3. QED
    BY <1>1, <1>8, <2>1, <2>2, NotifyTurns
<1>9. CASE FailPosition(c)
  <2>1. Rest /\ events' \in Seq(Event)
    BY <1>9, OneMore DEF FailPosition, UnchangedBook, CycleTypes
  <2>2. QED
    BY <1>1, <1>9, <2>1, FailPositionTurns
<1>10. CASE FailCycle(c)
  <2>1. Rest /\ events' \in Seq(Event)
    BY <1>10, OneMore DEF FailCycle, UnchangedBook, CycleTypes
  <2>2. cycle' = [cycle EXCEPT ![c] = Off]
    BY <1>10 DEF FailCycle
  <2>3. QED
    BY <1>1, <2>1, <2>2, OffTurns
<1>11. QED
  BY <1>2, <1>3, <1>4, <1>5, <1>6, <1>7, <1>8, <1>9, <1>10 DEF CycleStep

\* ... those of its import, ...
LEMMA ImportStepTypes ==
  ASSUME CycleTypes, NEW c \in Nightly, BeginImport(c) \/ RunImport(c)
  PROVE  CycleTypes'
<1>1. UNCHANGED <<clock, due, lots, events, misses>>
  BY DEF BeginImport, RunImport, UnchangedBook
<1>2. Turns(c) /\ (cycle'[c].pc = "record" => cycle'[c].todo # {})
  BY BeginTurns, RunTurns DEF RunImport, BeginImport
<1>3. QED
  BY <1>1, <1>2 DEF CycleTypes, Turns

\* ... and those of the requests, other components and the clock.
LEMMA OtherStepTypes ==
  ASSUME CycleTypes, OtherStep \/ RequestedImport
  PROVE  CycleTypes'
<1>1. CASE Tick
  <2>1. clock' = (clock + 1) % Day /\ due' = Delivered(clock')
    BY <1>1 DEF Tick
  <2>2. clock' \in 0..(Day - 1)
    BY <2>1, MonitoringAssumption DEF CycleTypes
  <2>3. due' \subseteq Nightly
    BY <2>1, MonitoringAssumption DEF Delivered
  <2>4. events' \in Seq(Event)
    BY <1>1, TickAges
  <2>5. QED
    BY <1>1, <2>2, <2>3, <2>4 DEF Tick, CycleTypes
<1>2. CASE Acknowledge
  <2>1. events' \in Seq(Event)
    BY <1>2, AcknowledgeKeeps DEF KeepsEvents
  <2>2. QED
    BY <1>2, <2>1 DEF Acknowledge, CycleTypes
<1>3. CASE ForeignEvent
  <2>1. events' \in Seq(Event)
    BY <1>3, ForeignAdds DEF Adds
  <2>2. QED
    BY <1>3, <2>1 DEF ForeignEvent, CycleTypes
<1>4. CASE RequestedImport \/ UNCHANGED vars
  BY <1>4 DEF RequestedImport, monitoringVars, vars, CycleTypes
<1>5. QED
  BY <1>1, <1>2, <1>3, <1>4 DEF OtherStep

\* Every step is one of these.
LEMMA StepCases ==
  ASSUME [Next]_vars
  PROVE  \/ OtherStep \/ RequestedImport
         \/ \E c \in Nightly : CycleStep(c) \/ BeginImport(c) \/ RunImport(c)
BY DEF Next, HandlerStep, OtherStep, CycleStep

\* Every step keeps CycleTypes.
LEMMA CycleTypesKept ==
  ASSUME CycleTypes, [Next]_vars
  PROVE  CycleTypes'
BY StepCases, CycleStepTypes, ImportStepTypes, OtherStepTypes

\* Before its import, a trigger does not import; and only imports touch limits.
LEMMA CycleStepImports ==
  ASSUME CycleTypes, ImportTypes, NEW c \in Nightly, CycleStep(c)
  PROVE  ImportTypes' /\ UNCHANGED importVars
<1>1. UNCHANGED importVars
  BY DEF CycleStep, Fire, Late, Calculate, SelectPositions, LookForEvent, RecordEvent,
         Notify, FailPosition, FailCycle
<1>2. CASE Late(c)
  BY <1>1, <1>2 DEF Late, ImportTypes, importVars, Types, Importing
<1>3. CASE ~Late(c)
  <2>1. Turns(c) /\ cycle[c].pc # "importing" /\ cycle'[c].pc # "importing"
    <3>1. CASE Fire(c)
      BY <3>1, FireTurns DEF Fire, Running
    <3>2. CASE Calculate(c)
      BY <3>2, CalculateTurns DEF Calculate
    <3>3. CASE SelectPositions(c)
      BY <3>3, SelectTurns DEF SelectPositions
    <3>4. CASE LookForEvent(c)
      BY <3>4, LookTurns DEF LookForEvent
    <3>5. CASE RecordEvent(c)
      BY <3>5, RecordTurns DEF RecordEvent
    <3>6. CASE Notify(c)
      BY <3>6, NotifyTurns DEF Notify
    <3>7. CASE FailPosition(c)
      BY <3>7, FailPositionTurns DEF FailPosition
    <3>8. CASE FailCycle(c)
      BY <3>8, OffTurns DEF FailCycle
    <3>9. QED
      BY <1>3, <3>1, <3>2, <3>3, <3>4, <3>5, <3>6, <3>7, <3>8 DEF CycleStep
  <2>2. QED
    BY <1>1, <2>1 DEF ImportTypes, importVars, Types, Importing, Turns
<1>4. QED
  BY <1>1, <1>2, <1>3

\* Importer c moves, its upload staying 0, and no other does.
ImporterMoves(c) ==
  /\ importer' \in [Importers -> Local]
  /\ \A i \in Importers : i # c => importer'[i] = importer[i]
  /\ importer'[c].upload = 0 /\ importer'[c].pc \in {"idle", "look", "delete", "insert"}

\* An import that goes on is the only one to move, ...
LEMMA ImporterPc ==
  ASSUME ImportTypes, NEW c \in Nightly, NEW pc \in {"look", "delete", "insert"},
         importer' = [importer EXCEPT ![c] = [importer[c] EXCEPT !.pc = pc]]
  PROVE  ImporterMoves(c) /\ importer'[c].pc = pc
<1> DEFINE l == importer[c]
           new == [l EXCEPT !.pc = pc]
<1>1. l \in Local /\ l.upload = 0 /\ c \in Importers
  BY DEF ImportTypes, Types, Importers
<1>2. importer' = [importer EXCEPT ![c] = new] /\ importer \in [Importers -> Local]
  BY DEF ImportTypes, Types
<1> HIDE DEF l
<1>3. new \in Local /\ new.pc = pc /\ new.upload = 0
  BY <1>1 DEF Local
<1> HIDE DEF new
<1>4. QED
  BY <1>1, <1>2, <1>3 DEF ImporterMoves

\* ... and so is one that ends.
LEMMA ImporterRests ==
  ASSUME ImportTypes, NEW c \in Nightly, importer' = [importer EXCEPT ![c] = Resting]
  PROVE  ImporterMoves(c) /\ importer'[c].pc = "idle"
<1>1. Resting \in Local /\ Resting.pc = "idle" /\ Resting.upload = 0
  BY DEF Resting, Local
<1>2. c \in Importers /\ importer \in [Importers -> Local]
  BY DEF ImportTypes, Types, Importers
<1>3. QED
  BY <1>1, <1>2 DEF ImporterMoves

\* A nightly import that begins.
LEMMA BeginMoves ==
  ASSUME CycleTypes, ImportTypes, NEW c \in Nightly, BeginImport(c)
  PROVE  ImporterMoves(c) /\ importer'[c].pc = "look"
<1> DEFINE l == [Resting EXCEPT !.pc = "look"]
           new == [l EXCEPT !.date = published]
<1>1. importer' = [importer EXCEPT ![c] = new]
  BY DEF BeginImport, StartNightly
<1>2. l \in Local /\ l.pc = "look" /\ l.upload = 0
  BY DEF Resting, Local
<1>3. published \in Nat /\ c \in Importers /\ importer \in [Importers -> Local]
  BY DEF ImportTypes, Types, Importers
<1> HIDE DEF l
<1>4. new \in Local /\ new.pc = "look" /\ new.upload = 0
  BY <1>2, <1>3 DEF Local
<1> HIDE DEF new
<1>5. QED
  BY <1>1, <1>3, <1>4 DEF ImporterMoves

\* A nightly import never settles an upload: a file without rows ends it.
LEMMA RunMoves ==
  ASSUME CycleTypes, ImportTypes, NEW c \in Nightly, RunImport(c)
  PROVE  /\ ImporterMoves(c) /\ UNCHANGED <<published, uploads, together, importFailures>>
         /\ limits' \in {limits, {}} /\ wiped' \in BOOLEAN
<1>1. importer[c].pc \in {"idle", "look", "delete", "insert"} /\ c \notin Requests
  BY ImportAssumption DEF ImportTypes, Importers
<1>2. LookForDate(c) \/ DeleteLimits(c) \/ InsertNightly(c)
  BY <1>1 DEF RunImport, ImportStep, InsertLimits, CompleteUpload, RejectUpload
<1>3. CASE LookForDate(c)
  <2>1. UNCHANGED <<limits, published, uploads, wiped, together, importFailures>>
    BY <1>3 DEF LookForDate
  <2>2. PICK kind \in FileKinds : importer' = [importer EXCEPT ![c] =
         LET pc == IF kind # "undated" /\ AlreadyImported(importer[c].date)
                   THEN "idle" ELSE AfterLook(kind)
         IN  IF pc = "idle" \/ (pc = "reject" /\ c \in Nightly) THEN Resting
             ELSE [@ EXCEPT !.pc = pc]]
    BY <1>3 DEF LookForDate
  <2> DEFINE pc == IF kind # "undated" /\ AlreadyImported(importer[c].date)
                   THEN "idle" ELSE AfterLook(kind)
  <2>3. pc \in {"idle", "reject", "delete"}
    BY <2>2 DEF FileKinds, AfterLook
  <2>4. importer' = [importer EXCEPT ![c] =
           IF pc = "idle" \/ (pc = "reject" /\ c \in Nightly) THEN Resting
           ELSE [importer[c] EXCEPT !.pc = pc]]
    BY <2>2
  <2> HIDE DEF pc
  <2>5. CASE pc = "delete"
    BY <2>1, <2>4, <2>5, ImporterPc DEF ImportTypes
  <2>6. CASE pc # "delete"
    BY <2>1, <2>3, <2>4, <2>6, ImporterRests DEF ImportTypes
  <2>7. QED
    BY <2>5, <2>6
<1>4. CASE DeleteLimits(c)
  BY <1>4, ImporterPc DEF DeleteLimits, Remaining, ImportTypes
<1>5. CASE InsertNightly(c)
  BY <1>5, ImporterRests DEF InsertNightly, ImportTypes
<1>6. QED
  BY <1>2, <1>3, <1>4, <1>5

\* The steps of a handler's import keep ImportTypes, ...
LEMMA ImportStepImports ==
  ASSUME CycleTypes, ImportTypes, NEW c \in Nightly, BeginImport(c) \/ RunImport(c)
  PROVE  ImportTypes'
<1>1. /\ ImporterMoves(c) /\ UNCHANGED <<published, uploads, importFailures>>
      /\ limits' \subseteq limits /\ wiped' \in BOOLEAN
  BY BeginMoves, RunMoves DEF BeginImport, StartNightly, ImportTypes
<1>2. Turns(c) /\ (cycle'[c].pc = "importing" <=> importer'[c].pc # "idle")
  BY BeginMoves, BeginTurns, RunTurns DEF RunImport
<1>3. c \notin Requests
  BY ImportAssumption
<1>4. QED
  BY <1>1, <1>2, <1>3 DEF ImportTypes, Types, ImporterMoves, Turns, Importing, Importers

\* ... and those of others leave imports and cycles alone.
LEMMA OtherStepImports ==
  ASSUME CycleTypes, ImportTypes, OtherStep
  PROVE  ImportTypes' /\ UNCHANGED <<importVars, cycle>>
<1>1. UNCHANGED <<importVars, cycle>>
  BY DEF OtherStep, Tick, Acknowledge, ForeignEvent, vars, monitoringVars
<1>2. QED
  BY <1>1 DEF ImportTypes, importVars, Types, Importing

\* An import on request replaces the table by the copy of a new upload.
LEMMA RequestedImports ==
  ASSUME CycleTypes, ImportTypes, RequestedImport
  PROVE  ImportTypes'
<1>1. Len(uploads) \in Nat /\ Len(uploads) < MaxUploads /\ published \in 0..MaxDate
  BY ImportAssumption, MonitoringAssumption DEF RequestedImport, ImportTypes
<1>2. /\ uploads' = Append(uploads, "completed")
      /\ limits' = {[date |-> published, upload |-> Len(uploads) + 1]}
      /\ wiped' = FALSE
      /\ UNCHANGED <<published, importer, together, importFailures, cycle>>
  BY DEF RequestedImport
<1>3. uploads' \in Seq(UploadStatus)
  BY <1>2 DEF ImportTypes, UploadStatus
<1>4. Len(uploads) + 1 \in 0..MaxUploads
  BY <1>1, ImportAssumption
<1>5. limits' \subseteq Copy
  BY <1>1, <1>2, <1>4 DEF Copy
<1>6. QED
  BY <1>2, <1>3, <1>5 DEF ImportTypes, Types, Importing

\* Every step keeps ImportTypes.
LEMMA ImportTypesKept ==
  ASSUME CycleTypes, ImportTypes, [Next]_vars
  PROVE  ImportTypes'
BY StepCases, CycleStepImports, ImportStepImports, OtherStepImports, RequestedImports

\* The types hold in the beginning.
LEMMA TypesAtFirst ==
  ASSUME Init
  PROVE  CycleTypes /\ ImportTypes
<1>1. CycleTypes
  <2>1. cycle \in [Nightly -> Cycle] /\ \A c \in Nightly : cycle[c].pc # "record"
    BY OffOK DEF Init
  <2>2. events \in Seq(Event) /\ misses \in Nat /\ lots \in Books
    BY DEF Init
  <2>3. clock \in 0..(Day - 1)
    BY MonitoringAssumption DEF Init
  <2>4. due \subseteq Nightly
    BY MonitoringAssumption DEF Init, Delivered
  <2>5. QED
    BY <2>1, <2>2, <2>3, <2>4 DEF CycleTypes
<1>2. Seeded \in Copy
  BY ImportAssumption DEF Seeded, Copy
<1>3. \A i \in Importers : importer[i] = Resting
  BY DEF Init, ImportInit
<1>4. Resting.upload = 0
  BY DEF Resting
<1>5. \A c \in Nightly : cycle[c] = Off
  BY DEF Init
<1>6. Types
  BY RestingOK DEF Init, ImportInit, Types
<1>7. /\ limits \subseteq Copy /\ published = 1
      /\ uploads \in Seq(UploadStatus) /\ wiped \in BOOLEAN /\ importFailures = 0
  <2>1. limits = {Seeded} /\ published = 1 /\ uploads = << >> /\ importFailures = 0
    BY DEF Init, ImportInit
  <2>2. wiped \in BOOLEAN
    BY DEF Init, ImportInit
  <2>3. QED
    BY <1>2, <2>1, <2>2
<1>8. QED
  BY <1>1, <1>3, <1>4, <1>5, <1>6, <1>7, RestingOK, OffOK
     DEF ImportTypes, Importing, Importers

\* The types of what the cycles and the imports keep.
THEOREM MonitoringTypes == Spec => [](CycleTypes /\ ImportTypes)
<1>1. CycleTypes /\ ImportTypes /\ [Next]_vars => (CycleTypes /\ ImportTypes)'
  BY CycleTypesKept, ImportTypesKept
<1>2. QED
  BY <1>1, TypesAtFirst, PTL DEF Spec

\* TypeOK: the variables keep their types, a handler at recording has something
\* to record, and it is at its import exactly while the import is under way.
THEOREM MonitoringTypeOK == Spec => []TypeOK
<1>1. ASSUME CycleTypes, ImportTypes PROVE TypeOK
  <2>1. ImportTypeOK
    <3>1. published \in 1..MaxDate /\ importFailures \in 0..MaxImportFailures
      BY <1>1, ImportAssumption, MonitoringAssumption DEF ImportTypes
    <3>2. Len(uploads) \in Nat
      BY <1>1 DEF ImportTypes
    <3>3. QED
      BY <1>1, <3>1, <3>2 DEF ImportTypeOK, ImportTypes, Types, Importers
  <2>2. \A k \in DOMAIN events : events[k] \in Event
    BY <1>1, EventFields
  <2>3. \A c \in Nightly : /\ cycle[c] \in Cycle /\ cycle[c].todo \subseteq Violation
    BY <1>1 DEF CycleTypes, Cycle, Listed, Violable, Violation
  <2>4. QED
    BY <1>1, <2>1, <2>2, <2>3 DEF TypeOK, CycleTypes, ImportTypes, Cycle
<1>2. QED
  BY <1>1, MonitoringTypes, PTL
-----------------------------------------------------------------------------
(* Twin events.                                                            *)

\* A trigger has at most one open event of a breach, ...
OneEach ==
  \A k, l \in DOMAIN events :
    /\ events[k].open /\ events[l].open
    /\ events[k].key = events[l].key /\ events[k].rule = events[l].rule
    /\ events[k].by \in Nightly /\ events[k].by = events[l].by
    => k = l

\* ... the open events of the triggers are of one time, ...
SameAge ==
  \A k, l \in DOMAIN events :
    /\ events[k].open /\ events[l].open
    /\ events[k].key = events[l].key /\ events[k].rule = events[l].rule
    /\ events[k].by \in Nightly /\ events[l].by \in Nightly
    => events[k].age = events[l].age

\* ... and where a handler is about to record one, it was its look that found
\* none: what is open by now is new, and not its own.
Unseen ==
  \A c \in Nightly, k \in DOMAIN events :
    /\ cycle[c].pc = "record" /\ events[k].open
    /\ events[k].key = Key[NextViolation(c)[1]] /\ events[k].rule = NextViolation(c)[2]
    => events[k].by # c /\ (events[k].by \in Nightly => events[k].age = 0)

TwinsInv == OneEach /\ SameAge /\ Unseen

\* No handler comes to record something.
RecordersStay ==
  \A d \in Nightly : cycle'[d].pc = "record" =>
    cycle[d].pc = "record" /\ cycle'[d].todo = cycle[d].todo

\* The violation at hand depends on the handler's list alone.
LEMMA NextSame ==
  ASSUME NEW d, cycle'[d].todo = cycle[d].todo
  PROVE  NextViolation(d)' = NextViolation(d)
BY DEF NextViolation

\* A step that adds no event and brings no handler to recording keeps TwinsInv.
LEMMA QuietTwins ==
  ASSUME TwinsInv, KeepsEvents, RecordersStay
  PROVE  TwinsInv'
<1>1. OneEach' /\ SameAge'
  BY DEF TwinsInv, OneEach, SameAge, KeepsEvents
<1>2. Unseen'
  <2> SUFFICES ASSUME NEW c \in Nightly, NEW k \in DOMAIN events',
                      cycle'[c].pc = "record", events'[k].open,
                      events'[k].key = Key[NextViolation(c)[1]]',
                      events'[k].rule = (NextViolation(c)[2])'
               PROVE  events'[k].by # c /\ (events'[k].by \in Nightly => events'[k].age = 0)
    BY DEF Unseen
  <2>1. cycle[c].pc = "record" /\ NextViolation(c)' = NextViolation(c)
    BY NextSame DEF RecordersStay
  <2>2. k \in DOMAIN events /\ events[k].open /\ events[k].key = Key[NextViolation(c)[1]]
        /\ events[k].rule = NextViolation(c)[2]
    BY <2>1 DEF KeepsEvents
  <2>3. events[k].by # c /\ (events[k].by \in Nightly => events[k].age = 0)
    BY <2>1, <2>2 DEF TwinsInv, Unseen
  <2>4. QED
    BY <2>2, <2>3 DEF KeepsEvents
<1>3. QED
  BY <1>1, <1>2 DEF TwinsInv

\* A handler comes to record when it finds no open event of the violation, ...
LEMMA LookTwins ==
  ASSUME CycleTypes, TwinsInv, NEW c \in Nightly, LookForEvent(c)
  PROVE  TwinsInv'
<1>1. events' = events /\ KeepsEvents
  BY EventsSame DEF LookForEvent
<1>2. \A d \in Nightly : d # c => cycle'[d] = cycle[d]
  BY LookTurns DEF Turns
<1>3. CASE cycle'[c].pc = "look"
  BY <1>1, <1>2, <1>3, QuietTwins DEF RecordersStay
<1>4. CASE /\ cycle'[c].todo = cycle[c].todo
           /\ ~KnownBreach(NextViolation(c)[1], NextViolation(c)[2])
  <2>1. OneEach' /\ SameAge'
    BY <1>1 DEF TwinsInv, OneEach, SameAge
  <2>2. \A k \in DOMAIN events : events[k].key = Key[NextViolation(c)[1]]
          /\ events[k].rule = NextViolation(c)[2] => ~events[k].open
    BY <1>4 DEF KnownBreach, Blocks
  <2>3. Unseen'
    <3> SUFFICES ASSUME NEW d \in Nightly, NEW k \in DOMAIN events,
                        cycle'[d].pc = "record", events[k].open,
                        events[k].key = Key[NextViolation(d)[1]]',
                        events[k].rule = (NextViolation(d)[2])'
                 PROVE  events[k].by # d /\ (events[k].by \in Nightly => events[k].age = 0)
      BY <1>1 DEF Unseen
    <3>1. NextViolation(d)' = NextViolation(d)
      BY <1>2, <1>4, NextSame
    <3>2. d # c
      BY <2>2, <3>1
    <3>3. cycle[d].pc = "record"
      BY <1>2, <3>2
    <3>4. QED
      BY <3>1, <3>3 DEF TwinsInv, Unseen
  <2>4. QED
    BY <2>1, <2>3 DEF TwinsInv
<1>5. QED
  BY <1>3, <1>4, LookTurns

\* ... and what it then records is a twin of the other trigger's at most.
LEMMA RecordTwins ==
  ASSUME CycleTypes, TwinsInv, NEW c \in Nightly, RecordEvent(c)
  PROVE  TwinsInv'
<1> DEFINE e == NewEvent(NextViolation(c)[1], NextViolation(c)[2], c)
<1>1. /\ \A k \in DOMAIN events : k \in DOMAIN events' /\ events'[k] = events[k]
      /\ \A k \in DOMAIN events' : k \in DOMAIN events \/ events'[k] = e
  BY RecordAdds DEF Adds
<1>2. e.key = Key[NextViolation(c)[1]] /\ e.rule = NextViolation(c)[2] /\ e.by = c /\ e.age = 0
  BY DEF NewEvent
<1>3. \A k \in DOMAIN events :
        events[k].open /\ events[k].key = e.key /\ events[k].rule = e.rule
        => events[k].by # c /\ (events[k].by \in Nightly => events[k].age = 0)
  BY <1>2 DEF RecordEvent, TwinsInv, Unseen
<1>4. DOMAIN events = 1..Len(events) /\ DOMAIN events' = 1..(Len(events) + 1)
      /\ Len(events) \in Nat
  <2>1. events \in Seq(Event) /\ e \in Event /\ events' = Append(events, e)
    BY RecordAdds DEF CycleTypes, RecordEvent
  <2> HIDE DEF e
  <2>2. QED
    BY <2>1, AppendProperties
<1> HIDE DEF e
<1>5. OneEach'
  <2> SUFFICES ASSUME NEW k \in DOMAIN events', NEW l \in DOMAIN events',
                      events'[k].open, events'[l].open,
                      events'[k].key = events'[l].key, events'[k].rule = events'[l].rule,
                      events'[k].by \in Nightly, events'[k].by = events'[l].by
               PROVE  k = l
    BY DEF OneEach
  <2>1. CASE k \in DOMAIN events /\ l \in DOMAIN events
    BY <1>1, <2>1 DEF TwinsInv, OneEach
  <2>2. CASE k \in DOMAIN events /\ l \notin DOMAIN events
    BY <1>1, <1>2, <1>3, <2>2
  <2>3. CASE k \notin DOMAIN events /\ l \in DOMAIN events
    BY <1>1, <1>2, <1>3, <2>3
  <2>4. CASE k \notin DOMAIN events /\ l \notin DOMAIN events
    BY <1>4, <2>4
  <2>5. QED
    BY <2>1, <2>2, <2>3, <2>4
<1>6. SameAge'
  <2> SUFFICES ASSUME NEW k \in DOMAIN events', NEW l \in DOMAIN events',
                      events'[k].open, events'[l].open,
                      events'[k].key = events'[l].key, events'[k].rule = events'[l].rule,
                      events'[k].by \in Nightly, events'[l].by \in Nightly
               PROVE  events'[k].age = events'[l].age
    BY DEF SameAge
  <2>1. CASE k \in DOMAIN events /\ l \in DOMAIN events
    BY <1>1, <2>1 DEF TwinsInv, SameAge
  <2>2. CASE k \in DOMAIN events /\ l \notin DOMAIN events
    BY <1>1, <1>2, <1>3, <2>2
  <2>3. CASE k \notin DOMAIN events /\ l \in DOMAIN events
    BY <1>1, <1>2, <1>3, <2>3
  <2>4. CASE k \notin DOMAIN events /\ l \notin DOMAIN events
    BY <1>1, <2>4
  <2>5. QED
    BY <2>1, <2>2, <2>3, <2>4
<1>7. Unseen'
  <2> SUFFICES ASSUME NEW d \in Nightly, NEW k \in DOMAIN events',
                      cycle'[d].pc = "record", events'[k].open,
                      events'[k].key = Key[NextViolation(d)[1]]',
                      events'[k].rule = (NextViolation(d)[2])'
               PROVE  events'[k].by # d /\ (events'[k].by \in Nightly => events'[k].age = 0)
    BY DEF Unseen
  <2>1. d # c /\ cycle'[d] = cycle[d]
    BY RecordTurns DEF Turns
  <2>2. NextViolation(d)' = NextViolation(d)
    BY <2>1, NextSame
  <2>3. CASE k \in DOMAIN events
    BY <1>1, <2>1, <2>2, <2>3 DEF TwinsInv, Unseen
  <2>4. CASE k \notin DOMAIN events
    BY <1>1, <1>2, <2>1, <2>4
  <2>5. QED
    BY <2>3, <2>4
<1>8. QED
  BY <1>5, <1>6, <1>7 DEF TwinsInv

\* Events of other components are nobody's twins.
LEMMA ForeignTwins ==
  ASSUME CycleTypes, TwinsInv, ForeignEvent
  PROVE  TwinsInv'
<1>1. PICK e \in Event : Adds(e) /\ e.by \notin Nightly
  BY ForeignAdds
<1>2. /\ \A k \in DOMAIN events : k \in DOMAIN events' /\ events'[k] = events[k]
      /\ \A k \in DOMAIN events' : k \in DOMAIN events \/ events'[k] = e
  BY <1>1 DEF Adds
<1>3. OneEach' /\ SameAge'
  BY <1>1, <1>2 DEF TwinsInv, OneEach, SameAge
<1>4. Unseen'
  <2> SUFFICES ASSUME NEW d \in Nightly, NEW k \in DOMAIN events',
                      cycle'[d].pc = "record", events'[k].open,
                      events'[k].key = Key[NextViolation(d)[1]]',
                      events'[k].rule = (NextViolation(d)[2])'
               PROVE  events'[k].by # d /\ (events'[k].by \in Nightly => events'[k].age = 0)
    BY DEF Unseen
  <2>1. cycle' = cycle
    BY DEF ForeignEvent
  <2>2. NextViolation(d)' = NextViolation(d)
    BY <2>1, NextSame
  <2>3. QED
    BY <1>1, <1>2, <2>1, <2>2 DEF TwinsInv, Unseen
<1>5. QED
  BY <1>3, <1>4 DEF TwinsInv

\* Twins age together, and no cycle is left recording when time passes.
LEMMA TickTwins ==
  ASSUME CycleTypes, TwinsInv, Tick
  PROVE  TwinsInv'
<1>1. DOMAIN events' = DOMAIN events /\ \A k \in DOMAIN events : events'[k] = Older(events[k])
  BY TickAges
<1>2. \A k \in DOMAIN events : events[k] \in Event /\ events[k].age \in {0, 1, 2}
  BY EventFields
<1>3. \A k \in DOMAIN events :
        /\ events'[k].key = events[k].key /\ events'[k].rule = events[k].rule
        /\ events'[k].by = events[k].by /\ events'[k].open = events[k].open
  BY <1>1, <1>2, OlderEvent
<1>4. \A k, l \in DOMAIN events : events[k].age = events[l].age =>
        events'[k].age = events'[l].age
  BY <1>1, <1>2, OlderEvent
<1>5. OneEach'
  BY <1>1, <1>3 DEF TwinsInv, OneEach
<1>6. SameAge'
  BY <1>1, <1>3, <1>4 DEF TwinsInv, SameAge
<1>7. \A c \in Nightly : cycle'[c].pc # "record"
  BY DEF Tick, Running
<1>8. QED
  BY <1>5, <1>6, <1>7 DEF TwinsInv, Unseen

\* A step of a cycle that neither looks nor records.
LEMMA OtherTurnsTwins ==
  ASSUME CycleTypes, TwinsInv, NEW c \in Nightly,
         CycleStep(c), ~LookForEvent(c), ~RecordEvent(c)
  PROVE  KeepsEvents /\ RecordersStay
<1>1. ASSUME Turns(c), cycle'[c].pc # "record" PROVE RecordersStay
  BY <1>1 DEF Turns, RecordersStay
<1>2. CASE Fire(c)
  BY <1>1, <1>2, FireTurns, EventsSame DEF Fire
<1>3. CASE Late(c)
  BY <1>3, EventsSame DEF Late, RecordersStay
<1>4. CASE Calculate(c)
  BY <1>1, <1>4, CalculateTurns, EventsSame DEF Calculate
<1>5. CASE SelectPositions(c)
  BY <1>1, <1>5, SelectTurns, EventsSame DEF SelectPositions
<1>6. CASE Notify(c)
  BY <1>1, <1>6, NotifyTurns, NotifyMails
<1>7. CASE FailPosition(c)
  BY <1>1, <1>7, FailPositionTurns, EventsSame DEF FailPosition
<1>8. CASE FailCycle(c)
  BY <1>1, <1>8, OffTurns, EventsSame DEF FailCycle
<1>9. QED
  BY <1>2, <1>3, <1>4, <1>5, <1>6, <1>7, <1>8 DEF CycleStep

\* Imports add no event and record none.
LEMMA ImportTwins ==
  ASSUME CycleTypes, NEW c \in Nightly, BeginImport(c) \/ RunImport(c)
  PROVE  KeepsEvents /\ RecordersStay
<1>1. KeepsEvents
  BY EventsSame DEF BeginImport, RunImport
<1>2. Turns(c) /\ cycle'[c].pc # "record"
  BY BeginTurns, RunTurns DEF RunImport
<1>3. QED
  BY <1>1, <1>2 DEF Turns, RecordersStay

\* Every step keeps TwinsInv.
LEMMA TwinsKept ==
  ASSUME CycleTypes, TwinsInv, [Next]_vars
  PROVE  TwinsInv'
<1>1. ASSUME NEW c \in Nightly, CycleStep(c) PROVE TwinsInv'
  BY <1>1, LookTwins, RecordTwins, OtherTurnsTwins, QuietTwins
<1>2. ASSUME NEW c \in Nightly, BeginImport(c) \/ RunImport(c) PROVE TwinsInv'
  BY <1>2, ImportTwins, QuietTwins
<1>3. CASE Acknowledge
  BY <1>3, AcknowledgeKeeps, QuietTwins DEF Acknowledge, RecordersStay
<1>4. CASE RequestedImport \/ UNCHANGED vars
  <2>1. KeepsEvents /\ RecordersStay
    BY <1>4, EventsSame DEF RequestedImport, monitoringVars, vars, RecordersStay
  <2>2. QED
    BY <2>1, QuietTwins
<1>5. CASE OtherStep
  BY <1>3, <1>4, <1>5, ForeignTwins, TickTwins DEF OtherStep
<1>6. QED
  BY <1>1, <1>2, <1>4, <1>5, StepCases

\* Each trigger has one open event of a breach, those of two triggers are of one
\* time, and who is about to record has no open event of its own.
THEOREM TwinsInvariant == Spec => []TwinsInv
<1>1. Init => TwinsInv
  <2>1. Init => DOMAIN events = {}
    BY DEF Init
  <2>2. QED
    BY <2>1 DEF TwinsInv, OneEach, SameAge, Unseen
<1>2. CycleTypes /\ TwinsInv /\ [Next]_vars => TwinsInv'
  BY TwinsKept
<1>3. Spec => []CycleTypes
  BY MonitoringTypes, PTL
<1>4. QED
  BY <1>1, <1>2, <1>3, PTL DEF Spec

\* A set without two elements has no more than one.
LEMMA AtMostOne ==
  ASSUME NEW S, \A x, y \in S : x = y
  PROVE  Cardinality(S) <= 1
<1>1. CASE S = {}
  BY <1>1, FS_EmptySet
<1>2. CASE S # {}
  <2>1. PICK x : S = {x}
    BY <1>2
  <2>2. Cardinality(S) = 1
    BY <2>1, FS_Singleton
  <2>3. QED
    BY <2>2
<1>3. QED
  BY <1>1, <1>2

\* TwinsAtMost: though looking for an open event and recording one are two
\* statements of handlers that run side by side, a trigger has at most one open
\* event of a breach, and two triggers' are of one time.
THEOREM TwinsOnly == Spec => []TwinsAtMost
<1>1. ASSUME TwinsInv PROVE TwinsAtMost
  <2> SUFFICES ASSUME NEW key \in Keys, NEW rule \in Rules, NEW c \in Nightly
               PROVE  /\ Cardinality({k \in OpenEvents(key, rule) : events[k].by = c}) <= 1
                      /\ \A k, l \in OpenEvents(key, rule) :
                           k # l /\ {events[k].by, events[l].by} \subseteq Nightly =>
                             events[k].age = events[l].age
    BY DEF TwinsAtMost
  <2> DEFINE S == {k \in OpenEvents(key, rule) : events[k].by = c}
  <2>1. \A k, l \in S : k = l
    BY <1>1 DEF OpenEvents, TwinsInv, OneEach
  <2> HIDE DEF S
  <2>2. Cardinality(S) <= 1
    BY <2>1, AtMostOne
  <2>3. \A k, l \in OpenEvents(key, rule) :
          {events[k].by, events[l].by} \subseteq Nightly => events[k].age = events[l].age
    BY <1>1 DEF OpenEvents, TwinsInv, SameAge
  <2>4. QED
    BY <2>2, <2>3 DEF S
<1>2. QED
  BY <1>1, TwinsInvariant, PTL
-----------------------------------------------------------------------------
(* The position limit before the accountability level.                     *)

\* A position limit is on record for the key.
LimitOnRecord(key) ==
  \E j \in DOMAIN events : events[j].key = key /\ events[j].rule.type = "position_limit"

\* What is on record, and what a handler has yet to look at: for each violation
\* of an accountability level, that of a position limit is on the list as well,
\* of the same row, or on record.
CriticalInv ==
  /\ CriticalBeforeHigh
  /\ \A c \in Nightly : \A v \in cycle[c].todo :
       v[2].type # "position_limit" =>
         \/ \E w \in cycle[c].todo : SameRow(v, w) /\ w[2].type = "position_limit"
         \/ LimitOnRecord(Key[v[1]])

\* The check of a row that reports an accountability level reports a position
\* limit, too: otherwise it calls the position compliant.
LEMMA FoundTogether ==
  ASSUME NEW v \in AllFound, v[2].type # "position_limit"
  PROVE  \E w \in AllFound : SameRow(v, w) /\ w[2].type = "position_limit"
<1> DEFINE n == lots[v[1]]
           R == ApplicableRules(v[1], v[3])
<1>1. /\ v \in Violation /\ Selected(v[1], n) /\ v[3] \in JoinedExchanges(v[1])
      /\ v[2] \in Reported(v[1], v[3], n)
  BY DEF AllFound, Found
<1>2. Reported(v[1], v[3], n) = Violations(R, n) /\ Critical(R, n) # {}
  BY <1>1 DEF Reported, Compliant
<1>3. PICK r \in R : r \in Critical(R, n) /\ r.type = "position_limit"
  BY <1>2 DEF Critical
<1>4. r \in Reported(v[1], v[3], n)
  BY <1>2, <1>3 DEF Violations
<1>5. v[1] \in Positions /\ v[3] \in Joined
  BY <1>1 DEF Violation
<1>6. r \in Rules
  BY <1>3, <1>5 DEF ApplicableRules, Rules
<1> DEFINE w == <<v[1], r, v[3]>>
<1>7. w \in Violation
  BY <1>5, <1>6 DEF Violation
<1>8. w \in AllFound
  BY <1>1, <1>4, <1>7 DEF AllFound, Found
<1>9. SameRow(v, w) /\ w[2].type = "position_limit"
  BY <1>3 DEF SameRow
<1>10. QED
  BY <1>8, <1>9

\* Each handler's list is empty, or as it was, or the same but for what may be
\* taken off it.
ListsStay ==
  \A c \in Nightly : \A v \in cycle'[c].todo :
    /\ v \in cycle[c].todo
    /\ \A w \in cycle[c].todo : SameRow(v, w) /\ w[2].type = "position_limit" =>
         w \in cycle'[c].todo \/ LimitOnRecord(Key[v[1]])'

\* A step that adds no event.
LEMMA QuietCritical ==
  ASSUME CriticalInv, KeepsEvents, ListsStay
  PROVE  CriticalInv'
<1>1. CriticalBeforeHigh'
  BY DEF CriticalInv, CriticalBeforeHigh, KeepsEvents
<1>2. \A key : LimitOnRecord(key) => LimitOnRecord(key)'
  BY DEF LimitOnRecord, KeepsEvents
<1>3. QED
  BY <1>1, <1>2 DEF CriticalInv, ListsStay

\* A step of one handler, whose list is emptied or stays as it is.
LEMMA ListStays ==
  ASSUME NEW c \in Nightly, Turns(c), cycle'[c].todo \in {cycle[c].todo, {}}
  PROVE  ListsStay
BY DEF Turns, ListsStay

\* The violation next to be handled, when an accountability level's, has its
\* position limit on record: it would come first.
LEMMA LimitFirst ==
  ASSUME CycleTypes, CriticalInv, NEW c \in Nightly, cycle[c].todo # {},
         NextViolation(c)[2].type # "position_limit"
  PROVE  LimitOnRecord(Key[NextViolation(c)[1]])
<1>1. /\ NextViolation(c) \in cycle[c].todo
      /\ \A w \in cycle[c].todo :
           SameRow(NextViolation(c), w) => Before(NextViolation(c)[2], w[2])
  BY NextIsListed
<1>2. \A w \in cycle[c].todo : SameRow(NextViolation(c), w) => w[2].type # "position_limit"
  BY <1>1 DEF Before
<1>3. QED
  BY <1>1, <1>2 DEF CriticalInv

\* A known breach is taken off the list, its event is there.
LEMMA LookCritical ==
  ASSUME CycleTypes, CriticalInv, NEW c \in Nightly, LookForEvent(c)
  PROVE  CriticalInv'
<1> DEFINE v == NextViolation(c)
<1>1. events' = events /\ KeepsEvents
  BY EventsSame DEF LookForEvent
<1>2. CASE cycle'[c].todo = cycle[c].todo
  BY <1>1, <1>2, LookTurns, ListStays, QuietCritical
<1>3. CASE cycle'[c].todo = cycle[c].todo \ {v} /\ KnownBreach(v[1], v[2])
  <2>1. \A key : key = Key[v[1]] /\ v[2].type = "position_limit" => LimitOnRecord(key)'
    BY <1>1, <1>3 DEF KnownBreach, LimitOnRecord
  <2>2. \A w : SameRow(w, v) => w[1] = v[1]
    BY DEF SameRow
  <2> HIDE DEF v
  <2>3. ListsStay
    BY <1>3, <2>1, <2>2, LookTurns DEF ListsStay, Turns
  <2>4. QED
    BY <1>1, <2>3, QuietCritical
<1>4. QED
  BY <1>2, <1>3, LookTurns

\* What is recorded comes after the events there are.
LEMMA RecordCritical ==
  ASSUME CycleTypes, CriticalInv, NEW c \in Nightly, RecordEvent(c)
  PROVE  CriticalInv'
<1> DEFINE v == NextViolation(c)
           e == NewEvent(v[1], v[2], c)
<1>1. /\ \A k \in DOMAIN events : k \in DOMAIN events' /\ events'[k] = events[k]
      /\ \A k \in DOMAIN events' : k \in DOMAIN events \/ events'[k] = e
  BY RecordAdds DEF Adds
<1>2. e.key = Key[v[1]] /\ e.rule = v[2] /\ e.by = c
  BY DEF NewEvent
<1>3. /\ DOMAIN events = 1..Len(events) /\ DOMAIN events' = 1..(Len(events) + 1)
      /\ Len(events) \in Nat /\ events'[Len(events) + 1] = e
  <2>1. events \in Seq(Event) /\ e \in Event /\ events' = Append(events, e)
    BY RecordAdds DEF CycleTypes, RecordEvent
  <2> HIDE DEF e
  <2>2. QED
    BY <2>1, AppendProperties
<1>4. v[2].type # "position_limit" => LimitOnRecord(Key[v[1]])
  BY LimitFirst DEF CycleTypes, RecordEvent
<1>5. Turns(c) /\ cycle'[c].todo = cycle[c].todo \ {v}
  BY RecordTurns
<1>6. \A w : SameRow(w, v) => w[1] = v[1]
  BY DEF SameRow
<1> HIDE DEF v, e
<1>7. \A key : LimitOnRecord(key) => LimitOnRecord(key)'
  BY <1>1 DEF LimitOnRecord
<1>8. \A key : key = Key[v[1]] /\ v[2].type = "position_limit" => LimitOnRecord(key)'
  BY <1>2, <1>3 DEF LimitOnRecord
<1>9. CriticalBeforeHigh'
  <2> SUFFICES ASSUME NEW k \in DOMAIN events', events'[k].by \in Nightly,
                      events'[k].rule.type # "position_limit"
               PROVE  \E j \in 1..(k - 1) : /\ events'[j].key = events'[k].key
                                            /\ events'[j].rule.type = "position_limit"
    BY DEF CriticalBeforeHigh
  <2>1. CASE k \in DOMAIN events
    <3>1. PICK j \in 1..(k - 1) : /\ events[j].key = events[k].key
                                  /\ events[j].rule.type = "position_limit"
      BY <1>1, <2>1 DEF CriticalInv, CriticalBeforeHigh
    <3>2. j \in DOMAIN events
      BY <1>3, <2>1, <3>1
    <3>3. QED
      BY <1>1, <2>1, <3>1, <3>2
  <2>2. CASE k \notin DOMAIN events
    <3>1. k = Len(events) + 1 /\ events'[k] = e
      BY <1>3, <2>2
    <3>2. LimitOnRecord(e.key)
      BY <1>2, <1>4, <3>1
    <3>3. PICK j \in DOMAIN events : events[j].key = e.key
                                     /\ events[j].rule.type = "position_limit"
      BY <3>2 DEF LimitOnRecord
    <3>4. j \in 1..(k - 1) /\ events'[j] = events[j]
      BY <1>1, <1>3, <3>1, <3>3
    <3>5. QED
      BY <3>1, <3>3, <3>4
  <2>3. QED
    BY <2>1, <2>2
<1>10. ASSUME NEW d \in Nightly, NEW u \in cycle'[d].todo, u[2].type # "position_limit"
       PROVE  \/ \E w \in cycle'[d].todo : SameRow(u, w) /\ w[2].type = "position_limit"
              \/ LimitOnRecord(Key[u[1]])'
  <2>1. u \in cycle[d].todo
    BY <1>5, <1>10 DEF Turns
  <2>2. CASE LimitOnRecord(Key[u[1]])
    BY <1>7, <2>2
  <2>3. CASE \E w \in cycle[d].todo : SameRow(u, w) /\ w[2].type = "position_limit"
    <3>1. PICK w \in cycle[d].todo : SameRow(u, w) /\ w[2].type = "position_limit"
      BY <2>3
    <3>2. CASE w \in cycle'[d].todo
      BY <3>1, <3>2
    <3>3. CASE w \notin cycle'[d].todo
      <4>1. w = v
        BY <1>5, <3>1, <3>3 DEF Turns
      <4>2. QED
        BY <1>6, <1>8, <3>1, <4>1
    <3>4. QED
      BY <3>2, <3>3
  <2>4. QED
    BY <1>10, <2>1, <2>2, <2>3 DEF CriticalInv
<1>11. QED
  BY <1>9, <1>10 DEF CriticalInv

\* A row that fails is dropped as a whole.
LEMMA FailCritical ==
  ASSUME CycleTypes, CriticalInv, NEW c \in Nightly, FailPosition(c)
  PROVE  CriticalInv'
<1> DEFINE n == NextViolation(c)
<1>1. Turns(c) /\ cycle'[c].todo = {v \in cycle[c].todo : ~SameRow(v, n)}
  BY FailPositionTurns
<1> HIDE DEF n
<1>2. ListsStay
  BY <1>1 DEF ListsStay, Turns, SameRow
<1>3. KeepsEvents
  BY EventsSame DEF FailPosition
<1>4. QED
  BY <1>2, <1>3, QuietCritical

\* The steps of a cycle keep CriticalInv, ...
LEMMA CycleStepCritical ==
  ASSUME CycleTypes, CriticalInv, NEW c \in Nightly, CycleStep(c)
  PROVE  CriticalInv'
<1>1. ASSUME Turns(c), cycle'[c].todo \in {cycle[c].todo, {}}, KeepsEvents
      PROVE  CriticalInv'
  BY <1>1, ListStays, QuietCritical
<1>2. CASE Fire(c)
  BY <1>1, <1>2, FireTurns, EventsSame DEF Fire
<1>3. CASE Late(c)
  BY <1>3, QuietCritical, EventsSame DEF Late, ListsStay
<1>4. CASE Calculate(c)
  BY <1>1, <1>4, CalculateTurns, EventsSame DEF Calculate
<1>5. CASE SelectPositions(c)
  <2>1. /\ events' = events /\ Turns(c) /\ cycle'[c].todo = AllFound
    BY <1>5, SelectTurns DEF SelectPositions
  <2>2. CriticalBeforeHigh' /\ \A key : LimitOnRecord(key)' <=> LimitOnRecord(key)
    BY <2>1 DEF CriticalInv, CriticalBeforeHigh, LimitOnRecord
  <2>3. \A v \in cycle'[c].todo : v[2].type # "position_limit" =>
          \E w \in cycle'[c].todo : SameRow(v, w) /\ w[2].type = "position_limit"
    BY <2>1, FoundTogether
  <2>4. QED
    BY <2>1, <2>2, <2>3 DEF CriticalInv, Turns
<1>6. CASE Notify(c)
  BY <1>1, <1>6, NotifyTurns, NotifyMails
<1>7. CASE FailCycle(c)
  BY <1>1, <1>7, OffTurns, EventsSame DEF FailCycle
<1>8. QED
  BY <1>2, <1>3, <1>4, <1>5, <1>6, <1>7, LookCritical, RecordCritical, FailCritical
     DEF CycleStep

\* ... as does every other step.
LEMMA CriticalKept ==
  ASSUME CycleTypes, CriticalInv, [Next]_vars
  PROVE  CriticalInv'
<1>1. ASSUME NEW c \in Nightly, BeginImport(c) \/ RunImport(c) PROVE CriticalInv'
  <2>1. KeepsEvents
    BY <1>1, EventsSame DEF BeginImport, RunImport
  <2>2. Turns(c) /\ cycle'[c].todo \in {cycle[c].todo, {}}
    BY <1>1, BeginTurns, RunTurns
  <2>3. QED
    BY <2>1, <2>2, ListStays, QuietCritical
<1>2. CASE RequestedImport \/ UNCHANGED vars
  <2>1. KeepsEvents /\ ListsStay
    BY <1>2, EventsSame DEF RequestedImport, monitoringVars, vars, ListsStay
  <2>2. QED
    BY <2>1, QuietCritical
<1>3. CASE Acknowledge
  <2>1. KeepsEvents /\ ListsStay
    BY <1>3, AcknowledgeKeeps DEF Acknowledge, ListsStay
  <2>2. QED
    BY <2>1, QuietCritical
<1>4. CASE Tick
  <2>1. DOMAIN events' = DOMAIN events /\ \A k \in DOMAIN events :
          events'[k].key = events[k].key /\ events'[k].rule = events[k].rule
          /\ events'[k].by = events[k].by
    BY <1>4, TickAges, EventFields, OlderEvent
  <2>2. DOMAIN events = 1..Len(events) /\ Len(events) \in Nat
    BY DEF CycleTypes
  <2>3. \A k \in DOMAIN events : \A j \in 1..(k - 1) : j \in DOMAIN events
    BY <2>2
  <2>4. CriticalBeforeHigh' /\ \A key : LimitOnRecord(key)' <=> LimitOnRecord(key)
    BY <2>1, <2>3 DEF CriticalInv, CriticalBeforeHigh, LimitOnRecord
  <2>5. cycle' = cycle
    BY <1>4 DEF Tick
  <2>6. QED
    BY <2>4, <2>5 DEF CriticalInv
<1>5. CASE ForeignEvent
  <2>1. PICK pos \in Positions, rule \in Rules :
          events' = Append(events, NewEvent(pos, rule, "pre-trade"))
    BY <1>5 DEF ForeignEvent, Rules
  <2> DEFINE e == NewEvent(pos, rule, "pre-trade")
  <2>2. e \in Event /\ e.by \notin Nightly
    BY MonitoringAssumption, NewEventOK DEF Sources
  <2> HIDE DEF e
  <2>3. /\ DOMAIN events = 1..Len(events) /\ DOMAIN events' = 1..(Len(events) + 1)
        /\ Len(events) \in Nat /\ events'[Len(events) + 1] = e
        /\ \A k \in DOMAIN events : events'[k] = events[k]
    BY <2>1, <2>2, AppendProperties DEF CycleTypes, e
  <2>4. \A k \in DOMAIN events : \A j \in 1..(k - 1) : j \in DOMAIN events
    BY <2>3
  <2>5. \A k \in DOMAIN events' : k \in DOMAIN events \/ events'[k] = e
    BY <2>3
  <2>6. \A k \in DOMAIN events : k \in DOMAIN events'
    BY <2>3
  <2>7. CriticalBeforeHigh'
    BY <2>2, <2>3, <2>4, <2>5 DEF CriticalInv, CriticalBeforeHigh
  <2>8. \A key : LimitOnRecord(key) => LimitOnRecord(key)'
    BY <2>3, <2>6 DEF LimitOnRecord
  <2>9. cycle' = cycle
    BY <1>5 DEF ForeignEvent
  <2>10. QED
    BY <2>7, <2>8, <2>9 DEF CriticalInv
<1>6. QED
  BY <1>1, <1>2, <1>3, <1>4, <1>5, CycleStepCritical, StepCases DEF OtherStep

\* CriticalBeforeHigh: whatever fails between the statements of a cycle, no
\* accountability level is on record of it without a position limit before it.
THEOREM CriticalFirst == Spec => []CriticalBeforeHigh
<1>1. Init => CriticalInv
  <2>1. Init => DOMAIN events = {}
    BY DEF Init
  <2>2. Init => \A c \in Nightly : cycle[c] = Off
    BY DEF Init
  <2>3. QED
    BY <2>1, <2>2, OffOK DEF CriticalInv, CriticalBeforeHigh
<1>2. CycleTypes /\ CriticalInv /\ [Next]_vars => CriticalInv'
  BY CriticalKept
<1>3. CriticalInv => CriticalBeforeHigh
  BY DEF CriticalInv
<1>4. Spec => []CycleTypes
  BY MonitoringTypes, PTL
<1>5. QED
  BY <1>1, <1>2, <1>3, <1>4, PTL DEF Spec
-----------------------------------------------------------------------------
(* The notifications.                                                      *)

\* Trigger c, of those yet to be delivered and the handlers' variables, has yet
\* to notify.
Waits(c, toDeliver, handlers) ==
  c \in toDeliver \/ handlers[c].pc \in {"calculate", "select", "look", "record"}

OtherWaits(toDeliver, handlers) ==
  \E d \in Nightly \ {Quarterly} : Waits(d, toDeliver, handlers)

One(condition) == IF condition THEN 1 ELSE 0

\* How many there are of them, of the two that may be.
Waiting(toDeliver, handlers) ==
  One(Waits(Quarterly, toDeliver, handlers)) + One(OtherWaits(toDeliver, handlers))

\* A condition counts as one or nothing.
LEMMA OneType == \A b \in BOOLEAN : One(b) \in {0, 1} /\ (b <=> One(b) = 1)
BY DEF One

\* No more than two triggers wait, and none does when neither has to.
LEMMA WaitingType ==
  ASSUME NEW u, NEW y
  PROVE  /\ Waiting(u, y) \in {0, 1, 2}
         /\ ~OtherWaits(u, y) => Waiting(u, y) \in {0, 1}
         /\ ~OtherWaits(u, y) /\ ~Waits(Quarterly, u, y) => Waiting(u, y) = 0
<1> DEFINE a == Waits(Quarterly, u, y)
           b == OtherWaits(u, y)
<1>1. a \in BOOLEAN /\ b \in BOOLEAN
  BY DEF Waits, OtherWaits
<1>2. Waiting(u, y) = One(a) + One(b)
  BY DEF Waiting
<1>3. b <=> OtherWaits(u, y)
  OBVIOUS
<1>4. a <=> Waits(Quarterly, u, y)
  OBVIOUS
<1> HIDE DEF a, b
<1>5. QED
  BY <1>1, <1>2, <1>3, <1>4, OneType

\* When none begins to wait, no more wait; and one fewer if one has done.
LEMMA NoMoreWait ==
  ASSUME NEW u, NEW y, NEW v, NEW z, \A d \in Nightly : Waits(d, v, z) => Waits(d, u, y)
  PROVE  /\ Waiting(v, z) <= Waiting(u, y)
         /\ \A c \in Nightly : Waits(c, u, y) /\ ~Waits(c, v, z) =>
              Waiting(v, z) + 1 <= Waiting(u, y)
<1> DEFINE a == Waits(Quarterly, u, y)
           b == OtherWaits(u, y)
           e == Waits(Quarterly, v, z)
           f == OtherWaits(v, z)
<1>1. a \in BOOLEAN /\ b \in BOOLEAN /\ e \in BOOLEAN /\ f \in BOOLEAN
  BY DEF Waits, OtherWaits
<1>2. Waiting(u, y) = One(a) + One(b) /\ Waiting(v, z) = One(e) + One(f)
  BY DEF Waiting
<1>3. (e => a) /\ (f => b)
  BY MonitoringAssumption DEF OtherWaits
<1>4. \A c \in Nightly : Waits(c, u, y) /\ ~Waits(c, v, z) => (a /\ ~e) \/ (b /\ ~f)
  BY MonitoringAssumption DEF OtherWaits
<1> HIDE DEF a, b, e, f
<1>5. One(e) <= One(a) /\ One(f) <= One(b)
  BY <1>1, <1>3, OneType
<1>6. (a /\ ~e => One(e) + 1 <= One(a)) /\ (b /\ ~f => One(f) + 1 <= One(b))
  BY <1>1, OneType
<1>7. One(a) \in {0, 1} /\ One(b) \in {0, 1} /\ One(e) \in {0, 1} /\ One(f) \in {0, 1}
  BY <1>1, OneType
<1>8. Waiting(v, z) <= Waiting(u, y)
  BY <1>2, <1>5, <1>7
<1>9. (a /\ ~e) \/ (b /\ ~f) => Waiting(v, z) + 1 <= Waiting(u, y)
  BY <1>2, <1>5, <1>6, <1>7
<1>10. QED
  BY <1>4, <1>8, <1>9

\* A trigger is delivered at its hour only, and its handler starts once.
TurnInv ==
  \A c \in Nightly :
    /\ c \in due => ~Running(c)
    /\ c \in due \/ Running(c) => c \in Delivered(clock)

\* An open critical event without a mail: there was a miss, or its cycle has
\* yet to notify; a quarter of an hour later there was one, and there were two
\* or the next cycle has yet to notify.
MissedInv ==
  \A k \in DOMAIN events :
    /\ events[k].open /\ events[k].by \in Nightly
    /\ events[k].rule.type = "position_limit" /\ events[k].mails = 0
    => /\ events[k].age = 0 =>
            misses >= 1 \/ cycle[events[k].by].pc \in {"look", "record"}
       /\ events[k].age = 1 =>
            misses >= 2 \/ (misses >= 1 /\ Waits(Quarterly, due, cycle))

\* The mails of a new event and those who wait are no more than the triggers
\* of the tick; a quarter of an hour later, than three.
MailsInv ==
  \A k \in DOMAIN events :
    /\ events[k].age = 0 =>
         events[k].mails + Waiting(due, cycle) <= (IF clock = 0 THEN 2 ELSE 1)
    /\ events[k].age = 1 => events[k].mails + Waiting(due, cycle) <= 3
    /\ events[k].age = 2 => events[k].mails = 0

NotifyInv == TurnInv /\ MissedInv /\ MailsInv

\* No trigger comes to wait.
WaitersStay == \A d \in Nightly : Waits(d, due', cycle') => Waits(d, due, cycle)

\* A cycle that has yet to notify goes on to.
CycleGoesOn ==
  /\ \A d \in Nightly : cycle[d].pc \in {"look", "record"} => cycle'[d].pc \in {"look", "record"}
  /\ Waits(Quarterly, due, cycle) => Waits(Quarterly, due', cycle')

MailsStay == \A k \in DOMAIN events : events'[k].mails = events[k].mails

\* A step without mails after which no trigger begins to wait keeps MailsInv.
LEMMA MailsFewer ==
  ASSUME CycleTypes, MailsInv, KeepsEvents, MailsStay, WaitersStay, clock' = clock
  PROVE  MailsInv'
<1>1. Waiting(due', cycle') <= Waiting(due, cycle)
  BY NoMoreWait DEF WaitersStay
<1>2. Waiting(due', cycle') \in {0, 1, 2} /\ Waiting(due, cycle) \in {0, 1, 2}
  BY WaitingType
<1> SUFFICES ASSUME NEW k \in DOMAIN events'
             PROVE  /\ events'[k].age = 0 =>
                         events'[k].mails + Waiting(due', cycle') <=
                           (IF clock' = 0 THEN 2 ELSE 1)
                    /\ events'[k].age = 1 => events'[k].mails + Waiting(due', cycle') <= 3
                    /\ events'[k].age = 2 => events'[k].mails = 0
  BY DEF MailsInv
<1>3. /\ k \in DOMAIN events /\ events[k].mails \in Nat
      /\ events'[k].mails = events[k].mails /\ events'[k].age = events[k].age
  BY EventFields DEF KeepsEvents, MailsStay
<1>4. /\ events[k].age = 0 =>
           events[k].mails + Waiting(due, cycle) <= (IF clock = 0 THEN 2 ELSE 1)
      /\ events[k].age = 1 => events[k].mails + Waiting(due, cycle) <= 3
      /\ events[k].age = 2 => events[k].mails = 0
  BY <1>3 DEF MailsInv
<1> DEFINE bound == IF clock = 0 THEN 2 ELSE 1
<1>5. bound \in Nat
  OBVIOUS
<1>6. bound = (IF clock' = 0 THEN 2 ELSE 1) /\ bound = (IF clock = 0 THEN 2 ELSE 1)
  OBVIOUS
<1> HIDE DEF bound
<1>7. QED
  BY <1>1, <1>2, <1>3, <1>4, <1>5, <1>6

\* A step after which more was missed, or every cycle that has to goes on to notify.
LEMMA MissedStays ==
  ASSUME CycleTypes, MissedInv, KeepsEvents, MailsStay, misses' \in Nat,
         misses' > misses \/ (misses' = misses /\ CycleGoesOn)
  PROVE  MissedInv'
<1> SUFFICES ASSUME NEW k \in DOMAIN events', events'[k].open, events'[k].by \in Nightly,
                    events'[k].rule.type = "position_limit", events'[k].mails = 0
             PROVE  /\ events'[k].age = 0 =>
                         misses' >= 1 \/ cycle'[events'[k].by].pc \in {"look", "record"}
                    /\ events'[k].age = 1 =>
                         misses' >= 2 \/ (misses' >= 1 /\ Waits(Quarterly, due', cycle'))
  BY DEF MissedInv
<1>1. /\ k \in DOMAIN events /\ events[k].open /\ events[k].by \in Nightly
      /\ events[k].rule.type = "position_limit" /\ events[k].mails = 0
      /\ events'[k].age = events[k].age /\ events'[k].by = events[k].by
  BY DEF KeepsEvents, MailsStay
<1>2. misses \in Nat
  BY DEF CycleTypes
<1>3. /\ events[k].age = 0 =>
           misses >= 1 \/ cycle[events[k].by].pc \in {"look", "record"}
      /\ events[k].age = 1 =>
           misses >= 2 \/ (misses >= 1 /\ Waits(Quarterly, due, cycle))
  BY <1>1 DEF MissedInv
<1>4. CASE misses' > misses
  BY <1>1, <1>2, <1>3, <1>4
<1>5. CASE misses' = misses /\ CycleGoesOn
  BY <1>1, <1>3, <1>5 DEF CycleGoesOn
<1>6. QED
  BY <1>4, <1>5

\* A step of c's handler, which was running, is still one of this tick.
LEMMA TurnStays ==
  ASSUME TurnInv, NEW c \in Nightly, Turns(c), Running(c), UNCHANGED <<due, clock>>
  PROVE  TurnInv'
<1>1. \A d \in Nightly : d # c => (Running(d)' <=> Running(d))
  BY DEF Turns, Running
<1>2. c \notin due /\ c \in Delivered(clock)
  BY DEF TurnInv
<1>3. QED
  BY <1>1, <1>2 DEF TurnInv, Delivered

\* A step of c's handler within its cycle.
LEMMA Within ==
  ASSUME NEW c \in Nightly, Turns(c), due' = due,
         cycle[c].pc \in {"calculate", "select", "look", "record"},
         cycle'[c].pc \in {"select", "look", "record"},
         cycle[c].pc \in {"look", "record"} => cycle'[c].pc \in {"look", "record"}
  PROVE  WaitersStay /\ CycleGoesOn
BY MonitoringAssumption DEF Turns, WaitersStay, CycleGoesOn, Waits

\* The steps keep NotifyInv: a trigger in time goes from due to under way, ...
LEMMA FireNotify ==
  ASSUME CycleTypes, NotifyInv, NEW c \in Nightly, Fire(c)
  PROVE  NotifyInv'
<1>1. /\ c \in due /\ ~Running(c) /\ due' = due \ {c}
      /\ UNCHANGED <<clock, misses, events>>
  BY DEF Fire, UnchangedBook
<1>2. Turns(c) /\ cycle'[c].pc = "calculate"
  BY FireTurns
<1>3. TurnInv'
  BY <1>1, <1>2 DEF TurnInv, NotifyInv, Turns, Running, Delivered
<1>4. WaitersStay /\ CycleGoesOn
  BY <1>1, <1>2, MonitoringAssumption DEF Turns, WaitersStay, CycleGoesOn, Waits, Running
<1>5. KeepsEvents /\ MailsStay /\ misses' \in Nat /\ misses' = misses
  BY <1>1, EventsSame DEF MailsStay, CycleTypes
<1>6. QED
  BY <1>1, <1>3, <1>4, <1>5, MailsFewer, MissedStays DEF NotifyInv

\* ... one that is late counts as a miss, ...
LEMMA LateNotify ==
  ASSUME CycleTypes, NotifyInv, NEW c \in Nightly, Late(c)
  PROVE  NotifyInv'
<1>1. /\ due' = due \ {c} /\ misses' = misses + 1
      /\ UNCHANGED <<clock, cycle, events>>
  BY DEF Late, UnchangedBook
<1>2. TurnInv' /\ WaitersStay
  BY <1>1 DEF TurnInv, NotifyInv, Running, Delivered, WaitersStay, Waits
<1>3. KeepsEvents /\ MailsStay /\ misses' \in Nat /\ misses' > misses
  BY <1>1, EventsSame DEF MailsStay, CycleTypes
<1>4. QED
  BY <1>1, <1>2, <1>3, MailsFewer, MissedStays DEF NotifyInv

\* The steps between.
LEMMA WithinNotify ==
  ASSUME CycleTypes, NotifyInv, NEW c \in Nightly,
         Calculate(c) \/ SelectPositions(c) \/ LookForEvent(c)
  PROVE  NotifyInv'
<1>1. UNCHANGED <<due, clock, misses, events>>
  BY DEF Calculate, SelectPositions, LookForEvent, UnchangedBook
<1>2. Turns(c) /\ Running(c) /\ WaitersStay /\ CycleGoesOn
  <2>1. CASE Calculate(c)
    BY <1>1, <2>1, CalculateTurns, Within DEF Calculate, Running
  <2>2. CASE SelectPositions(c)
    BY <1>1, <2>2, SelectTurns, Within DEF SelectPositions, Running
  <2>3. CASE LookForEvent(c)
    BY <1>1, <2>3, LookTurns, Within DEF LookForEvent, Running
  <2>4. QED
    BY <2>1, <2>2, <2>3
<1>3. KeepsEvents /\ MailsStay /\ misses' \in Nat /\ misses' = misses
  BY <1>1, EventsSame DEF MailsStay, CycleTypes
<1>4. QED
  BY <1>1, <1>2, <1>3, TurnStays, MailsFewer, MissedStays DEF NotifyInv

\* ... as does a cycle that fails, ...
LEMMA FailNotify ==
  ASSUME CycleTypes, NotifyInv, NEW c \in Nightly, FailPosition(c) \/ FailCycle(c)
  PROVE  NotifyInv'
<1>1. UNCHANGED <<due, clock, events>> /\ misses' = misses + 1
  BY DEF FailPosition, FailCycle, UnchangedBook
<1>2. Turns(c) /\ Running(c) /\ WaitersStay
  <2>1. CASE FailPosition(c)
    BY <1>1, <2>1, FailPositionTurns, Within DEF FailPosition, Running
  <2>2. CASE FailCycle(c)
    BY <1>1, <2>2, OffTurns DEF FailCycle, Running, WaitersStay, Waits, Turns
  <2>3. QED
    BY <2>1, <2>2
<1>3. KeepsEvents /\ MailsStay /\ misses' \in Nat /\ misses' > misses
  BY <1>1, EventsSame DEF MailsStay, CycleTypes
<1>4. QED
  BY <1>1, <1>2, <1>3, TurnStays, MailsFewer, MissedStays DEF NotifyInv

\* ... imports come after the mails, ...
LEMMA ImportNotify ==
  ASSUME CycleTypes, NotifyInv, NEW c \in Nightly, BeginImport(c) \/ RunImport(c)
  PROVE  NotifyInv'
<1>1. UNCHANGED <<due, clock, misses, events>>
  BY DEF BeginImport, RunImport, UnchangedBook
<1>2. /\ Turns(c) /\ Running(c) /\ cycle[c].pc \in {"import", "importing"}
      /\ cycle'[c].pc \in {"importing", "off"}
  BY BeginTurns, RunTurns DEF BeginImport, RunImport, Running
<1>3. WaitersStay /\ CycleGoesOn
  BY <1>1, <1>2, MonitoringAssumption DEF Turns, WaitersStay, CycleGoesOn, Waits
<1>4. KeepsEvents /\ MailsStay /\ misses' \in Nat /\ misses' = misses
  BY <1>1, EventsSame DEF MailsStay, CycleTypes
<1>5. QED
  BY <1>1, <1>2, <1>3, <1>4, TurnStays, MailsFewer, MissedStays DEF NotifyInv

\* How many may wait within a tick.
LEMMA WaitingBound ==
  ASSUME TurnInv
  PROVE  /\ Waiting(due, cycle) <= (IF clock = 0 THEN 2 ELSE 1)
         /\ Waiting(due, cycle) \in {0, 1, 2}
<1>1. clock # 0 => ~OtherWaits(due, cycle)
  BY DEF TurnInv, OtherWaits, Waits, Running, Delivered
<1>2. QED
  BY <1>1, WaitingType

\* An event that is added without a mail.
LEMMA AddedNotify ==
  ASSUME CycleTypes, NotifyInv, NEW e \in Event, Adds(e), e.age = 0, e.mails = 0,
         UNCHANGED <<due, clock, misses>>, TurnInv', WaitersStay, CycleGoesOn,
         e.by \in Nightly => cycle'[e.by].pc \in {"look", "record"}
  PROVE  NotifyInv'
<1>1. /\ \A k \in DOMAIN events : k \in DOMAIN events' /\ events'[k] = events[k]
      /\ \A k \in DOMAIN events' : k \in DOMAIN events \/ events'[k] = e
  BY DEF Adds
<1>2. MissedInv'
  BY <1>1 DEF NotifyInv, MissedInv, CycleGoesOn
<1>3. MailsInv'
  <2>1. Waiting(due', cycle') <= Waiting(due, cycle)
    BY NoMoreWait DEF WaitersStay
  <2>2. Waiting(due', cycle') \in {0, 1, 2} /\ Waiting(due, cycle) \in {0, 1, 2}
    BY WaitingType
  <2>3. Waiting(due, cycle) <= (IF clock = 0 THEN 2 ELSE 1)
    BY WaitingBound DEF NotifyInv
  <2> DEFINE bound == IF clock = 0 THEN 2 ELSE 1
  <2>4. bound \in Nat /\ bound = (IF clock' = 0 THEN 2 ELSE 1) /\ Waiting(due, cycle) <= bound
    BY <2>3
  <2>5. \A k \in DOMAIN events :
          /\ events[k].mails \in Nat
          /\ events[k].age = 0 => events[k].mails + Waiting(due, cycle) <= bound
          /\ events[k].age = 1 => events[k].mails + Waiting(due, cycle) <= 3
          /\ events[k].age = 2 => events[k].mails = 0
    BY EventFields DEF NotifyInv, MailsInv
  <2> HIDE DEF bound
  <2>6. ASSUME NEW k \in DOMAIN events'
        PROVE  /\ events'[k].age = 0 => events'[k].mails + Waiting(due', cycle') <= bound
               /\ events'[k].age = 1 => events'[k].mails + Waiting(due', cycle') <= 3
               /\ events'[k].age = 2 => events'[k].mails = 0
    <3>1. CASE k \in DOMAIN events
      BY <1>1, <2>1, <2>2, <2>4, <2>5, <3>1
    <3>2. CASE k \notin DOMAIN events
      BY <1>1, <2>1, <2>2, <2>4, <3>2
    <3>3. QED
      BY <3>1, <3>2
  <2>7. QED
    BY <2>4, <2>6 DEF MailsInv
<1>4. QED
  BY <1>2, <1>3 DEF NotifyInv

\* ... a new event waits for the cycle that records it, ...
LEMMA RecordNotify ==
  ASSUME CycleTypes, NotifyInv, NEW c \in Nightly, RecordEvent(c)
  PROVE  NotifyInv'
<1> DEFINE e == NewEvent(NextViolation(c)[1], NextViolation(c)[2], c)
<1>1. e \in Event /\ Adds(e)
  BY RecordAdds
<1>2. e.by = c /\ e.age = 0 /\ e.mails = 0
  BY DEF NewEvent
<1> HIDE DEF e
<1>3. UNCHANGED <<due, clock, misses>> /\ cycle[c].pc = "record" /\ Running(c)
  BY DEF RecordEvent, UnchangedBook, Running
<1>4. Turns(c) /\ cycle'[c].pc = "look"
  BY RecordTurns
<1>5. TurnInv' /\ WaitersStay /\ CycleGoesOn
  BY <1>3, <1>4, TurnStays, Within DEF NotifyInv
<1>6. QED
  BY <1>1, <1>2, <1>3, <1>4, <1>5, AddedNotify

\* ... another component's waits for nobody, ...
LEMMA ForeignNotify ==
  ASSUME CycleTypes, NotifyInv, ForeignEvent
  PROVE  NotifyInv'
<1>1. PICK e \in Event : Adds(e) /\ e.by \notin Nightly /\ e.age = 0 /\ e.mails = 0
  BY ForeignAdds
<1>2. UNCHANGED <<due, clock, misses, cycle>>
  BY DEF ForeignEvent
<1>3. TurnInv' /\ WaitersStay /\ CycleGoesOn
  BY <1>2, MonitoringAssumption
     DEF NotifyInv, TurnInv, Running, Delivered, WaitersStay, CycleGoesOn, Waits
<1>4. QED
  BY <1>1, <1>2, <1>3, AddedNotify

\* Who notifies waits no longer.
LEMMA NotifierDone ==
  ASSUME CycleTypes, NotifyInv, NEW c \in Nightly, Notify(c)
  PROVE  /\ UNCHANGED <<due, clock>> /\ TurnInv'
         /\ Waiting(due', cycle') + 1 <= Waiting(due, cycle)
<1>1. UNCHANGED <<due, clock>> /\ cycle[c].pc = "look" /\ Running(c)
  BY DEF Notify, UnchangedBook, Running
<1>2. Turns(c) /\ cycle'[c].pc \in {"off", "import"}
  BY NotifyTurns
<1>3. TurnInv' /\ c \notin due
  BY <1>1, <1>2, TurnStays DEF NotifyInv, TurnInv
<1>4. /\ \A d \in Nightly : Waits(d, due', cycle') => Waits(d, due, cycle)
      /\ Waits(c, due, cycle) /\ ~Waits(c, due', cycle')
  BY <1>1, <1>2, <1>3 DEF Turns, Waits
<1>5. QED
  BY <1>1, <1>3, <1>4, NoMoreWait

\* Within the window, an open critical event is notified of.
LEMMA InWindow ==
  ASSUME CycleTypes, NEW k \in DOMAIN events
  PROVE  /\ events[k].open /\ events[k].rule.type = "position_limit"
              /\ events[k].age \in {0, 1} => k \in ToNotify
         /\ events[k].age = 2 => k \notin ToNotify
BY DEF ToNotify, NotifyWindow

\* ... a cycle that mails mails all of the window, and waits no more, ...
LEMMA NotifyNotify ==
  ASSUME CycleTypes, NotifyInv, NEW c \in Nightly, Notify(c)
  PROVE  NotifyInv'
<1>1. /\ KeepsEvents /\ misses' \in Nat /\ misses <= misses' /\ misses \in Nat
      /\ \A k \in DOMAIN events :
           /\ events'[k].mails \in {events[k].mails, events[k].mails + 1}
           /\ k \notin ToNotify => events'[k].mails = events[k].mails
           /\ k \in ToNotify =>
                events'[k].mails = events[k].mails + 1 \/ misses < misses'
  BY NotifyMails DEF CycleTypes
<1>2. MissedInv'
  <2> SUFFICES ASSUME NEW k \in DOMAIN events', events'[k].open, events'[k].by \in Nightly,
                      events'[k].rule.type = "position_limit", events'[k].mails = 0
               PROVE  /\ events'[k].age = 0 => misses' >= 1
                      /\ events'[k].age = 1 => misses' >= 2
    BY DEF MissedInv
  <2>1. /\ k \in DOMAIN events /\ events[k].open /\ events[k].by \in Nightly
        /\ events[k].rule.type = "position_limit" /\ events[k].age = events'[k].age
        /\ events[k].mails \in Nat
    BY <1>1, EventFields DEF KeepsEvents
  <2>2. events[k].mails = 0 /\ events'[k].mails # events[k].mails + 1
    BY <1>1, <2>1
  <2>3. events[k].age \in {0, 1} => misses < misses'
    BY <1>1, <2>1, <2>2, InWindow
  <2>4. events[k].age = 1 => misses >= 1
    BY <1>1, <2>1, <2>2 DEF NotifyInv, MissedInv
  <2>5. QED
    BY <1>1, <2>1, <2>3, <2>4
<1>3. MailsInv'
  <2>1. /\ Waiting(due', cycle') + 1 <= Waiting(due, cycle)
        /\ Waiting(due', cycle') \in {0, 1, 2} /\ Waiting(due, cycle) \in {0, 1, 2}
    BY NotifierDone, WaitingType
  <2> DEFINE bound == IF clock = 0 THEN 2 ELSE 1
  <2>2. bound \in Nat /\ bound = (IF clock' = 0 THEN 2 ELSE 1)
    BY NotifierDone
  <2>3. \A k \in DOMAIN events :
          /\ events[k].mails \in Nat
          /\ events[k].age = 0 => events[k].mails + Waiting(due, cycle) <= bound
          /\ events[k].age = 1 => events[k].mails + Waiting(due, cycle) <= 3
          /\ events[k].age = 2 => events[k].mails = 0
    BY EventFields DEF NotifyInv, MailsInv
  <2> HIDE DEF bound
  <2>4. ASSUME NEW k \in DOMAIN events'
        PROVE  /\ events'[k].age = 0 => events'[k].mails + Waiting(due', cycle') <= bound
               /\ events'[k].age = 1 => events'[k].mails + Waiting(due', cycle') <= 3
               /\ events'[k].age = 2 => events'[k].mails = 0
    <3>1. k \in DOMAIN events /\ events'[k].age = events[k].age
      BY <1>1 DEF KeepsEvents
    <3>2. /\ events'[k].mails \in {events[k].mails, events[k].mails + 1}
          /\ events[k].age = 2 => events'[k].mails = events[k].mails
      BY <1>1, <3>1, InWindow
    <3>3. QED
      BY <2>1, <2>2, <2>3, <3>1, <3>2
  <2>5. QED
    BY <2>2, <2>4 DEF MailsInv
<1>4. QED
  BY <1>2, <1>3, NotifierDone DEF NotifyInv

\* ... a closed event asks for no mail, ...
LEMMA AcknowledgeNotify ==
  ASSUME CycleTypes, NotifyInv, Acknowledge
  PROVE  NotifyInv'
<1>1. UNCHANGED <<due, clock, misses, cycle>>
  BY DEF Acknowledge
<1>2. TurnInv' /\ WaitersStay /\ CycleGoesOn
  BY <1>1 DEF NotifyInv, TurnInv, Running, Delivered, WaitersStay, CycleGoesOn, Waits
<1>3. KeepsEvents /\ MailsStay /\ misses' \in Nat /\ misses' = misses
  BY <1>1, AcknowledgeKeeps DEF MailsStay, CycleTypes
<1>4. QED
  BY <1>1, <1>2, <1>3, MailsFewer, MissedStays DEF NotifyInv

\* Two quarters of an hour in a row are not both the hour of the import.
LEMMA NextQuarter ==
  ASSUME CycleTypes, Tick
  PROVE  /\ clock' \in Int /\ (clock = 0 => clock' # 0)
         /\ due' = Delivered(clock') /\ Quarterly \in due'
<1>1. clock' = (clock + 1) % Day /\ due' = Delivered(clock')
  BY DEF Tick
<1>2. clock' \in Int /\ (clock = 0 => clock' = 1)
  <2>1. Day \in Nat /\ Day # 0 /\ Day # 1 /\ clock \in 0..(Day - 1)
    BY MonitoringAssumption DEF CycleTypes
  <2>2. QED
    BY <1>1, <2>1
<1>3. QED
  BY <1>1, <1>2, MonitoringAssumption DEF Delivered

\* ... and with the time the triggers of the next tick come to wait.
LEMMA TickNotify ==
  ASSUME CycleTypes, NotifyInv, Tick
  PROVE  NotifyInv'
<1>1. /\ due = {} /\ \A d \in Nightly : ~Running(d)
      /\ cycle' = cycle /\ misses' = misses
  BY DEF Tick
<1>2. /\ DOMAIN events' = DOMAIN events
      /\ \A k \in DOMAIN events : events'[k] = Older(events[k]) /\ events[k] \in Event
                                  /\ events[k].mails \in Nat /\ events[k].age \in {0, 1, 2}
  BY TickAges, EventFields
<1>3. \A k \in DOMAIN events :
        /\ events'[k].by = events[k].by /\ events'[k].rule = events[k].rule
        /\ events'[k].open = events[k].open
        /\ events[k].age = 0 => events'[k].age = 1 /\ events'[k].mails = events[k].mails
        /\ events[k].age = 1 => events'[k].age = 2 /\ events'[k].mails = 0
        /\ events[k].age = 2 => events'[k].age = 2 /\ events'[k].mails = events[k].mails
  BY <1>2, OlderEvent
<1>4. TurnInv'
  BY <1>1, NextQuarter DEF TurnInv, Running
<1>5. \A d \in Nightly : ~Waits(d, due, cycle)
  BY <1>1 DEF Waits, Running
<1>6. MissedInv'
  <2>1. Waits(Quarterly, due', cycle')
    BY NextQuarter DEF Waits
  <2>2. ASSUME NEW k \in DOMAIN events, events[k].open, events[k].by \in Nightly,
               events[k].rule.type = "position_limit", events[k].mails = 0, events[k].age = 0
        PROVE  misses >= 1
    BY <1>1, <2>2 DEF NotifyInv, MissedInv, Running
  <2>3. QED
    BY <1>1, <1>2, <1>3, <2>1, <2>2 DEF MissedInv
<1>7. MailsInv'
  <2>1. Waiting(due, cycle) = 0
    BY <1>5, WaitingType, MonitoringAssumption DEF OtherWaits
  <2>2. Waiting(due', cycle') <= (IF clock' = 0 THEN 2 ELSE 1)
    <3>1. clock' # 0 => ~OtherWaits(due', cycle')
      BY <1>1, NextQuarter DEF OtherWaits, Waits, Running, Delivered
    <3>2. QED
      BY <3>1, WaitingType
  <2>3. Waiting(due', cycle') \in {0, 1, 2}
    BY WaitingType
  <2>4. clock = 0 => Waiting(due', cycle') <= 1
    BY <2>2, NextQuarter
  <2>5. \A k \in DOMAIN events :
          /\ events[k].age = 0 => events[k].mails <= (IF clock = 0 THEN 2 ELSE 1)
          /\ events[k].age = 2 => events[k].mails = 0
    BY <1>2, <2>1 DEF NotifyInv, MailsInv
  <2>6. ASSUME NEW k \in DOMAIN events
        PROVE  /\ events'[k].age # 0
               /\ events'[k].age = 1 => events'[k].mails + Waiting(due', cycle') <= 3
               /\ events'[k].age = 2 => events'[k].mails = 0
    <3>1. CASE clock = 0
      BY <1>2, <1>3, <2>3, <2>4, <2>5, <3>1
    <3>2. CASE clock # 0
      BY <1>2, <1>3, <2>3, <2>5, <3>2
    <3>3. QED
      BY <3>1, <3>2
  <2>7. QED
    BY <1>2, <2>6 DEF MailsInv
<1>8. QED
  BY <1>4, <1>6, <1>7 DEF NotifyInv

\* Every step keeps NotifyInv.
LEMMA NotifyKept ==
  ASSUME CycleTypes, NotifyInv, [Next]_vars
  PROVE  NotifyInv'
<1>1. ASSUME NEW c \in Nightly, CycleStep(c) PROVE NotifyInv'
  BY <1>1, FireNotify, LateNotify, WithinNotify, RecordNotify, NotifyNotify, FailNotify
     DEF CycleStep
<1>2. CASE RequestedImport \/ UNCHANGED vars
  <2>1. UNCHANGED <<due, clock, misses, cycle, events>>
    BY <1>2 DEF RequestedImport, monitoringVars, vars
  <2>2. TurnInv' /\ WaitersStay /\ CycleGoesOn
    BY <2>1 DEF NotifyInv, TurnInv, Running, Delivered, WaitersStay, CycleGoesOn, Waits
  <2>3. KeepsEvents /\ MailsStay /\ misses' \in Nat /\ misses' = misses
    BY <2>1, EventsSame DEF MailsStay, CycleTypes
  <2>4. QED
    BY <2>1, <2>2, <2>3, MailsFewer, MissedStays DEF NotifyInv
<1>3. CASE OtherStep
  BY <1>2, <1>3, TickNotify, AcknowledgeNotify, ForeignNotify DEF OtherStep
<1>4. QED
  BY <1>1, <1>2, <1>3, ImportNotify, StepCases

\* The mails of an event and the triggers that wait never add up to more than
\* three, and an event not mailed has a cycle yet to come or a miss on record.
THEOREM NotifyInvariant == Spec => []NotifyInv
<1>1. Init => NotifyInv
  <2>1. Init => DOMAIN events = {} /\ due = Delivered(clock)
    BY DEF Init
  <2>2. Init => \A c \in Nightly : cycle[c] = Off
    BY DEF Init
  <2>3. QED
    BY <2>1, <2>2, OffOK DEF NotifyInv, TurnInv, MissedInv, MailsInv, Running
<1>2. CycleTypes /\ NotifyInv /\ [Next]_vars => NotifyInv'
  BY NotifyKept
<1>3. Spec => []CycleTypes
  BY MonitoringTypes, PTL
<1>4. QED
  BY <1>1, <1>2, <1>3, PTL DEF Spec

\* ThriceAtMost: sendCriticalBreachNotifications takes up one breach event three
\* times at most, in the cycles of two quarters of an hour.
THEOREM MailedThrice == Spec => []ThriceAtMost
<1>1. ASSUME CycleTypes, NotifyInv PROVE ThriceAtMost
  <2> SUFFICES ASSUME NEW k \in DOMAIN events PROVE events[k].mails <= 3
    BY DEF ThriceAtMost
  <2>1. events[k].mails \in Nat /\ events[k].age \in {0, 1, 2}
    BY <1>1, EventFields
  <2>2. Waiting(due, cycle) \in {0, 1, 2}
    BY WaitingType
  <2>3. /\ events[k].age = 0 => events[k].mails + Waiting(due, cycle) <= 2
        /\ events[k].age = 1 => events[k].mails + Waiting(due, cycle) <= 3
        /\ events[k].age = 2 => events[k].mails = 0
    BY <1>1, <2>1, <2>2 DEF NotifyInv, MailsInv
  <2>4. QED
    BY <2>1, <2>2, <2>3
<1>2. Spec => []CycleTypes
  BY MonitoringTypes, PTL
<1>3. QED
  BY <1>1, <1>2, NotifyInvariant, PTL

\* OneMissTolerated: an open critical event of a cycle does not leave the window
\* without a mail, unless two things went wrong.
THEOREM MissTolerated == Spec => OneMissTolerated
<1> DEFINE Left ==
      \A k \in DOMAIN events :
        /\ events[k].open /\ events[k].by \in Nightly
        /\ events[k].rule.type = "position_limit"
        /\ events[k].age < MaxAge /\ events'[k].age = MaxAge
        /\ misses <= 1
        => events[k].mails >= 1
<1>1. ASSUME CycleTypes, NotifyInv, [Next]_vars PROVE Left
  <2> SUFFICES ASSUME NEW k \in DOMAIN events, events[k].open, events[k].by \in Nightly,
                      events[k].rule.type = "position_limit", events[k].age < MaxAge,
                      events'[k].age = MaxAge, misses <= 1
               PROVE  events[k].mails >= 1
    OBVIOUS
  <2>1. events[k] \in Event /\ events[k].age \in {0, 1} /\ events[k].mails \in Nat
    BY <1>1, EventFields DEF MaxAge
  <2>2. CASE ~Tick
    <3>1. events'[k].age = events[k].age
      <4>1. ASSUME NEW c \in Nightly, CycleStep(c) PROVE events'[k].age = events[k].age
        <5>1. CASE RecordEvent(c)
          BY <1>1, <5>1, RecordAdds DEF Adds
        <5>2. CASE ~RecordEvent(c)
          <6>1. KeepsEvents
            BY <1>1, <4>1, <5>2, EventsSame, NotifyMails
               DEF CycleStep, Fire, Late, Calculate, SelectPositions, LookForEvent, FailPosition,
                   FailCycle
          <6>2. QED
            BY <6>1 DEF KeepsEvents
        <5>3. QED
          BY <5>1, <5>2
      <4>2. ASSUME NEW c \in Nightly, BeginImport(c) \/ RunImport(c)
            PROVE  events'[k].age = events[k].age
        BY <4>2 DEF BeginImport, RunImport
      <4>3. CASE RequestedImport \/ UNCHANGED vars
        BY <4>3 DEF RequestedImport, monitoringVars, vars
      <4>4. CASE Acknowledge
        BY <1>1, <4>4, AcknowledgeKeeps DEF KeepsEvents
      <4>5. CASE ForeignEvent
        BY <1>1, <4>5, ForeignAdds DEF Adds
      <4>6. QED
        BY <1>1, <2>2, <4>1, <4>2, <4>3, <4>4, <4>5, StepCases DEF OtherStep
    <3>2. QED
      BY <2>1, <3>1 DEF MaxAge
  <2>3. CASE Tick
    <3>1. events[k].age = 1
      BY <1>1, <2>1, <2>3, TickAges, OlderEvent DEF MaxAge
    <3>2. ~Waits(Quarterly, due, cycle)
      BY <2>3, MonitoringAssumption DEF Tick, Running, Waits
    <3>3. misses \in Nat /\ ~(misses >= 2)
      BY <1>1 DEF CycleTypes
    <3>4. events[k].mails # 0
      BY <1>1, <3>1, <3>2, <3>3 DEF NotifyInv, MissedInv
    <3>5. QED
      BY <2>1, <3>4
  <2>4. QED
    BY <2>2, <2>3
<1>2. ASSUME CycleTypes, NotifyInv, [Next]_vars PROVE [Left]_vars
  BY <1>1, <1>2
<1> HIDE DEF Left
<1>3. Spec => [][Left]_vars
  <2>1. Spec => []CycleTypes
    BY MonitoringTypes, PTL
  <2>2. QED
    BY <1>2, <2>1, NotifyInvariant, PTL DEF Spec
<1>4. QED
  BY <1>3 DEF OneMissTolerated, Left
=============================================================================
