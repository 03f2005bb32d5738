--------------------------- MODULE PreTrade_proofs ---------------------------
(***************************************************************************)
(* The pre-trade checks and the approval of trades, for any number of      *)
(* handlers, requests and trades, and any rules and thresholds. The        *)
(* approvals implement the review of Decision; a decision is final unless  *)
(* two handlers had read the request together; no check that is not        *)
(* compliant is on record without its breach events; a check proceeds when *)
(* its validation said so or an approval released it, and a release is     *)
(* logged. All of it rests on what the tables refer to and on the ids that *)
(* tell the validations apart.                                             *)
(***************************************************************************)
EXTENDS PreTrade, SequenceTheorems, FiniteSetTheorems, TLAPS

Decisions == {"approved", "rejected"}
Pcs == {"idle", "read", "record", "decide", "release", "audit"}

\* The local variables of a handler.
Local == [pc : Pcs, todo : Seq(Trades), id : Nat, lots : Int, limit : Nat,
          record : SUBSET Rule, approval : Nat, decision : Decisions \cup {NULL}]

LocalOK(l) ==
  /\ l \in Local
  /\ l.pc \in {"read", "record"} => l.todo # << >>
  /\ l.pc = "decide" => l.approval \in DOMAIN approvals /\ l.decision \in Decisions

Types ==
  /\ book \in Books /\ rules \in RuleSets /\ started \in Nat
  /\ \E Row : checks \in Seq(Row)
  /\ approvals \in Seq(Approval) /\ Len(approvals) <= MaxApprovals
  /\ handler \in [Handlers -> Local]
  /\ \A h \in Handlers : LocalOK(handler[h])

\* One handler's variables are set, the others' are as they were, and the
\* requests are the same or one more.
LEMMA OneHandler ==
  ASSUME Types, NEW h \in Handlers, NEW new, LocalOK(new),
         handler' = [handler EXCEPT ![h] = new],
         UNCHANGED approvals
  PROVE  /\ handler' \in [Handlers -> Local]
         /\ \A g \in Handlers : LocalOK(handler[g])'
BY DEF Types, LocalOK

\* An idle handler has locals of the right type.
LEMMA IdleOK == LocalOK(Idle)
BY DEF LocalOK, Local, Idle, Pcs

\* A handler that starts on a list of trades, the first with the given id.
LEMMA ReadingOK ==
  ASSUME NEW trades \in Seq(Trades), trades # << >>, NEW n \in Nat
  PROVE  LET new == [Idle EXCEPT !.pc = "read", !.todo = trades, !.id = n]
         IN  LocalOK(new) /\ new.pc = "read"
<1>1. Idle \in Local
  BY IdleOK DEF LocalOK
<1>2. [Idle EXCEPT !.pc = "read"] \in Local
  BY <1>1 DEF Local, Pcs
<1>3. [Idle EXCEPT !.pc = "read", !.todo = trades] \in Local
  BY <1>2 DEF Local
<1> DEFINE new == [Idle EXCEPT !.pc = "read", !.todo = trades, !.id = n]
<1>4. new \in Local
  BY <1>3 DEF Local
<1>5. new.pc = "read" /\ new.todo = trades
  BY <1>1 DEF Local
<1>6. QED
  BY <1>4, <1>5 DEF LocalOK

\* NextTrade leaves a handler idle or reading the rest of its batch.
LEMMA NextTradeOK ==
  ASSUME Types, NEW h \in Handlers, handler[h].pc \in {"read", "record"}
  PROVE  LocalOK(NextTrade(h)) /\ NextTrade(h).pc \in {"idle", "read"}
<1> DEFINE rest == Tail(handler[h].todo)
<1>1. handler[h] \in Local /\ handler[h].todo # << >> /\ handler[h].id + 1 \in Nat
  BY DEF Types, LocalOK, Local
<1>2. rest \in Seq(Trades)
  BY <1>1 DEF Local
<1>3. CASE rest = << >>
  BY <1>3, IdleOK DEF NextTrade, Idle
<1>4. CASE rest # << >>
  <2>1. NextTrade(h) = [Idle EXCEPT !.pc = "read", !.todo = rest, !.id = handler[h].id + 1]
    BY <1>4 DEF NextTrade
  <2>2. QED
    BY <1>1, <1>2, <1>4, <2>1, ReadingOK
<1>5. QED
  BY <1>3, <1>4

\* The position and the violations are put with the trade.
LEMMA ReadPositionOK ==
  ASSUME Types, NEW h \in Handlers, ReadPosition(h)
  PROVE  \E new : /\ LocalOK(new) /\ new.pc = "record"
                  /\ handler' = [handler EXCEPT ![h] = new]
<1> DEFINE lots == book.pos + Head(handler[h].todo)
           l == handler[h]
<1>1. l \in Local /\ l.todo # << >>
  BY DEF Types, LocalOK, ReadPosition, At
<1>2. Head(l.todo) \in Trades
  BY <1>1 DEF Local
<1>3. lots \in Int /\ book.limit \in Nat
  <2>1. Head(l.todo) \in Int
    BY <1>2, PreTradeAssumption
  <2>2. book.pos \in Int /\ book.limit \in Nat
    BY PreTradeAssumption DEF Types, Book
  <2>3. QED
    BY <2>1, <2>2
<1>4. ToRecord(lots) \in SUBSET Rule
  <2>1. rules \subseteq Rule
    BY PreTradeAssumption DEF Types
  <2>2. QED
    BY <2>1 DEF ToRecord, Violations, Critical, High
<1>5. handler' = [handler EXCEPT ![h] = [l EXCEPT !.pc = "record", !.lots = lots,
                    !.limit = book.limit, !.record = ToRecord(lots)]]
  BY DEF ReadPosition
<1> HIDE DEF lots, l
<1>6. [l EXCEPT !.pc = "record"] \in Local
  BY <1>1 DEF Local, Pcs
<1>7. [l EXCEPT !.pc = "record", !.lots = lots] \in Local
  BY <1>3, <1>6 DEF Local
<1>8. [l EXCEPT !.pc = "record", !.lots = lots, !.limit = book.limit] \in Local
  BY <1>3, <1>7 DEF Local
<1> DEFINE new == [l EXCEPT !.pc = "record", !.lots = lots, !.limit = book.limit,
                            !.record = ToRecord(lots)]
<1>9. new \in Local
  BY <1>4, <1>8 DEF Local
<1>10. new.pc = "record" /\ new.todo = l.todo
  BY <1>1 DEF Local
<1>11. LocalOK(new)
  BY <1>1, <1>9, <1>10 DEF LocalOK
<1>12. QED
  BY <1>5, <1>10, <1>11

\* A handler that takes up the decision of a request.
LEMMA DecidingOK ==
  ASSUME Types, NEW a \in DOMAIN approvals, NEW decision \in Decisions
  PROVE  LET new == [Idle EXCEPT !.pc = "decide", !.approval = a, !.decision = decision]
         IN  LocalOK(new) /\ new.pc = "decide" /\ new.approval = a /\ new.decision = decision
<1>1. Idle \in Local /\ a \in Nat
  BY IdleOK DEF LocalOK, Types
<1>2. [Idle EXCEPT !.pc = "decide"] \in Local
  BY <1>1 DEF Local, Pcs
<1>3. [Idle EXCEPT !.pc = "decide", !.approval = a] \in Local
  BY <1>1, <1>2 DEF Local
<1> DEFINE new == [Idle EXCEPT !.pc = "decide", !.approval = a, !.decision = decision]
<1>4. new \in Local
  BY <1>3 DEF Local, Decisions
<1>5. new.pc = "decide" /\ new.approval = a /\ new.decision = decision
  BY <1>1 DEF Local
<1>6. QED
  BY <1>4, <1>5 DEF LocalOK

\* A handler that goes on to another statement of its decision.
LEMMA GoesOnOK ==
  ASSUME NEW l \in Local, NEW pc \in {"release", "audit"}
  PROVE  LocalOK([l EXCEPT !.pc = pc]) /\ [l EXCEPT !.pc = pc].pc = pc
<1>1. [l EXCEPT !.pc = pc] \in Local /\ [l EXCEPT !.pc = pc].pc = pc
  BY DEF Local, Pcs
<1>2. QED
  BY <1>1 DEF LocalOK

-----------------------------------------------------------------------------
\* What a step does to the reviews: a handler does something else, or is about
\* a request, or nothing happens that matters to them.
Elsewhere(h, new) ==
  /\ LocalOK(new) /\ new.pc # "decide"
  /\ handler' = [handler EXCEPT ![h] = new]
  /\ UNCHANGED <<approvals, raced>>

\* Every step creates, reads or decides an approval request, or is elsewhere.
LEMMA StepKinds ==
  ASSUME Types, Next
  PROVE  \/ \E h \in Handlers : \/ \E new : Elsewhere(h, new)
                               \/ CreateApproval(h) \/ ReadApproval(h) \/ Decide(h)
         \/ UNCHANGED <<handler, approvals, raced>>
<1> DEFINE Goal == \/ \E h \in Handlers : \/ \E new : Elsewhere(h, new)
                                         \/ CreateApproval(h) \/ ReadApproval(h) \/ Decide(h)
                   \/ UNCHANGED <<handler, approvals, raced>>
<1> SUFFICES Goal
  OBVIOUS
<1>1. ASSUME NEW h \in Handlers, StartValidation(h) PROVE Goal
  <2>1. PICK n \in 1..MaxBatch : \E trades \in [1..n -> Trades] :
          handler' = [handler EXCEPT ![h] =
                        [Idle EXCEPT !.pc = "read", !.todo = trades, !.id = started + 1]]
    BY <1>1 DEF StartValidation
  <2>2. PICK trades \in [1..n -> Trades] :
          handler' = [handler EXCEPT ![h] =
                        [Idle EXCEPT !.pc = "read", !.todo = trades, !.id = started + 1]]
    BY <2>1
  <2>3. trades \in Seq(Trades) /\ trades # << >> /\ started + 1 \in Nat
    BY PreTradeAssumption DEF Types
  <2> DEFINE new == [Idle EXCEPT !.pc = "read", !.todo = trades, !.id = started + 1]
  <2>4. LocalOK(new) /\ new.pc = "read"
    BY <2>3, ReadingOK
  <2> HIDE DEF new
  <2>5. Elsewhere(h, new)
    BY <1>1, <2>2, <2>4 DEF Elsewhere, StartValidation, new
  <2>6. QED
    BY <2>5
<1>2. ASSUME NEW h \in Handlers, ReadPosition(h) PROVE Goal
  <2>1. PICK new : LocalOK(new) /\ new.pc = "record" /\ handler' = [handler EXCEPT ![h] = new]
    BY <1>2, ReadPositionOK
  <2>2. Elsewhere(h, new)
    BY <1>2, <2>1 DEF Elsewhere, ReadPosition
  <2>3. QED
    BY <2>2
<1>3. ASSUME NEW h \in Handlers, RecordBreach(h) PROVE Goal
  <2>1. PICK rule \in handler[h].record : handler' = [handler EXCEPT ![h].record = @ \ {rule}]
    BY <1>3 DEF RecordBreach
  <2>2. handler[h] \in Local /\ handler[h].pc = "record" /\ handler[h].todo # << >>
    BY <1>3 DEF RecordBreach, At, Types, LocalOK
  <2> DEFINE new == [handler[h] EXCEPT !.record = handler[h].record \ {rule}]
  <2>3. new \in Local /\ new.pc = "record" /\ new.todo = handler[h].todo
    BY <2>2 DEF Local
  <2>4. handler' = [handler EXCEPT ![h] = new]
    BY <2>1
  <2> HIDE DEF new
  <2>5. Elsewhere(h, new)
    BY <1>3, <2>2, <2>3, <2>4 DEF Elsewhere, RecordBreach, LocalOK
  <2>6. QED
    BY <2>5
<1>4. ASSUME NEW h \in Handlers, SaveCheck(h) \/ FailValidation(h) PROVE Goal
  <2>1. handler[h].pc \in {"read", "record"} /\ handler' = [handler EXCEPT ![h] = NextTrade(h)]
    BY <1>4 DEF SaveCheck, FailValidation, At
  <2>2. Elsewhere(h, NextTrade(h))
    BY <1>4, <2>1, NextTradeOK DEF Elsewhere, SaveCheck, FailValidation
  <2>3. QED
    BY <2>2
<1>5. ASSUME NEW h \in Handlers, Release(h) PROVE Goal
  <2> DEFINE new == [handler[h] EXCEPT !.pc = "audit"]
  <2>1. handler[h] \in Local
    BY DEF Types
  <2>2. LocalOK(new) /\ new.pc = "audit"
    BY <2>1, GoesOnOK
  <2>3. Elsewhere(h, new)
    BY <1>5, <2>2 DEF Elsewhere, Release
  <2>4. QED
    BY <2>3
<1>6. ASSUME NEW h \in Handlers, WriteAudit(h) \/ FailDecision(h) PROVE Goal
  <2>1. Elsewhere(h, Idle)
    BY <1>6, IdleOK DEF Elsewhere, WriteAudit, FailDecision, Idle
  <2>2. QED
    BY <2>1
<1>7. CASE Recalculate
  BY <1>7 DEF Recalculate
<1>8. QED
  BY <1>1, <1>2, <1>3, <1>4, <1>5, <1>6, <1>7 DEF Next

\* The variables that have nothing to do with reviews keep their types.
LEMMA OthersTyped ==
  ASSUME Types, Next
  PROVE  /\ book' \in Books /\ rules' \in RuleSets /\ started' \in Nat
         /\ \E Row : checks' \in Seq(Row)
<1>1. book' \in Books /\ rules' \in RuleSets
  BY DEF Types, Next, Recalculate, StartValidation, ReadPosition, RecordBreach, SaveCheck,
         FailValidation, CreateApproval, ReadApproval, Decide, Release, WriteAudit, FailDecision
<1>2. started' \in Nat
  <2>1. ASSUME NEW h \in Handlers, StartValidation(h) PROVE started' \in Nat
    <3>1. PICK n \in 1..MaxBatch : started' = started + n
      BY <2>1 DEF StartValidation
    <3>2. QED
      BY <3>1, PreTradeAssumption DEF Types
  <2>2. started' = started \/ \E h \in Handlers : StartValidation(h)
    BY DEF Next, Recalculate, ReadPosition, RecordBreach, SaveCheck,
         FailValidation, CreateApproval, ReadApproval, Decide, Release, WriteAudit, FailDecision
  <2>3. QED
    BY <2>1, <2>2 DEF Types
<1>3. \E Row : checks' \in Seq(Row)
  <2>1. PICK Row : checks \in Seq(Row)
    BY DEF Types
  <2>2. ASSUME NEW row, checks' = Append(checks, row) PROVE checks' \in Seq(Row \cup {row})
    BY <2>1, <2>2
  <2>3. ASSUME NEW c, NEW row, checks' = [checks EXCEPT ![c] = row]
        PROVE  checks' \in Seq(Row \cup {row})
    <3>1. checks \in Seq(Row \cup {row})
      BY <2>1
    <3>2. CASE c \in 1..Len(checks)
      BY <2>3, <3>1, <3>2, ExceptSeq
    <3>3. CASE c \notin 1..Len(checks)
      <4>1. checks' = checks
        BY <2>1, <2>3, <3>3
      <4>2. QED
        BY <3>1, <4>1
    <3>4. QED
      BY <3>2, <3>3
  <2>4. \/ checks' = checks
        \/ \E row : checks' = Append(checks, row)
        \/ \E c, row : checks' = [checks EXCEPT ![c] = row]
    BY DEF Next, Recalculate, StartValidation, ReadPosition, RecordBreach, SaveCheck,
         FailValidation, CreateApproval, ReadApproval, Decide, Release, WriteAudit, FailDecision
  <2>5. QED
    BY <2>1, <2>2, <2>3, <2>4
<1>4. QED
  BY <1>1, <1>2, <1>3

-----------------------------------------------------------------------------
\* A request that is new is the last one.
LEMMA CreateApprovalEffect ==
  ASSUME Types, NEW h \in Handlers, CreateApproval(h)
  PROVE  /\ approvals' \in Seq(Approval) /\ Len(approvals') = Len(approvals) + 1
         /\ Len(approvals') <= MaxApprovals
         /\ approvals'[Len(approvals')].status = "pending"
         /\ \A a \in DOMAIN approvals : approvals'[a] = approvals[a]
<1>1. PICK c \in DOMAIN checks : approvals' = Append(approvals, [check |-> c, status |-> "pending"])
  BY DEF CreateApproval
<1>2. c \in Nat
  BY <1>1 DEF Types
<1> DEFINE row == [check |-> c, status |-> "pending"]
<1>3. row \in Approval /\ row.status = "pending"
  BY <1>2 DEF Approval
<1> HIDE DEF row
<1>4. approvals' = Append(approvals, row) /\ approvals \in Seq(Approval)
  BY <1>1 DEF row, Types
<1>5. Len(approvals) < MaxApprovals /\ MaxApprovals \in Nat
  BY PreTradeAssumption DEF CreateApproval
<1>6. QED
  BY <1>3, <1>4, <1>5

\* A handler that reads a request found it pending, and has nothing else to do.
LEMMA ReadApprovalEffect ==
  ASSUME Types, NEW h \in Handlers, ReadApproval(h)
  PROVE  \E a \in DOMAIN approvals, decision \in Decisions : \E new :
           /\ approvals[a].status = "pending" /\ approvals' = approvals
           /\ LocalOK(new) /\ new.pc = "decide"
           /\ new.approval = a /\ new.decision = decision
           /\ handler' = [handler EXCEPT ![h] = new]
           /\ raced' = IF \E g \in Handlers : At(g, "decide") /\ handler[g].approval = a
                       THEN raced \cup {a} ELSE raced
<1>1. PICK a \in DOMAIN approvals, decision \in Decisions :
        /\ MayDecide(a)
        /\ handler' = [handler EXCEPT ![h] =
             [Idle EXCEPT !.pc = "decide", !.approval = a, !.decision = decision]]
        /\ raced' = IF \E g \in Handlers : At(g, "decide") /\ handler[g].approval = a
                    THEN raced \cup {a} ELSE raced
  BY DEF ReadApproval, Decisions
<1> DEFINE new == [Idle EXCEPT !.pc = "decide", !.approval = a, !.decision = decision]
<1>2. LocalOK(new) /\ new.pc = "decide" /\ new.approval = a /\ new.decision = decision
  BY DecidingOK
<1> HIDE DEF new
<1>3. approvals' = approvals /\ approvals[a].status = "pending"
  BY <1>1 DEF ReadApproval, MayDecide
<1>4. handler' = [handler EXCEPT ![h] = new]
  BY <1>1 DEF new
<1>5. QED
  BY <1>1, <1>2, <1>3, <1>4

\* A decision is written to the request it is about.
LEMMA DecideEffect ==
  ASSUME Types, NEW h \in Handlers, Decide(h)
  PROVE  LET a == handler[h].approval  decision == handler[h].decision
         IN  /\ At(h, "decide") /\ a \in DOMAIN approvals /\ decision \in Decisions
             /\ approvals' \in Seq(Approval) /\ Len(approvals') = Len(approvals)
             /\ approvals'[a].status = decision
             /\ \A b \in DOMAIN approvals : b # a => approvals'[b] = approvals[b]
             /\ raced' = raced
             /\ \E new : /\ LocalOK(new) /\ new.pc # "decide"
                          /\ handler' = [handler EXCEPT ![h] = new]
<1> DEFINE a == handler[h].approval
           decision == handler[h].decision
           row == [approvals[a] EXCEPT !.status = decision]
           pc == IF decision = "approved" THEN "release" ELSE "audit"
           new == [handler[h] EXCEPT !.pc = pc]
<1>1. At(h, "decide") /\ a \in DOMAIN approvals /\ decision \in Decisions
  BY DEF Decide, At, Types, LocalOK
<1>2. approvals \in Seq(Approval) /\ handler[h] \in Local
  BY DEF Types
<1>3. approvals[a] \in Approval
  BY <1>1, <1>2
<1>4. row \in Approval /\ row.status = decision
  BY <1>1, <1>3 DEF Approval, Decisions
<1>5. LocalOK(new) /\ new.pc = pc
  BY <1>2, GoesOnOK
<1>6. approvals' = [approvals EXCEPT ![a] = row] /\ handler' = [handler EXCEPT ![h] = new]
  BY DEF Decide
<1>7. raced' = raced
  BY DEF Decide
<1> HIDE DEF a, decision, row, new
<1>8. a \in 1..Len(approvals)
  BY <1>1, <1>2
<1>9. approvals' \in Seq(Approval) /\ Len(approvals') = Len(approvals)
  BY <1>2, <1>4, <1>6, <1>8, ExceptSeq
<1>10. approvals'[a].status = decision /\ \A b \in DOMAIN approvals : b # a => approvals'[b] = approvals[b]
  BY <1>1, <1>4, <1>6
<1>11. QED
  BY <1>1, <1>5, <1>6, <1>7, <1>9, <1>10 DEF a, decision

\* The types the reviews rest on.
THEOREM ReviewTypes == Spec => []Types
<1>1. Init => Types
  <2>1. ASSUME Init PROVE checks \in Seq({})
    BY <2>1 DEF Init
  <2>2. Init => handler \in [Handlers -> Local] /\ \A h \in Handlers : LocalOK(handler[h])
    BY IdleOK DEF Init, LocalOK
  <2>3. QED
    BY <2>1, <2>2, PreTradeAssumption DEF Init, Types
<1>2. Types /\ [Next]_vars => Types'
  <2> SUFFICES ASSUME Types, [Next]_vars PROVE Types'
    OBVIOUS
  <2>1. CASE UNCHANGED vars
    BY <2>1 DEF vars, Types, LocalOK
  <2>2. CASE Next
    <3> DEFINE Kept == /\ approvals' \in Seq(Approval) /\ Len(approvals') <= MaxApprovals
                       /\ handler' \in [Handlers -> Local]
                       /\ \A h \in Handlers : LocalOK(handler[h])'
    <3>1. ASSUME NEW h \in Handlers, NEW new, Elsewhere(h, new) PROVE Kept
      BY <3>1, OneHandler DEF Elsewhere, Types
    <3>2. ASSUME NEW h \in Handlers, CreateApproval(h) PROVE Kept
      <4>1. DOMAIN approvals \subseteq DOMAIN approvals'
        BY <3>2, CreateApprovalEffect DEF Types
      <4>2. handler' = handler
        BY <3>2 DEF CreateApproval
      <4>3. QED
        BY <3>2, <4>1, <4>2, CreateApprovalEffect DEF Types, LocalOK
    <3>3. ASSUME NEW h \in Handlers, ReadApproval(h) PROVE Kept
      BY <3>3, ReadApprovalEffect, OneHandler DEF Types
    <3>4. ASSUME NEW h \in Handlers, Decide(h) PROVE Kept
      <4>1. PICK new : /\ LocalOK(new) /\ handler' = [handler EXCEPT ![h] = new]
        BY <3>4, DecideEffect
      <4>2. /\ approvals' \in Seq(Approval) /\ Len(approvals') = Len(approvals)
        BY <3>4, DecideEffect
      <4>3. DOMAIN approvals' = DOMAIN approvals
        BY <4>2 DEF Types
      <4>4. QED
        BY <4>1, <4>2, <4>3 DEF Types, LocalOK
    <3>5. ASSUME UNCHANGED <<handler, approvals, raced>> PROVE Kept
      BY <3>5 DEF Types, LocalOK
    <3>6. Kept
      BY <2>2, <3>1, <3>2, <3>3, <3>4, <3>5, StepKinds
    <3>7. QED
      BY <2>2, <3>6, OthersTyped DEF Types
  <2>3. QED
    BY <2>1, <2>2
<1>3. QED
  BY <1>1, <1>2, PTL DEF Spec

-----------------------------------------------------------------------------
\* What a handler has in mind after it set its variables.
LEMMA MindAfter ==
  ASSUME Types, NEW h \in Handlers, NEW new, handler' = [handler EXCEPT ![h] = new]
  PROVE  Mind' = [Mind EXCEPT ![h] =
           IF new.pc = "decide" THEN [id |-> new.approval, verdict |-> new.decision] ELSE NULL]
BY DEF Types, Mind, At

\* A review is told apart from the absence of one.
LEMMA MindOfDecider ==
  ASSUME Types, NEW h \in Handlers, At(h, "decide")
  PROVE  /\ Mind[h] = [id |-> handler[h].approval, verdict |-> handler[h].decision]
         /\ Mind[h] # NULL
<1>1. handler[h].approval \in Nat /\ handler[h].decision \in {"approved", "rejected"}
  BY DEF Types, LocalOK, At, Decisions
<1>2. QED
  BY <1>1, NullAssumption DEF Mind

\* A step elsewhere withdraws from a review or is nothing to it.
LEMMA ElsewhereReviews ==
  ASSUME Types, NEW h \in Handlers, NEW new, Elsewhere(h, new)
  PROVE  AsDecision!Withdraw(h) \/ UNCHANGED <<ApprovalStatus, Mind>>
<1>1. Mind' = [Mind EXCEPT ![h] = NULL]
  BY MindAfter DEF Elsewhere
<1>2. ApprovalStatus' = ApprovalStatus
  BY DEF Elsewhere, ApprovalStatus
<1>3. CASE At(h, "decide")
  BY <1>1, <1>2, <1>3, MindOfDecider DEF AsDecision!Withdraw
<1>4. CASE ~At(h, "decide")
  <2>1. Mind[h] = NULL
    BY <1>4 DEF Mind
  <2>2. Mind' = Mind
    BY <1>1, <2>1 DEF Mind
  <2>3. QED
    BY <1>2, <2>2
<1>5. QED
  BY <1>3, <1>4

\* POST / submits a request.
LEMMA CreateSubmits ==
  ASSUME Types, NEW h \in Handlers, CreateApproval(h)
  PROVE  \E id \in 1..MaxApprovals : AsDecision!Submit(id)
<1> DEFINE new == Len(approvals')
<1>1. /\ new \in 1..MaxApprovals /\ new \notin DOMAIN approvals
      /\ DOMAIN approvals' = DOMAIN approvals \cup {new}
  <2>1. Len(approvals) \in Nat /\ DOMAIN approvals = 1..Len(approvals)
    BY DEF Types
  <2>2. DOMAIN approvals' = 1..new /\ new = Len(approvals) + 1 /\ new <= MaxApprovals
    BY CreateApprovalEffect
  <2> HIDE DEF new
  <2>3. QED
    BY <2>1, <2>2, PreTradeAssumption
<1>2. /\ approvals'[new].status = "pending"
      /\ \A a \in DOMAIN approvals : approvals'[a] = approvals[a]
  BY CreateApprovalEffect
<1> HIDE DEF new
<1>3. ApprovalStatus[new] = "none" /\ ApprovalStatus' = [ApprovalStatus EXCEPT ![new] = "pending"]
  BY <1>1, <1>2 DEF ApprovalStatus
<1>4. Mind' = Mind
  BY DEF CreateApproval, Mind, At
<1>5. QED
  BY <1>1, <1>3, <1>4 DEF AsDecision!Submit

\* The SELECT of approve and reject considers a pending request.
LEMMA ReadConsiders ==
  ASSUME Types, NEW h \in Handlers, ReadApproval(h)
  PROVE  \E id \in 1..MaxApprovals, verdict \in Decisions : AsDecision!Consider(h, id, verdict)
<1>0. PICK a \in DOMAIN approvals, decision \in Decisions : \E new :
           /\ approvals[a].status = "pending" /\ approvals' = approvals
           /\ new.pc = "decide" /\ new.approval = a /\ new.decision = decision
           /\ handler' = [handler EXCEPT ![h] = new]
  BY ReadApprovalEffect
<1>1. PICK new :
           /\ approvals[a].status = "pending" /\ approvals' = approvals
           /\ new.pc = "decide" /\ new.approval = a /\ new.decision = decision
           /\ handler' = [handler EXCEPT ![h] = new]
  BY <1>0
<1>2. a \in 1..MaxApprovals
  BY PreTradeAssumption DEF Types
<1>3. Mind[h] = NULL
  BY DEF ReadApproval, Mind, At
<1>4. Mind' = [Mind EXCEPT ![h] = [id |-> a, verdict |-> decision]]
  BY <1>1, MindAfter
<1>5. ApprovalStatus[a] = "pending" /\ ApprovalStatus' = ApprovalStatus
  BY <1>1, <1>2 DEF ApprovalStatus
<1>6. QED
  BY <1>2, <1>3, <1>4, <1>5 DEF AsDecision!Consider

\* The UPDATE decides the request the handler has in mind.
LEMMA DecideDecides ==
  ASSUME Types, NEW h \in Handlers, Decide(h)
  PROVE  AsDecision!Decide(h)
<1> DEFINE a == handler[h].approval
           decision == handler[h].decision
<1>1. /\ At(h, "decide") /\ a \in DOMAIN approvals
      /\ DOMAIN approvals' = DOMAIN approvals /\ approvals'[a].status = decision
      /\ \A b \in DOMAIN approvals : b # a => approvals'[b] = approvals[b]
  BY DecideEffect DEF Types
<1>2. Mind[h] = [id |-> a, verdict |-> decision] /\ Mind[h] # NULL
  BY <1>1, MindOfDecider
<1>3. Mind' = [Mind EXCEPT ![h] = NULL]
  BY DecideEffect, MindAfter
<1> HIDE DEF a, decision
<1>4. a \in 1..MaxApprovals
  BY <1>1, PreTradeAssumption DEF Types
<1>5. ApprovalStatus' = [ApprovalStatus EXCEPT ![a] = decision]
  BY <1>1, <1>4 DEF ApprovalStatus
<1>6. QED
  BY <1>2, <1>3, <1>5 DEF AsDecision!Decide

\* ApprovalDecisions: every step is one of the review, or nothing to it.
THEOREM ApprovalsImplementDecision == Spec => ApprovalDecisions
<1>1. Init => AsDecision!DecisionInit
  BY DEF Init, AsDecision!DecisionInit, ApprovalStatus, Mind, At, Idle
<1>2. Types /\ [Next]_vars => [AsDecision!DecisionNext]_(AsDecision!decisionVars)
  <2> SUFFICES ASSUME Types, [Next]_vars
               PROVE  AsDecision!DecisionNext \/ UNCHANGED <<ApprovalStatus, Mind>>
    BY DEF AsDecision!decisionVars
  <2>1. ASSUME NEW h \in Handlers, NEW new, Elsewhere(h, new)
        PROVE  AsDecision!DecisionNext \/ UNCHANGED <<ApprovalStatus, Mind>>
    BY <2>1, ElsewhereReviews DEF AsDecision!DecisionNext
  <2>2. ASSUME NEW h \in Handlers, CreateApproval(h) PROVE AsDecision!DecisionNext
    BY <2>2, CreateSubmits DEF AsDecision!DecisionNext
  <2>3. ASSUME NEW h \in Handlers, ReadApproval(h) PROVE AsDecision!DecisionNext
    BY <2>3, ReadConsiders DEF AsDecision!DecisionNext, Decisions
  <2>4. ASSUME NEW h \in Handlers, Decide(h) PROVE AsDecision!DecisionNext
    BY <2>4, DecideDecides DEF AsDecision!DecisionNext
  <2>5. ASSUME UNCHANGED <<handler, approvals>> PROVE UNCHANGED <<ApprovalStatus, Mind>>
    BY <2>5 DEF ApprovalStatus, Mind, At
  <2>6. CASE Next
    BY <2>6, <2>1, <2>2, <2>3, <2>4, <2>5, StepKinds
  <2>7. CASE UNCHANGED vars
    BY <2>5, <2>7 DEF vars
  <2>8. QED
    BY <2>6, <2>7
<1>3. QED
  BY <1>1, <1>2, ReviewTypes, PTL DEF Spec, ApprovalDecisions, AsDecision!DecisionSpec

-----------------------------------------------------------------------------
\* A handler about to decide a request that no rival had read together with it
\* finds the request still pending when it writes, and is the only one.
NoRival ==
  \A h \in Handlers :
    At(h, "decide") /\ handler[h].approval \notin raced =>
      /\ approvals[handler[h].approval].status = "pending"
      /\ \A g \in Handlers :
           At(g, "decide") /\ handler[g].approval = handler[h].approval => g = h

\* A step by which no handler takes up a decision, and no request that another
\* handler is about to decide is written.
LEMMA NoRivalKept ==
  ASSUME Types, NoRival, NEW h \in Handlers, NEW new, new.pc # "decide",
         handler' = [handler EXCEPT ![h] = new], raced' = raced,
         \A g \in Handlers : g # h /\ At(g, "decide") /\ handler[g].approval \notin raced =>
           approvals'[handler[g].approval] = approvals[handler[g].approval]
  PROVE  NoRival'
<1>1. \A g \in Handlers : At(g, "decide")' => g # h /\ At(g, "decide") /\ handler'[g] = handler[g]
  BY DEF Types, At
<1>2. QED
  BY <1>1 DEF NoRival

\* A decision leaves no rival behind that is not on record.
LEMMA DecideKeepsNoRival ==
  ASSUME Types, NoRival, NEW h \in Handlers, Decide(h)
  PROVE  NoRival'
<1>1. At(h, "decide") /\ raced' = raced
  BY DecideEffect
<1>2. ASSUME NEW g \in Handlers, g # h, At(g, "decide"), handler[g].approval \notin raced
      PROVE  approvals'[handler[g].approval] = approvals[handler[g].approval]
  <2>1. handler[g].approval # handler[h].approval
    BY <1>1, <1>2 DEF NoRival
  <2>2. handler[g].approval \in DOMAIN approvals
    BY <1>2 DEF Types, LocalOK, At
  <2>3. QED
    BY <2>1, <2>2, DecideEffect
<1>3. PICK new : new.pc # "decide" /\ handler' = [handler EXCEPT ![h] = new]
  BY DecideEffect
<1>4. QED
  BY <1>1, <1>2, <1>3, NoRivalKept

\* Two handlers that have read one request are on record.
LEMMA ReadKeepsNoRival ==
  ASSUME Types, NoRival, NEW h \in Handlers, ReadApproval(h)
  PROVE  NoRival'
<1>0. PICK a \in DOMAIN approvals, decision \in Decisions : \E new :
           /\ approvals[a].status = "pending" /\ approvals' = approvals
           /\ new.pc = "decide" /\ new.approval = a
           /\ handler' = [handler EXCEPT ![h] = new]
           /\ raced' = IF \E g \in Handlers : At(g, "decide") /\ handler[g].approval = a
                       THEN raced \cup {a} ELSE raced
  BY ReadApprovalEffect
<1>1. PICK new :
           /\ approvals[a].status = "pending" /\ approvals' = approvals
           /\ new.pc = "decide" /\ new.approval = a
           /\ handler' = [handler EXCEPT ![h] = new]
           /\ raced' = IF \E g \in Handlers : At(g, "decide") /\ handler[g].approval = a
                       THEN raced \cup {a} ELSE raced
  BY <1>0
<1>2. \A g \in Handlers : g # h => handler'[g] = handler[g]
  BY <1>1 DEF Types
<1>3. handler'[h] = new /\ raced \subseteq raced'
  BY <1>1 DEF Types
<1>4. ~At(h, "decide")
  BY DEF ReadApproval, At
<1>5. CASE \E g \in Handlers : At(g, "decide") /\ handler[g].approval = a
  <2>1. a \in raced'
    BY <1>1, <1>5
  <2>2. QED
    BY <1>1, <1>2, <1>3, <2>1 DEF NoRival, At
<1>6. CASE ~\E g \in Handlers : At(g, "decide") /\ handler[g].approval = a
  BY <1>1, <1>2, <1>3, <1>4, <1>6 DEF NoRival, At
<1>7. QED
  BY <1>5, <1>6

\* NoRival holds throughout.
THEOREM RivalsOnRecord == Spec => []NoRival
<1>1. Init => NoRival
  BY DEF Init, NoRival, At, Idle
<1>2. Types /\ NoRival /\ [Next]_vars => NoRival'
  <2> SUFFICES ASSUME Types, NoRival, [Next]_vars PROVE NoRival'
    OBVIOUS
  <2>1. ASSUME NEW h \in Handlers, NEW new, Elsewhere(h, new) PROVE NoRival'
    BY <2>1, NoRivalKept DEF Elsewhere
  <2>2. ASSUME NEW h \in Handlers, CreateApproval(h) PROVE NoRival'
    <3>1. handler' = handler /\ raced' = raced
      BY <2>2 DEF CreateApproval
    <3>2. \A g \in Handlers : At(g, "decide") => handler[g].approval \in DOMAIN approvals
      BY DEF Types, LocalOK, At
    <3>3. QED
      BY <2>2, <3>1, <3>2, CreateApprovalEffect DEF NoRival, At
  <2>3. ASSUME UNCHANGED <<handler, approvals, raced>> PROVE NoRival'
    BY <2>3 DEF NoRival, At
  <2>4. CASE Next
    BY <2>4, <2>1, <2>2, <2>3, DecideKeepsNoRival, ReadKeepsNoRival, StepKinds
  <2>5. CASE UNCHANGED vars
    BY <2>3, <2>5 DEF vars
  <2>6. QED
    BY <2>4, <2>5
<1>3. QED
  BY <1>1, <1>2, ReviewTypes, PTL DEF Spec

\* DecisionFinal: a decision is overwritten only by one of two handlers that had
\* read the request together.
THEOREM DecisionsFinal == Spec => DecisionFinal
<1>1. Types /\ NoRival /\ [Next]_vars =>
        [\A a \in DOMAIN approvals :
           approvals[a].status # "pending" /\ a \notin raced =>
             approvals'[a].status = approvals[a].status]_vars
  <2> SUFFICES ASSUME Types, NoRival, Next, NEW a \in DOMAIN approvals,
                      approvals[a].status # "pending", a \notin raced
               PROVE  approvals'[a].status = approvals[a].status
    OBVIOUS
  <2>1. ASSUME NEW h \in Handlers, CreateApproval(h)
        PROVE  approvals'[a].status = approvals[a].status
    BY <2>1, CreateApprovalEffect
  <2>2. ASSUME NEW h \in Handlers, Decide(h)
        PROVE  approvals'[a].status = approvals[a].status
    <3>1. handler[h].approval # a
      BY <2>2, DecideEffect DEF NoRival
    <3>2. QED
      BY <2>2, <3>1, DecideEffect
  <2>3. QED
    BY <2>1, <2>2, StepKinds, ReadApprovalEffect DEF Elsewhere
<1>2. QED
  BY <1>1, ReviewTypes, RivalsOnRecord, PTL DEF Spec, DecisionFinal

-----------------------------------------------------------------------------
(* What the steps do to the variables of a handler.                        *)

\* The step is one of h's, whose variables become l.
Becomes(h, l) ==
  /\ l \in Local /\ handler'[h] = l
  /\ \A g \in Handlers : g # h => handler'[g] = handler[g]

\* A handler whose variables change is the only one to move.
LEMMA Became ==
  ASSUME Types, NEW h \in Handlers, NEW l \in Local, handler' = [handler EXCEPT ![h] = l]
  PROVE  Becomes(h, l)
BY DEF Types, Becomes

\* A handler without anything to do.
LEMMA IdleFields ==
  /\ Idle \in Local /\ Idle.pc = "idle" /\ Idle.record = {} /\ Idle.approval = 0
  /\ \A trades \in Seq(Trades), n \in Nat :
       LET l == [Idle EXCEPT !.pc = "read", !.todo = trades, !.id = n]
       IN  l \in Local /\ l.pc = "read" /\ l.todo = trades /\ l.id = n /\ l.record = {}
<1>1. Idle \in Local /\ Idle.pc = "idle" /\ Idle.record = {} /\ Idle.approval = 0
  BY IdleOK DEF LocalOK, Idle
<1>2. ASSUME NEW trades \in Seq(Trades), NEW n \in Nat
      PROVE  LET l == [Idle EXCEPT !.pc = "read", !.todo = trades, !.id = n]
             IN  l \in Local /\ l.pc = "read" /\ l.todo = trades /\ l.id = n /\ l.record = {}
  <2> DEFINE a == [Idle EXCEPT !.pc = "read"]
             b == [a EXCEPT !.todo = trades]
             c == [b EXCEPT !.id = n]
  <2>1. a \in Local /\ a.pc = "read" /\ a.record = {}
    BY <1>1 DEF Local, Pcs
  <2> HIDE DEF a
  <2>2. b \in Local /\ b.pc = "read" /\ b.record = {} /\ b.todo = trades
    BY <2>1 DEF Local
  <2> HIDE DEF b
  <2>3. c \in Local /\ c.pc = "read" /\ c.record = {} /\ c.todo = trades /\ c.id = n
    BY <2>2 DEF Local
  <2>4. QED
    BY <2>3 DEF a, b
<1>3. QED
  BY <1>1, <1>2

\* A handler that takes up a list of trades gives them the next ids, ...
LEMMA StartBecomes ==
  ASSUME Types, NEW h \in Handlers, StartValidation(h)
  PROVE  \E l : /\ Becomes(h, l) /\ l.pc = "read" /\ l.todo \in Seq(Trades)
                /\ l.todo # << >> /\ l.id = started + 1 /\ l.record = {}
                /\ started' = started + Len(l.todo)
<1>1. PICK n \in 1..MaxBatch : \E trades \in [1..n -> Trades] :
        /\ started' = started + n
        /\ handler' = [handler EXCEPT ![h] =
             [Idle EXCEPT !.pc = "read", !.todo = trades, !.id = started + 1]]
  BY DEF StartValidation
<1>2. PICK trades \in [1..n -> Trades] :
        /\ started' = started + n
        /\ handler' = [handler EXCEPT ![h] =
             [Idle EXCEPT !.pc = "read", !.todo = trades, !.id = started + 1]]
  BY <1>1
<1>3. /\ trades \in Seq(Trades) /\ trades # << >> /\ Len(trades) = n
      /\ started + 1 \in Nat
  BY PreTradeAssumption DEF Types
<1> DEFINE l == [Idle EXCEPT !.pc = "read", !.todo = trades, !.id = started + 1]
<1>4. l \in Local /\ l.pc = "read" /\ l.todo = trades /\ l.id = started + 1 /\ l.record = {}
  BY <1>3, IdleFields
<1>5. handler' = [handler EXCEPT ![h] = l]
  BY <1>2
<1> HIDE DEF l
<1>6. Becomes(h, l)
  BY <1>4, <1>5, Became
<1>7. QED
  BY <1>2, <1>3, <1>4, <1>6

\* ... reads the position and finds the rules that a trade violates, ...
LEMMA ReadBecomes ==
  ASSUME Types, NEW h \in Handlers, ReadPosition(h)
  PROVE  \E l : /\ Becomes(h, l) /\ l.pc = "record"
                /\ l.todo = handler[h].todo /\ l.id = handler[h].id
                /\ l.record = ToRecord(l.lots)
<1> DEFINE lots == book.pos + Head(handler[h].todo)
           me == handler[h]
           a == [me EXCEPT !.pc = "record"]
           b == [a EXCEPT !.lots = lots]
           c == [b EXCEPT !.limit = book.limit]
           l == [c EXCEPT !.record = ToRecord(lots)]
<1>1. me \in Local /\ me.todo # << >> /\ Head(me.todo) \in Trades
  BY DEF Types, LocalOK, ReadPosition, At, Local
<1>2. lots \in Int /\ book.limit \in Nat
  <2>1. Head(me.todo) \in Int
    BY <1>1, PreTradeAssumption
  <2>2. book.pos \in Int /\ book.limit \in Nat
    BY PreTradeAssumption DEF Types, Book
  <2>3. QED
    BY <2>1, <2>2
<1>3. ToRecord(lots) \in SUBSET Rule
  <2>1. rules \subseteq Rule
    BY PreTradeAssumption DEF Types
  <2>2. QED
    BY <2>1 DEF ToRecord, Violations, Critical, High
<1>4. handler' = [handler EXCEPT ![h] = l]
  BY DEF ReadPosition
<1> HIDE DEF lots, me
<1>5. a \in Local /\ a.pc = "record" /\ a.todo = me.todo /\ a.id = me.id
  BY <1>1 DEF Local, Pcs
<1> HIDE DEF a
<1>6. b \in Local /\ b.pc = "record" /\ b.todo = me.todo /\ b.id = me.id /\ b.lots = lots
  BY <1>2, <1>5 DEF Local
<1> HIDE DEF b
<1>7. c \in Local /\ c.pc = "record" /\ c.todo = me.todo /\ c.id = me.id /\ c.lots = lots
  BY <1>2, <1>6 DEF Local
<1> HIDE DEF c
<1>8. /\ l \in Local /\ l.pc = "record" /\ l.todo = me.todo /\ l.id = me.id /\ l.lots = lots
      /\ l.record = ToRecord(lots)
  BY <1>3, <1>7 DEF Local
<1> HIDE DEF l
<1>9. QED
  BY <1>4, <1>8, Became DEF me

\* ... writes the event of one of them, ...
LEMMA BreachBecomes ==
  ASSUME Types, NEW h \in Handlers, RecordBreach(h)
  PROVE  \E l, rule : /\ Becomes(h, l) /\ l.pc = "record" /\ handler[h].pc = "record"
                      /\ l.todo = handler[h].todo /\ l.id = handler[h].id
                      /\ l.lots = handler[h].lots
                      /\ rule \in handler[h].record /\ l.record = handler[h].record \ {rule}
                      /\ events' = events \cup {<<handler[h].id, rule>>}
<1>1. PICK rule \in handler[h].record :
        /\ events' = events \cup {<<handler[h].id, rule>>}
        /\ handler' = [handler EXCEPT ![h].record = @ \ {rule}]
  BY DEF RecordBreach
<1> DEFINE me == handler[h]
           l == [me EXCEPT !.record = me.record \ {rule}]
<1>2. me \in Local /\ me.pc = "record"
  BY DEF Types, RecordBreach, At
<1>3. handler' = [handler EXCEPT ![h] = l]
  BY <1>1
<1> HIDE DEF me
<1>4. /\ l \in Local /\ l.pc = "record" /\ l.todo = me.todo /\ l.id = me.id
      /\ l.lots = me.lots /\ l.record = me.record \ {rule}
  BY <1>2 DEF Local
<1> HIDE DEF l
<1>5. Becomes(h, l)
  BY <1>3, <1>4, Became
<1>6. QED
  BY <1>1, <1>2, <1>4, <1>5 DEF me

\* The trades that a handler has yet to validate have the ids from the first's
\* up to, not including, this one.
Upto(l) == l.id + Len(l.todo)

\* ... and goes on to the next trade, if there is one.
LEMMA NextBecomes ==
  ASSUME Types, NEW h \in Handlers, handler[h].pc \in {"read", "record"},
         handler' = [handler EXCEPT ![h] = NextTrade(h)]
  PROVE  \E l : /\ Becomes(h, l) /\ l.record = {}
                /\ \/ l.pc = "idle"
                   \/ /\ l.pc = "read" /\ l.todo # << >>
                      /\ l.id = handler[h].id + 1 /\ Upto(l) = Upto(handler[h])
<1> DEFINE rest == Tail(handler[h].todo)
<1>1. /\ handler[h] \in Local /\ handler[h].todo # << >> /\ handler[h].todo \in Seq(Trades)
      /\ handler[h].id \in Nat /\ handler[h].id + 1 \in Nat
  BY DEF Types, LocalOK, Local
<1>2. rest \in Seq(Trades) /\ Len(rest) = Len(handler[h].todo) - 1
      /\ Len(handler[h].todo) \in Nat
  BY <1>1
<1>3. CASE rest = << >>
  BY <1>3, Became, IdleFields DEF NextTrade
<1>4. CASE rest # << >>
  <2> DEFINE l == [Idle EXCEPT !.pc = "read", !.todo = rest, !.id = handler[h].id + 1]
  <2>1. /\ l \in Local /\ l.pc = "read" /\ l.todo = rest /\ l.id = handler[h].id + 1
        /\ l.record = {}
    BY <1>1, <1>2, IdleFields
  <2>2. handler' = [handler EXCEPT ![h] = l]
    BY <1>4 DEF NextTrade
  <2> HIDE DEF l
  <2>3. Becomes(h, l)
    BY <2>1, <2>2, Became
  <2>4. Upto(l) = Upto(handler[h])
    BY <1>1, <1>2, <2>1 DEF Upto
  <2>5. QED
    BY <1>4, <2>1, <2>3, <2>4
<1>5. QED
  BY <1>3, <1>4

\* A handler that takes up a request has one of those there are, ...
LEMMA TakeUpBecomes ==
  ASSUME Types, NEW h \in Handlers, ReadApproval(h)
  PROVE  \E l : /\ Becomes(h, l) /\ l.pc = "decide" /\ l.record = {}
                /\ l.approval \in DOMAIN approvals /\ l.decision \in Decisions
<1>1. PICK a \in DOMAIN approvals, decision \in Decisions :
        handler' = [handler EXCEPT ![h] =
          [Idle EXCEPT !.pc = "decide", !.approval = a, !.decision = decision]]
  BY DEF ReadApproval, Decisions
<1> DEFINE l == [Idle EXCEPT !.pc = "decide", !.approval = a, !.decision = decision]
<1>2. LocalOK(l) /\ l.pc = "decide" /\ l.approval = a /\ l.decision = decision
  BY DecidingOK
<1>3. l.record = {}
  BY DEF Idle
<1>4. handler' = [handler EXCEPT ![h] = l]
  BY <1>1
<1> HIDE DEF l
<1>5. Becomes(h, l)
  BY <1>2, <1>4, Became DEF LocalOK
<1>6. QED
  BY <1>2, <1>3, <1>5

\* A decision goes on to its next statement.
LEMMA PcBecomes ==
  ASSUME Types, NEW h \in Handlers, NEW pc \in {"release", "audit"},
         handler' = [handler EXCEPT ![h].pc = pc]
  PROVE  \E l : /\ Becomes(h, l) /\ l.pc = pc /\ l.record = handler[h].record
                /\ l.approval = handler[h].approval /\ l.decision = handler[h].decision
<1> DEFINE me == handler[h]
           l == [me EXCEPT !.pc = pc]
<1>1. me \in Local
  BY DEF Types
<1>2. handler' = [handler EXCEPT ![h] = l]
  OBVIOUS
<1> HIDE DEF me
<1>3. /\ l \in Local /\ l.pc = pc /\ l.record = me.record
      /\ l.approval = me.approval /\ l.decision = me.decision
  BY <1>1 DEF Local, Pcs
<1> HIDE DEF l
<1>4. QED
  BY <1>2, <1>3, Became DEF me

\* ... releases the check if it approved it, ...
LEMMA DecideBecomes ==
  ASSUME Types, NEW h \in Handlers, Decide(h)
  PROVE  \E l : /\ Becomes(h, l) /\ l.pc \in {"release", "audit"}
                /\ l.pc = "release" <=> handler[h].decision = "approved"
                /\ l.record = handler[h].record
                /\ l.approval = handler[h].approval /\ l.decision = handler[h].decision
<1> DEFINE pc == IF handler[h].decision = "approved" THEN "release" ELSE "audit"
<1>1. handler' = [handler EXCEPT ![h].pc = pc] /\ pc \in {"release", "audit"}
  BY DEF Decide
<1>2. pc = "release" <=> handler[h].decision = "approved"
  OBVIOUS
<1> HIDE DEF pc
<1>3. QED
  BY <1>1, <1>2, PcBecomes

\* ... writes the audit entry, ...
LEMMA ReleaseBecomes ==
  ASSUME Types, NEW h \in Handlers, Release(h)
  PROVE  \E l : /\ Becomes(h, l) /\ l.pc = "audit" /\ l.record = handler[h].record
                /\ l.approval = handler[h].approval /\ l.decision = handler[h].decision
BY PcBecomes DEF Release

\* ... and is idle again.
LEMMA EndBecomes ==
  ASSUME Types, NEW h \in Handlers, WriteAudit(h) \/ FailDecision(h)
  PROVE  Becomes(h, Idle)
BY IdleFields, Became DEF WriteAudit, FailDecision
-----------------------------------------------------------------------------
(* What becomes of the checks.                                             *)

\* Among natural numbers one is least.
LEMMA LeastMin ==
  ASSUME NEW B, B \subseteq Nat, B # {}
  PROVE  \E n \in B : \A m \in B : n <= m
<1>1. \E n \in B : \A m \in B : ~(<<m, n>> \in OpToRel(<, Nat))
  BY NatLessThanWellFounded, WFMin
<1>2. PICK n \in B : \A m \in B : ~(<<m, n>> \in OpToRel(<, Nat))
  BY <1>1
<1>3. ASSUME NEW m \in B PROVE n <= m
  <2>1. m \in Nat /\ n \in Nat /\ ~(m < n)
    BY <1>2 DEF OpToRel
  <2>2. QED
    BY <2>1
<1>4. QED
  BY <1>3

\* The status is one of those the column may hold.
LEMMA StatusTyped ==
  ASSUME NEW n, NEW limit
  PROVE  ThresholdStatus(n, limit) \in Statuses
<1> DEFINE M == Matching(n, limit)
<1>1. CASE M = {}
  BY <1>1 DEF ThresholdStatus, Statuses
<1>2. CASE M # {}
  <2> DEFINE B == {t.min : t \in M}
  <2>1. M \subseteq Thresholds /\ \A t \in M : t.min \in Nat /\ t.type \in ThresholdTypes
    BY PreTradeAssumption DEF Matching
  <2>2. B \subseteq Nat /\ B # {}
    BY <1>2, <2>1
  <2> HIDE DEF B
  <2>3. PICK m \in B : \A k \in B : m <= k
    BY <2>2, LeastMin
  <2> USE DEF B
  <2>4. \E t \in M : \A u \in M : t.min <= u.min
    BY <2>3
  <2> HIDE DEF M, B
  <2>5. (CHOOSE t \in M : \A u \in M : t.min <= u.min) \in M
    BY <2>4
  <2>6. ThresholdStatus(n, limit) = (CHOOSE t \in M : \A u \in M : t.min <= u.min).type
    BY <1>2 DEF ThresholdStatus, M
  <2>7. QED
    BY <2>1, <2>5, <2>6 DEF Statuses
<1>3. QED
  BY <1>1, <1>2

\* A verdict is a status and whether the trade may proceed.
LEMMA VerdictTyped ==
  ASSUME NEW n, NEW limit
  PROVE  VerdictOf(n, limit).status \in Statuses /\ VerdictOf(n, limit).can \in BOOLEAN
<1> DEFINE status == ThresholdStatus(n, limit)
           plain == [status |-> status, can |-> status # "blocked"]
           action == FirstCritical(rules, n).action
<1>1. status \in Statuses
  BY StatusTyped
<1>2. VerdictOf(n, limit) =
        CASE ~Compliant(rules, n) /\ action = "block_trade" ->
               [status |-> "blocked", can |-> FALSE]
          [] ~Compliant(rules, n) /\ action = "require_approval" ->
               [status |-> "requires_approval", can |-> FALSE]
          [] OTHER -> plain
  BY DEF VerdictOf
<1>3. plain.status \in Statuses /\ plain.can \in BOOLEAN
  BY <1>1
<1> HIDE DEF action, plain
<1>4. VerdictOf(n, limit) \in {[status |-> "blocked", can |-> FALSE],
                               [status |-> "requires_approval", can |-> FALSE], plain}
  BY <1>2
<1> HIDE DEF VerdictOf
<1>5. CASE VerdictOf(n, limit) = [status |-> "blocked", can |-> FALSE]
  BY <1>5 DEF Statuses
<1>6. CASE VerdictOf(n, limit) = [status |-> "requires_approval", can |-> FALSE]
  BY <1>6 DEF Statuses
<1>7. CASE VerdictOf(n, limit) = plain
  BY <1>3, <1>7
<1>8. QED
  BY <1>4, <1>5, <1>6, <1>7

\* The checks there were keep what they were about and what they gave.
KeepsChecks ==
  /\ checks' \in Seq(Check) /\ DOMAIN checks \subseteq DOMAIN checks'
  /\ \A c \in DOMAIN checks :
       /\ checks'[c].id = checks[c].id /\ checks'[c].lots = checks[c].lots
       /\ checks'[c].given = checks[c].given

\* A step that leaves the table alone keeps every check.
LEMMA ChecksSame ==
  ASSUME checks \in Seq(Check), checks' = checks
  PROVE  KeepsChecks
BY DEF KeepsChecks

\* The row of a check is complete.
LEMMA CheckFields ==
  ASSUME checks \in Seq(Check), NEW c \in DOMAIN checks
  PROVE  /\ checks[c] \in Check /\ c \in 1..Len(checks)
         /\ checks[c].id \in Nat /\ checks[c].can \in BOOLEAN /\ checks[c].given \in BOOLEAN
<1>1. c \in 1..Len(checks) /\ checks[c] \in Check
  OBVIOUS
<1>2. QED
  BY <1>1 DEF Check

\* Saving adds one check, of the trade at hand.
LEMMA SaveAdds ==
  ASSUME Types, checks \in Seq(Check), NEW h \in Handlers, SaveCheck(h)
  PROVE  /\ KeepsChecks /\ Len(checks') = Len(checks) + 1
         /\ DOMAIN checks' = DOMAIN checks \cup {Len(checks) + 1}
         /\ \A c \in DOMAIN checks : checks'[c] = checks[c]
         /\ checks'[Len(checks) + 1].id = handler[h].id
         /\ checks'[Len(checks) + 1].lots = handler[h].lots
         /\ checks'[Len(checks) + 1].can = checks'[Len(checks) + 1].given
<1> DEFINE me == handler[h]
           verdict == VerdictOf(me.lots, me.limit)
           row == [lots |-> me.lots, limit |-> me.limit, status |-> verdict.status,
                   can |-> verdict.can, given |-> verdict.can, id |-> me.id]
<1>1. me \in Local
  BY DEF Types
<1>2. verdict.status \in Statuses /\ verdict.can \in BOOLEAN
  BY VerdictTyped
<1>3. checks' = Append(checks, row)
  BY DEF SaveCheck
<1> HIDE DEF verdict, me
<1>4. row \in Check /\ row.id = me.id /\ row.lots = me.lots /\ row.can = row.given
  BY <1>1, <1>2 DEF Check, Local
<1> HIDE DEF row
<1>5. /\ checks' \in Seq(Check) /\ Len(checks') = Len(checks) + 1
      /\ DOMAIN checks = 1..Len(checks) /\ DOMAIN checks' = 1..(Len(checks) + 1)
      /\ Len(checks) \in Nat
      /\ \A c \in 1..Len(checks) : checks'[c] = checks[c]
      /\ checks'[Len(checks) + 1] = row
  BY <1>3, <1>4, AppendProperties
<1>6. 1..(Len(checks) + 1) = 1..Len(checks) \cup {Len(checks) + 1}
  BY <1>5
<1>7. KeepsChecks
  BY <1>5, <1>6 DEF KeepsChecks
<1>8. QED
  BY <1>4, <1>5, <1>6, <1>7 DEF me

\* A release changes the check of its request and no other.
LEMMA ReleaseSets ==
  ASSUME Types, checks \in Seq(Check), NEW h \in Handlers, Release(h),
         CheckOf(handler[h].approval) \in DOMAIN checks
  PROVE  /\ KeepsChecks /\ Len(checks') = Len(checks) /\ DOMAIN checks' = DOMAIN checks
         /\ checks'[CheckOf(handler[h].approval)].can
         /\ \A c \in DOMAIN checks : c # CheckOf(handler[h].approval) => checks'[c] = checks[c]
<1> DEFINE c == CheckOf(handler[h].approval)
           old == checks[c]
           row == [old EXCEPT !.status = "approved", !.can = TRUE]
<1>1. checks' = [checks EXCEPT ![c] = row] /\ c \in 1..Len(checks) /\ old \in Check
  BY CheckFields DEF Release, Released
<1> HIDE DEF c, old
<1>2. /\ row \in Check /\ row.can /\ row.id = old.id /\ row.lots = old.lots
      /\ row.given = old.given
  <2> DEFINE a == [old EXCEPT !.status = "approved"]
             b == [a EXCEPT !.can = TRUE]
  <2>1. a \in Check /\ a.id = old.id /\ a.lots = old.lots /\ a.given = old.given
    BY <1>1 DEF Check, Statuses
  <2>2. row = b
    OBVIOUS
  <2> HIDE DEF a
  <2>3. b \in Check /\ b.can /\ b.id = a.id /\ b.lots = a.lots /\ b.given = a.given
    BY <2>1 DEF Check
  <2>4. QED
    BY <2>1, <2>2, <2>3
<1> HIDE DEF row
<1>3. /\ checks' \in Seq(Check) /\ Len(checks') = Len(checks)
      /\ DOMAIN checks' = DOMAIN checks /\ DOMAIN checks = 1..Len(checks)
      /\ checks'[c] = row
      /\ \A d \in DOMAIN checks : d # c => checks'[d] = checks[d]
  BY <1>1, <1>2, ExceptSeq
<1>4. KeepsChecks
  BY <1>2, <1>3 DEF KeepsChecks, old
<1>5. QED
  BY <1>2, <1>3, <1>4 DEF c
-----------------------------------------------------------------------------
(* TypeOK.                                                                 *)

\* What a handler keeps: rules in force, and a request that exists.
HandlerOK(l, requests) ==
  /\ l.record \subseteq rules
  /\ l.pc \in {"decide", "release", "audit"} =>
       l.approval \in requests /\ l.decision \in Decisions
  /\ l.pc = "release" => l.decision = "approved"

RowsInv ==
  /\ checks \in Seq(Check)
  /\ events \subseteq (1..started) \X rules
  /\ \A a \in DOMAIN approvals : CheckOf(a) \in DOMAIN checks
  /\ audit \subseteq (DOMAIN checks) \X Decisions
  /\ \A h \in Handlers : HandlerOK(handler[h], DOMAIN approvals)

\* The ids of the trades validated and to be validated are of those submitted,
\* and no two are the same.
Validating(l) == l.pc \in {"read", "record"}

IdsInv ==
  /\ \A c \in DOMAIN checks : checks[c].id \in 1..started
  /\ \A c, d \in DOMAIN checks : checks[c].id = checks[d].id => c = d
  /\ \A h \in Handlers : Validating(handler[h]) =>
       /\ 1 <= handler[h].id /\ Upto(handler[h]) <= started + 1
       /\ \A c \in DOMAIN checks :
            checks[c].id < handler[h].id \/ Upto(handler[h]) <= checks[c].id
       /\ \A g \in Handlers : g # h /\ Validating(handler[g]) =>
            Upto(handler[g]) <= handler[h].id \/ Upto(handler[h]) <= handler[g].id

\* A handler that validates has at least one trade to validate.
LEMMA ValidatingFields ==
  ASSUME Types, NEW h \in Handlers, Validating(handler[h])
  PROVE  /\ handler[h].id \in Nat /\ Upto(handler[h]) \in Nat
         /\ handler[h].id < Upto(handler[h])
<1>1. handler[h] \in Local /\ handler[h].todo # << >>
  BY DEF Types, LocalOK, Validating
<1>2. handler[h].todo \in Seq(Trades) /\ handler[h].id \in Nat
  BY <1>1 DEF Local
<1>3. Len(handler[h].todo) \in Nat /\ Len(handler[h].todo) # 0
  BY <1>1, <1>2, EmptySeq
<1>4. QED
  BY <1>2, <1>3 DEF Upto

\* No request disappears or turns to another check.
LEMMA RequestsStay ==
  ASSUME Types, Next
  PROVE  /\ DOMAIN approvals \subseteq DOMAIN approvals'
         /\ \A a \in DOMAIN approvals : approvals'[a].check = approvals[a].check
         /\ approvals' = approvals \/ \E h \in Handlers : CreateApproval(h) \/ Decide(h)
<1>1. ASSUME NEW h \in Handlers, CreateApproval(h)
      PROVE  /\ DOMAIN approvals \subseteq DOMAIN approvals'
             /\ \A a \in DOMAIN approvals : approvals'[a].check = approvals[a].check
  BY <1>1, CreateApprovalEffect DEF Types
<1>2. ASSUME NEW h \in Handlers, Decide(h)
      PROVE  /\ DOMAIN approvals \subseteq DOMAIN approvals'
             /\ \A a \in DOMAIN approvals : approvals'[a].check = approvals[a].check
  <2>1. approvals' = [approvals EXCEPT ![handler[h].approval].status = handler[h].decision]
    BY <1>2 DEF Decide
  <2>2. approvals \in Seq(Approval)
    BY DEF Types
  <2>3. \A a \in DOMAIN approvals : approvals[a] \in Approval
    BY <2>2
  <2> DEFINE b == handler[h].approval
             row == [approvals[b] EXCEPT !.status = handler[h].decision]
  <2>4. approvals' = [approvals EXCEPT ![b] = row]
    BY <2>1
  <2>5. b \in DOMAIN approvals => row.check = approvals[b].check
    BY <2>3 DEF Approval
  <2> HIDE DEF b, row
  <2>6. QED
    BY <2>2, <2>4, <2>5
<1>3. approvals' = approvals \/ \E h \in Handlers : CreateApproval(h) \/ Decide(h)
  BY DEF Next, Recalculate, StartValidation, ReadPosition, RecordBreach, SaveCheck,
       FailValidation, ReadApproval, Release, WriteAudit, FailDecision
<1>4. QED
  BY <1>1, <1>2, <1>3

\* Rules in force.
LEMMA ToRecordInForce ==
  ASSUME NEW n
  PROVE  ToRecord(n) \subseteq rules
BY DEF ToRecord, Violations, Critical, High

\* A step of h leaves all handlers in order if it does h.
LEMMA HandlersOK ==
  ASSUME Types, RowsInv, rules' = rules, DOMAIN approvals \subseteq DOMAIN approvals',
         NEW h \in Handlers, NEW l, Becomes(h, l), HandlerOK(l, DOMAIN approvals')
  PROVE  \A g \in Handlers : HandlerOK(handler[g], DOMAIN approvals)'
<1> SUFFICES ASSUME NEW g \in Handlers PROVE HandlerOK(handler[g], DOMAIN approvals)'
  OBVIOUS
<1>1. CASE g = h
  BY <1>1 DEF Becomes, HandlerOK
<1>2. CASE g # h
  BY <1>2 DEF Becomes, HandlerOK, RowsInv
<1>3. QED
  BY <1>1, <1>2

\* Every step leaves the handlers in order.
LEMMA HandlersKept ==
  ASSUME Types, RowsInv, Next
  PROVE  \A g \in Handlers : HandlerOK(handler[g], DOMAIN approvals)'
<1> DEFINE Goal == \A g \in Handlers : HandlerOK(handler[g], DOMAIN approvals)'
<1>1. rules' = rules /\ DOMAIN approvals \subseteq DOMAIN approvals'
  BY RequestsStay
     DEF Next, Recalculate, StartValidation, ReadPosition, RecordBreach, SaveCheck,
         FailValidation, CreateApproval, ReadApproval, Decide, Release, WriteAudit, FailDecision
<1>2. ASSUME NEW h \in Handlers, NEW l, Becomes(h, l), l.record = {},
             l.pc \in {"idle", "read"}
      PROVE  Goal
  BY <1>1, <1>2, HandlersOK DEF HandlerOK
<1>3. ASSUME NEW h \in Handlers, StartValidation(h) PROVE Goal
  BY <1>2, <1>3, StartBecomes
<1>4. ASSUME NEW h \in Handlers, SaveCheck(h) \/ FailValidation(h) PROVE Goal
  <2>1. handler[h].pc \in {"read", "record"} /\ handler' = [handler EXCEPT ![h] = NextTrade(h)]
    BY <1>4 DEF SaveCheck, FailValidation, At
  <2>2. QED
    BY <1>2, <2>1, NextBecomes
<1>5. ASSUME NEW h \in Handlers, WriteAudit(h) \/ FailDecision(h) PROVE Goal
  BY <1>2, <1>5, EndBecomes, IdleFields
<1>6. ASSUME NEW h \in Handlers, ReadPosition(h) PROVE Goal
  BY <1>1, <1>6, ReadBecomes, ToRecordInForce, HandlersOK DEF HandlerOK
<1>7. ASSUME NEW h \in Handlers, RecordBreach(h) PROVE Goal
  <2>1. PICK l, rule : /\ Becomes(h, l) /\ l.pc = "record"
                       /\ l.record = handler[h].record \ {rule}
    BY <1>7, BreachBecomes
  <2>2. HandlerOK(l, DOMAIN approvals')
    BY <2>1 DEF HandlerOK, RowsInv
  <2>3. QED
    BY <1>1, <2>1, <2>2, HandlersOK
<1>8. ASSUME NEW h \in Handlers, ReadApproval(h) PROVE Goal
  <2>1. PICK l : /\ Becomes(h, l) /\ l.pc = "decide" /\ l.record = {}
                 /\ l.approval \in DOMAIN approvals /\ l.decision \in Decisions
    BY <1>8, TakeUpBecomes
  <2>2. HandlerOK(l, DOMAIN approvals')
    BY <1>1, <2>1 DEF HandlerOK
  <2>3. QED
    BY <1>1, <2>1, <2>2, HandlersOK
<1>9. ASSUME NEW h \in Handlers, Decide(h) PROVE Goal
  <2>1. PICK l : /\ Becomes(h, l) /\ l.pc \in {"release", "audit"}
                 /\ l.pc = "release" <=> handler[h].decision = "approved"
                 /\ l.record = handler[h].record
                 /\ l.approval = handler[h].approval /\ l.decision = handler[h].decision
    BY <1>9, DecideBecomes
  <2>2. HandlerOK(l, DOMAIN approvals')
    BY <1>1, <1>9, <2>1 DEF HandlerOK, RowsInv, Decide, At
  <2>3. QED
    BY <1>1, <2>1, <2>2, HandlersOK
<1>10. ASSUME NEW h \in Handlers, Release(h) PROVE Goal
  <2>1. PICK l : /\ Becomes(h, l) /\ l.pc = "audit" /\ l.record = handler[h].record
                 /\ l.approval = handler[h].approval /\ l.decision = handler[h].decision
    BY <1>10, ReleaseBecomes
  <2>2. HandlerOK(l, DOMAIN approvals')
    BY <1>1, <1>10, <2>1 DEF HandlerOK, RowsInv, Release, At
  <2>3. QED
    BY <1>1, <2>1, <2>2, HandlersOK
<1>11. ASSUME handler' = handler PROVE Goal
  BY <1>1, <1>11 DEF HandlerOK, RowsInv
<1>12. CASE Recalculate \/ \E h \in Handlers : CreateApproval(h)
  BY <1>11, <1>12 DEF Recalculate, CreateApproval
<1>13. ASSUME NEW h \in Handlers,
              \/ StartValidation(h) \/ ReadPosition(h) \/ RecordBreach(h) \/ SaveCheck(h)
              \/ FailValidation(h) \/ ReadApproval(h) \/ Decide(h) \/ Release(h)
              \/ WriteAudit(h) \/ FailDecision(h)
       PROVE  Goal
  <2> HIDE DEF Goal
  <2>1. QED
    BY <1>3, <1>4, <1>5, <1>6, <1>7, <1>8, <1>9, <1>10, <1>13, Zenon
<1>14. QED
  BY <1>12, <1>13 DEF Next

\* What a step does to the checks.
LEMMA ChecksKept ==
  ASSUME Types, RowsInv, Next
  PROVE  /\ KeepsChecks
         /\ checks' = checks \/ \E h \in Handlers : SaveCheck(h) \/ Release(h)
<1>1. checks' = checks \/ \E h \in Handlers : SaveCheck(h) \/ Release(h)
  BY DEF Next, Recalculate, StartValidation, ReadPosition, RecordBreach,
         FailValidation, CreateApproval, ReadApproval, Decide, WriteAudit, FailDecision
<1>2. ASSUME NEW h \in Handlers, SaveCheck(h) PROVE KeepsChecks
  BY <1>2, SaveAdds DEF RowsInv
<1>3. ASSUME NEW h \in Handlers, Release(h) PROVE KeepsChecks
  <2>1. CheckOf(handler[h].approval) \in DOMAIN checks
    BY <1>3 DEF RowsInv, HandlerOK, Release, At
  <2>2. QED
    BY <1>3, <2>1, ReleaseSets DEF RowsInv
<1>4. QED
  BY <1>1, <1>2, <1>3, ChecksSame DEF RowsInv

\* Every step keeps the references between the rows.
LEMMA RowsKept ==
  ASSUME Types, Types', RowsInv, IdsInv, Next
  PROVE  RowsInv'
<1>1. KeepsChecks
  BY ChecksKept
<1>2. events' \subseteq ((1..started) \X rules)'
  <2>1. rules' = rules
    BY DEF Next, Recalculate, StartValidation, ReadPosition, RecordBreach, SaveCheck,
         FailValidation, CreateApproval, ReadApproval, Decide, Release, WriteAudit, FailDecision
  <2>2. CASE \E h \in Handlers : RecordBreach(h)
    <3>1. PICK h \in Handlers : RecordBreach(h)
      BY <2>2
    <3>2. PICK rule \in handler[h].record : events' = events \cup {<<handler[h].id, rule>>}
      BY <3>1 DEF RecordBreach
    <3>3. handler[h].id \in 1..started
      <4>1. Validating(handler[h])
        BY <3>1 DEF RecordBreach, At, Validating
      <4>2. 1 <= handler[h].id /\ Upto(handler[h]) <= started + 1 /\ started \in Nat
        BY <4>1 DEF IdsInv, Types
      <4>3. QED
        BY <4>1, <4>2, ValidatingFields
    <3>4. rule \in rules /\ started' = started
      BY <3>1 DEF RowsInv, HandlerOK, RecordBreach
    <3>5. QED
      BY <2>1, <3>2, <3>3, <3>4 DEF RowsInv
  <2>3. CASE ~ \E h \in Handlers : RecordBreach(h)
    <3>1. events' = events
      BY <2>3 DEF Next, Recalculate, StartValidation, ReadPosition, SaveCheck,
         FailValidation, CreateApproval, ReadApproval, Decide, Release, WriteAudit, FailDecision
    <3>2. started <= started' /\ started \in Nat /\ started' \in Nat
      <4>1. CASE \E h \in Handlers : StartValidation(h)
        <5>1. PICK h \in Handlers, n \in 1..MaxBatch : started' = started + n
          BY <4>1 DEF StartValidation
        <5>2. QED
          BY <5>1, PreTradeAssumption DEF Types
      <4>2. CASE ~ \E h \in Handlers : StartValidation(h)
        <5>1. started' = started
          BY <2>3, <4>2 DEF Next, Recalculate, ReadPosition, SaveCheck, FailValidation,
             CreateApproval, ReadApproval, Decide, Release, WriteAudit, FailDecision
        <5>2. QED
          BY <5>1 DEF Types
      <4>3. QED
        BY <4>1, <4>2
    <3>3. (1..started) \subseteq (1..started')
      BY <3>2
    <3>4. QED
      BY <2>1, <3>1, <3>3 DEF RowsInv
  <2>4. QED
    BY <2>2, <2>3
<1>3. \A a \in DOMAIN approvals' : CheckOf(a)' \in DOMAIN checks'
  <2>1. CASE \E h \in Handlers : CreateApproval(h)
    <3>1. PICK h \in Handlers : CreateApproval(h)
      BY <2>1
    <3>2. PICK c \in DOMAIN checks :
            approvals' = Append(approvals, [check |-> c, status |-> "pending"])
      BY <3>1 DEF CreateApproval
    <3> DEFINE row == [check |-> c, status |-> "pending"]
    <3>3. row.check = c /\ row \in Approval
      BY <3>2 DEF Approval, RowsInv
    <3> HIDE DEF row
    <3>4. approvals \in Seq(Approval) /\ approvals' = Append(approvals, row)
      BY <3>2 DEF Types, row
    <3>5. \A a \in DOMAIN approvals' : a \in DOMAIN approvals \/ approvals'[a] = row
      BY <3>3, <3>4, AppendProperties
    <3>6. \A a \in DOMAIN approvals : approvals'[a] = approvals[a]
      BY <3>3, <3>4, AppendProperties
    <3>7. QED
      BY <1>1, <3>2, <3>3, <3>5, <3>6 DEF KeepsChecks, RowsInv, CheckOf
  <2>2. CASE ~ \E h \in Handlers : CreateApproval(h)
    <3>1. DOMAIN approvals' = DOMAIN approvals
      BY <2>2, RequestsStay, DecideEffect DEF Types
    <3>2. \A a \in DOMAIN approvals : approvals'[a].check = approvals[a].check
      BY RequestsStay
    <3>3. QED
      BY <1>1, <3>1, <3>2 DEF KeepsChecks, RowsInv, CheckOf
  <2>3. QED
    BY <2>1, <2>2
<1>4. audit' \subseteq ((DOMAIN checks) \X Decisions)'
  <2>1. CASE \E h \in Handlers : WriteAudit(h)
    <3>1. PICK h \in Handlers : WriteAudit(h)
      BY <2>1
    <3>2. /\ audit' = audit \cup {<<CheckOf(handler[h].approval), handler[h].decision>>}
          /\ handler[h].pc = "audit"
      BY <3>1 DEF WriteAudit, Entry, At
    <3>3. CheckOf(handler[h].approval) \in DOMAIN checks /\ handler[h].decision \in Decisions
      BY <3>2 DEF RowsInv, HandlerOK
    <3>4. QED
      BY <1>1, <3>2, <3>3 DEF RowsInv, KeepsChecks
  <2>2. CASE ~ \E h \in Handlers : WriteAudit(h)
    <3>1. audit' = audit
      BY <2>2 DEF Next, Recalculate, StartValidation, ReadPosition, RecordBreach, SaveCheck,
         FailValidation, CreateApproval, ReadApproval, Decide, Release, FailDecision
    <3>2. QED
      BY <1>1, <3>1 DEF RowsInv, KeepsChecks
  <2>3. QED
    BY <2>1, <2>2
<1>5. QED
  BY <1>1, <1>2, <1>3, <1>4, HandlersKept DEF RowsInv, KeepsChecks

\* Handlers that validate have ranges of ids that do not meet.
Apart(l, m) == Upto(l) <= m.id \/ Upto(m) <= l.id

\* The range of l lies in that of m.
Within(l, m) == m.id <= l.id /\ Upto(l) <= Upto(m)

\* A handler that validates has a range of ids that is not empty.
LEMMA RangeOf ==
  ASSUME NEW l \in Local, l.todo # << >>
  PROVE  l.id \in Nat /\ Upto(l) \in Nat /\ l.id < Upto(l)
<1>1. l.todo \in Seq(Trades) /\ l.id \in Nat
  BY DEF Local
<1>2. Len(l.todo) \in Nat /\ Len(l.todo) # 0
  BY <1>1, EmptySeq
<1>3. QED
  BY <1>1, <1>2 DEF Upto

\* A handler keeps its range of ids or a part of it, or stops validating.
LEMMA IdsNarrowed ==
  ASSUME Types, IdsInv, NEW h \in Handlers, NEW l, Becomes(h, l), started' = started,
         DOMAIN checks' = DOMAIN checks, \A c \in DOMAIN checks : checks'[c].id = checks[c].id,
         \/ ~Validating(l)
         \/ Validating(handler[h]) /\ l.todo # << >> /\ Within(l, handler[h])
  PROVE  IdsInv'
<1>1. /\ \A c \in DOMAIN checks' : checks'[c].id \in 1..started'
      /\ \A c, d \in DOMAIN checks' : checks'[c].id = checks'[d].id => c = d
  BY DEF IdsInv
<1>2. \A g \in Handlers : Validating(handler[g]) =>
        handler[g].id \in Nat /\ Upto(handler[g]) \in Nat /\ handler[g].id < Upto(handler[g])
  BY ValidatingFields
<1>3. /\ started \in Nat /\ \A c \in DOMAIN checks : checks[c].id \in Nat
      /\ Validating(l) => l.id \in Nat /\ Upto(l) \in Nat
  BY RangeOf DEF Types, IdsInv, Becomes
<1>4. ASSUME NEW f \in Handlers, Validating(handler'[f])
      PROVE  /\ 1 <= handler'[f].id /\ Upto(handler'[f]) <= started' + 1
             /\ \A c \in DOMAIN checks' :
                  checks'[c].id < handler'[f].id \/ Upto(handler'[f]) <= checks'[c].id
  <2>1. CASE f = h
    <3>1. handler'[f] = l /\ Validating(handler[h]) /\ Within(l, handler[h])
      BY <1>4, <2>1 DEF Becomes
    <3>2. QED
      BY <1>2, <1>3, <1>4, <3>1 DEF Within, IdsInv
  <2>2. CASE f # h
    <3>1. handler'[f] = handler[f]
      BY <2>2 DEF Becomes
    <3>2. QED
      BY <1>4, <3>1 DEF IdsInv
  <2>3. QED
    BY <2>1, <2>2
<1>5. ASSUME NEW f \in Handlers, NEW g \in Handlers, g # f,
             Validating(handler'[f]), Validating(handler'[g])
      PROVE  Upto(handler'[g]) <= handler'[f].id \/ Upto(handler'[f]) <= handler'[g].id
  <2>1. CASE f = h
    <3>1. /\ handler'[f] = l /\ Validating(handler[h]) /\ Within(l, handler[h])
          /\ handler'[g] = handler[g]
      BY <1>5, <2>1 DEF Becomes
    <3>2. QED
      BY <1>2, <1>3, <1>5, <2>1, <3>1 DEF Within, IdsInv
  <2>2. CASE g = h
    <3>1. /\ handler'[g] = l /\ Validating(handler[h]) /\ Within(l, handler[h])
          /\ handler'[f] = handler[f]
      BY <1>5, <2>2 DEF Becomes
    <3>2. QED
      BY <1>2, <1>3, <1>5, <2>2, <3>1 DEF Within, IdsInv
  <2>3. CASE f # h /\ g # h
    <3>1. handler'[f] = handler[f] /\ handler'[g] = handler[g]
      BY <2>3 DEF Becomes
    <3>2. QED
      BY <1>5, <3>1 DEF IdsInv
  <2>4. QED
    BY <2>1, <2>2, <2>3
<1>6. QED
  BY <1>1, <1>4, <1>5 DEF IdsInv

\* New ids are beyond all there are.
LEMMA StartKeepsIds ==
  ASSUME Types, IdsInv, NEW h \in Handlers, StartValidation(h)
  PROVE  IdsInv'
<1>1. PICK l : /\ Becomes(h, l) /\ l.pc = "read" /\ l.todo \in Seq(Trades)
               /\ l.todo # << >> /\ l.id = started + 1
               /\ started' = started + Len(l.todo)
  BY StartBecomes
<1>2. /\ started \in Nat /\ Len(l.todo) \in Nat /\ Upto(l) = started' + 1 /\ checks' = checks
      /\ l.id = started + 1 /\ started' \in Nat /\ started <= started'
  BY <1>1 DEF Types, Upto, StartValidation
<1>3. \A g \in Handlers : Validating(handler[g]) =>
        handler[g].id \in Nat /\ Upto(handler[g]) \in Nat /\ Upto(handler[g]) <= started + 1
  BY ValidatingFields DEF IdsInv
<1>4. \A c \in DOMAIN checks : checks[c].id \in Nat /\ 1 <= checks[c].id /\ checks[c].id <= started
  BY <1>2 DEF IdsInv
<1>5. /\ \A c \in DOMAIN checks' : checks'[c].id \in 1..started'
      /\ \A c, d \in DOMAIN checks' : checks'[c].id = checks'[d].id => c = d
  BY <1>2, <1>4 DEF IdsInv
<1>6. ASSUME NEW f \in Handlers, Validating(handler'[f])
      PROVE  /\ 1 <= handler'[f].id /\ Upto(handler'[f]) <= started' + 1
             /\ \A c \in DOMAIN checks' :
                  checks'[c].id < handler'[f].id \/ Upto(handler'[f]) <= checks'[c].id
  <2>1. CASE f = h
    <3>1. handler'[f] = l
      BY <1>1, <2>1 DEF Becomes
    <3>2. \A c \in DOMAIN checks : checks[c].id < l.id
      BY <1>2, <1>4
    <3>3. 1 <= l.id
      BY <1>2
    <3>4. Upto(l) <= started' + 1
      <4>1. \A n, m \in Int : n = m => n <= m
        OBVIOUS
      <4>2. Upto(l) = started' + 1 /\ Upto(l) \in Int /\ started' + 1 \in Int
        BY <1>2
      <4>3. QED
        BY <4>1, <4>2, Zenon
    <3>5. QED
      BY <1>2, <3>1, <3>2, <3>3, <3>4
  <2>2. CASE f # h
    <3>1. handler'[f] = handler[f]
      BY <1>1, <2>2 DEF Becomes
    <3>2. QED
      <4>1. /\ 1 <= handler[f].id /\ Upto(handler[f]) <= started + 1
            /\ Upto(handler[f]) \in Nat
            /\ \A c \in DOMAIN checks :
                 checks[c].id < handler[f].id \/ Upto(handler[f]) <= checks[c].id
        BY <1>3, <1>6, <3>1 DEF IdsInv
      <4>2. QED
        BY <1>2, <3>1, <4>1
  <2>3. QED
    BY <2>1, <2>2
<1>7. ASSUME NEW f \in Handlers, NEW g \in Handlers, g # f,
             Validating(handler'[f]), Validating(handler'[g])
      PROVE  Upto(handler'[g]) <= handler'[f].id \/ Upto(handler'[f]) <= handler'[g].id
  <2>1. CASE f = h
    <3>1. handler'[f] = l /\ handler'[g] = handler[g]
      BY <1>1, <1>7, <2>1 DEF Becomes
    <3>2. QED
      BY <1>2, <1>3, <1>7, <3>1
  <2>2. CASE g = h
    <3>1. handler'[g] = l /\ handler'[f] = handler[f]
      BY <1>1, <1>7, <2>2 DEF Becomes
    <3>2. QED
      BY <1>2, <1>3, <1>7, <3>1
  <2>3. CASE f # h /\ g # h
    <3>1. handler'[f] = handler[f] /\ handler'[g] = handler[g]
      BY <1>1, <2>3 DEF Becomes
    <3>2. QED
      BY <1>7, <3>1 DEF IdsInv
  <2>4. QED
    BY <2>1, <2>2, <2>3
<1>8. QED
  BY <1>5, <1>6, <1>7 DEF IdsInv

\* A saved check takes the first id of its handler's range.
LEMMA SaveKeepsIds ==
  ASSUME Types, RowsInv, IdsInv, NEW h \in Handlers, SaveCheck(h)
  PROVE  IdsInv'
<1>1. /\ handler[h].pc \in {"read", "record"} /\ started' = started
      /\ handler' = [handler EXCEPT ![h] = NextTrade(h)]
  BY DEF SaveCheck, At
<1>2. PICK l : /\ Becomes(h, l)
               /\ \/ l.pc = "idle"
                  \/ /\ l.pc = "read" /\ l.todo # << >>
                     /\ l.id = handler[h].id + 1 /\ Upto(l) = Upto(handler[h])
  BY <1>1, NextBecomes
<1> DEFINE new == Len(checks) + 1
           me == handler[h]
<1>3. /\ DOMAIN checks' = DOMAIN checks \cup {new} /\ checks'[new].id = me.id
      /\ \A c \in DOMAIN checks : checks'[c] = checks[c]
  BY SaveAdds DEF RowsInv
<1>4. /\ Validating(me) /\ me.id \in Nat /\ Upto(me) \in Nat /\ me.id < Upto(me)
      /\ 1 <= me.id /\ Upto(me) <= started + 1 /\ started \in Nat
  BY <1>1, ValidatingFields DEF Validating, IdsInv, Types
<1>5. \A g \in Handlers : Validating(handler[g]) =>
        handler[g].id \in Nat /\ Upto(handler[g]) \in Nat /\ handler[g].id < Upto(handler[g])
  BY ValidatingFields
<1>6. \A c \in DOMAIN checks :
        /\ checks[c].id \in Nat /\ 1 <= checks[c].id /\ checks[c].id <= started
        /\ checks[c].id < me.id \/ Upto(me) <= checks[c].id
        /\ checks[c].id # me.id
  BY <1>4 DEF IdsInv
<1>7. /\ Validating(l) => l.id = me.id + 1 /\ Upto(l) = Upto(me)
      /\ handler'[h] = l
  BY <1>2 DEF Validating, Becomes
<1> HIDE DEF new, me
<1>8. /\ \A c \in DOMAIN checks' : checks'[c].id \in 1..started'
      /\ \A c, d \in DOMAIN checks' : checks'[c].id = checks'[d].id => c = d
  <2>1. \A c \in DOMAIN checks' : checks'[c].id \in 1..started'
    BY <1>1, <1>3, <1>4, <1>6
  <2>2. \A c, d \in DOMAIN checks' : checks'[c].id = checks'[d].id => c = d
    BY <1>3, <1>6 DEF IdsInv
  <2>3. QED
    BY <2>1, <2>2
<1>9. ASSUME NEW f \in Handlers, Validating(handler'[f])
      PROVE  /\ 1 <= handler'[f].id /\ Upto(handler'[f]) <= started' + 1
             /\ \A c \in DOMAIN checks' :
                  checks'[c].id < handler'[f].id \/ Upto(handler'[f]) <= checks'[c].id
  <2>1. CASE f = h
    <3>1. handler'[f] = l /\ Validating(l)
      BY <1>7, <1>9, <2>1
    <3>2. \A c \in DOMAIN checks' : checks'[c].id < l.id \/ Upto(l) <= checks'[c].id
      BY <1>3, <1>4, <1>6, <1>7, <3>1
    <3>3. QED
      BY <1>1, <1>4, <1>7, <3>1, <3>2
  <2>2. CASE f # h
    <3>1. handler'[f] = handler[f]
      BY <1>2, <2>2 DEF Becomes
    <3>2. /\ 1 <= handler[f].id /\ Upto(handler[f]) <= started + 1
          /\ \A c \in DOMAIN checks :
               checks[c].id < handler[f].id \/ Upto(handler[f]) <= checks[c].id
      BY <1>9, <3>1 DEF IdsInv
    <3>3. Upto(handler[f]) <= me.id \/ Upto(me) <= handler[f].id
      BY <1>4, <1>9, <2>2, <3>1 DEF IdsInv, me
    <3>4. Upto(handler[f]) <= me.id \/ me.id < handler[f].id
      BY <1>4, <1>5, <1>9, <3>1, <3>3
    <3>5. QED
      BY <1>1, <1>3, <3>1, <3>2, <3>4
  <2>3. QED
    BY <2>1, <2>2
<1>10. ASSUME NEW f \in Handlers, NEW g \in Handlers, g # f,
              Validating(handler'[f]), Validating(handler'[g])
       PROVE  Upto(handler'[g]) <= handler'[f].id \/ Upto(handler'[f]) <= handler'[g].id
  <2>0. \A g2 \in Handlers : g2 # h /\ Validating(handler[g2]) =>
           Upto(handler[g2]) <= me.id \/ Upto(me) <= handler[g2].id
    BY <1>4 DEF IdsInv, me
  <2>1. CASE f = h
    <3>1. handler'[f] = l /\ handler'[g] = handler[g] /\ Validating(l) /\ g # h
      BY <1>2, <1>10, <2>1 DEF Becomes
    <3>2. QED
      BY <1>4, <1>5, <1>7, <1>10, <2>0, <3>1
  <2>2. CASE g = h
    <3>1. handler'[g] = l /\ handler'[f] = handler[f] /\ Validating(l) /\ f # h
      BY <1>2, <1>10, <2>2 DEF Becomes
    <3>2. QED
      BY <1>4, <1>5, <1>7, <1>10, <2>0, <3>1
  <2>3. CASE f # h /\ g # h
    <3>1. handler'[f] = handler[f] /\ handler'[g] = handler[g]
      BY <1>2, <2>3 DEF Becomes
    <3>2. QED
      BY <1>10, <3>1 DEF IdsInv
  <2>4. QED
    BY <2>1, <2>2, <2>3
<1>11. QED
  BY <1>8, <1>9, <1>10 DEF IdsInv

\* Every step keeps the ids apart.
LEMMA IdsKept ==
  ASSUME Types, RowsInv, IdsInv, Next
  PROVE  IdsInv'
<1>1. ASSUME NEW h \in Handlers, NEW l, Becomes(h, l), started' = started, checks' = checks,
             \/ ~Validating(l)
             \/ Validating(handler[h]) /\ l.todo # << >> /\ Within(l, handler[h])
      PROVE  IdsInv'
  BY <1>1, IdsNarrowed
<1>2. ASSUME NEW h \in Handlers, FailValidation(h) PROVE IdsInv'
  <2>1. /\ handler[h].pc \in {"read", "record"} /\ started' = started /\ checks' = checks
        /\ handler' = [handler EXCEPT ![h] = NextTrade(h)]
    BY <1>2 DEF FailValidation
  <2>2. PICK l : /\ Becomes(h, l)
                 /\ \/ l.pc = "idle"
                    \/ /\ l.pc = "read" /\ l.todo # << >>
                       /\ l.id = handler[h].id + 1 /\ Upto(l) = Upto(handler[h])
    BY <2>1, NextBecomes
  <2>3. Validating(handler[h]) /\ handler[h].id \in Nat /\ Upto(handler[h]) \in Nat
    BY <2>1, ValidatingFields DEF Validating
  <2>4. ~Validating(l) \/ (l.todo # << >> /\ Within(l, handler[h]))
    BY <2>2, <2>3 DEF Validating, Within
  <2>5. QED
    BY <1>1, <2>1, <2>2, <2>3, <2>4
<1>3. ASSUME NEW h \in Handlers, ReadPosition(h) PROVE IdsInv'
  <2>1. PICK l : /\ Becomes(h, l) /\ l.todo = handler[h].todo /\ l.id = handler[h].id
    BY <1>3, ReadBecomes
  <2>2. Validating(handler[h]) /\ started' = started /\ checks' = checks
    BY <1>3 DEF ReadPosition, At, Validating
  <2>3. l.todo # << >>
    BY <2>1, <2>2 DEF Types, LocalOK, Validating
  <2>4. Within(l, handler[h])
    BY <2>1, <2>2, ValidatingFields DEF Within, Upto
  <2>5. QED
    BY <1>1, <2>1, <2>2, <2>3, <2>4
<1>4. ASSUME NEW h \in Handlers, RecordBreach(h) PROVE IdsInv'
  <2>1. PICK l, rule : /\ Becomes(h, l) /\ l.todo = handler[h].todo /\ l.id = handler[h].id
    BY <1>4, BreachBecomes
  <2>2. Validating(handler[h]) /\ started' = started /\ checks' = checks
    BY <1>4 DEF RecordBreach, At, Validating
  <2>3. l.todo # << >>
    BY <2>1, <2>2 DEF Types, LocalOK, Validating
  <2>4. Within(l, handler[h])
    BY <2>1, <2>2, ValidatingFields DEF Within, Upto
  <2>5. QED
    BY <1>1, <2>1, <2>2, <2>3, <2>4
<1>5. ASSUME NEW h \in Handlers, ReadApproval(h) PROVE IdsInv'
  <2>1. PICK l : Becomes(h, l) /\ l.pc = "decide"
    BY <1>5, TakeUpBecomes
  <2>2. QED
    BY <1>1, <1>5, <2>1 DEF ReadApproval, Validating
<1>6. ASSUME NEW h \in Handlers, Decide(h) PROVE IdsInv'
  <2>1. PICK l : Becomes(h, l) /\ l.pc \in {"release", "audit"}
    BY <1>6, DecideBecomes
  <2>2. QED
    BY <1>1, <1>6, <2>1 DEF Decide, Validating
<1>7. ASSUME NEW h \in Handlers, Release(h) PROVE IdsInv'
  <2>1. PICK l : Becomes(h, l) /\ l.pc = "audit"
    BY <1>7, ReleaseBecomes
  <2>2. CheckOf(handler[h].approval) \in DOMAIN checks
    BY <1>7 DEF RowsInv, HandlerOK, Release, At
  <2>3. KeepsChecks /\ DOMAIN checks' = DOMAIN checks
    BY <1>7, <2>2, ReleaseSets DEF RowsInv
  <2>4. started' = started
    BY <1>7 DEF Release
  <2>5. QED
    BY <2>1, <2>3, <2>4, IdsNarrowed DEF Validating, KeepsChecks
<1>8. ASSUME NEW h \in Handlers, WriteAudit(h) \/ FailDecision(h) PROVE IdsInv'
  BY <1>1, <1>8, EndBecomes, IdleFields DEF WriteAudit, FailDecision, Validating
<1>9. ASSUME UNCHANGED <<handler, checks, started>> PROVE IdsInv'
  BY <1>9 DEF IdsInv
<1>10. CASE Recalculate \/ \E h \in Handlers : CreateApproval(h)
  BY <1>9, <1>10 DEF Recalculate, CreateApproval
<1>11. ASSUME NEW h \in Handlers,
              \/ StartValidation(h) \/ ReadPosition(h) \/ RecordBreach(h) \/ SaveCheck(h)
              \/ FailValidation(h) \/ ReadApproval(h) \/ Decide(h) \/ Release(h)
              \/ WriteAudit(h) \/ FailDecision(h)
       PROVE  IdsInv'
  BY <1>2, <1>3, <1>4, <1>5, <1>6, <1>7, <1>8, <1>11, StartKeepsIds, SaveKeepsIds, Zenon
<1>12. QED
  BY <1>10, <1>11 DEF Next

\* No more checks than trades submitted: their ids tell them apart.
LEMMA ChecksCounted ==
  ASSUME Types, RowsInv, IdsInv
  PROVE  Len(checks) <= started
<1> DEFINE f == [c \in 1..Len(checks) |-> checks[c].id]
<1>1. started \in Nat /\ Len(checks) \in Nat /\ DOMAIN checks = 1..Len(checks)
  BY DEF Types, RowsInv
<1>2. /\ IsFiniteSet(1..Len(checks)) /\ Cardinality(1..Len(checks)) = Len(checks)
      /\ IsFiniteSet(1..started) /\ Cardinality(1..started) = started
  <2>1. \A n \in Nat : IsFiniteSet(1..n) /\ Cardinality(1..n) = n
    <3> TAKE n \in Nat
    <3>1. IsFiniteSet(1..n) /\ Cardinality(1..n) = IF 1 > n THEN 0 ELSE n - 1 + 1
      BY FS_Interval
    <3>2. QED
      BY <3>1
  <2>2. QED
    BY <1>1, <2>1
<1>3. f \in Injection(1..Len(checks), 1..started)
  BY <1>1 DEF IdsInv, Injection, IsInjective
<1>4. Cardinality(1..Len(checks)) <= Cardinality(1..started)
  BY <1>2, <1>3, FS_Injection, Zenon DEF ExistsInjection
<1>5. QED
  BY <1>2, <1>4

\* The handlers' variables and the tables, and the ids of the checks.
ReviewInv == RowsInv /\ IdsInv

\* Checks, requests, events and audit entries refer to rows that exist, and no two
\* trades have the same id.
THEOREM ReviewInvariant == Spec => []ReviewInv
<1>1. Init => ReviewInv
  <2> SUFFICES ASSUME Init PROVE ReviewInv
    OBVIOUS
  <2>1. /\ checks \in Seq(Check) /\ DOMAIN checks = {} /\ DOMAIN approvals = {}
        /\ events = {} /\ audit = {}
        /\ \A h \in Handlers : handler[h] = Idle
    BY DEF Init
  <2>2. RowsInv
    BY <2>1, IdleFields DEF RowsInv, HandlerOK
  <2>3. IdsInv
    BY <2>1, IdleFields DEF IdsInv, Validating
  <2>4. QED
    BY <2>2, <2>3 DEF ReviewInv
<1>2. Types /\ Types' /\ ReviewInv /\ [Next]_vars => ReviewInv'
  <2>1. CASE UNCHANGED vars
    BY <2>1 DEF vars, ReviewInv, RowsInv, IdsInv, HandlerOK, CheckOf
  <2>2. CASE Next
    BY <2>2, RowsKept, IdsKept DEF ReviewInv
  <2>3. QED
    BY <2>1, <2>2
<1>3. QED
  BY <1>1, <1>2, ReviewTypes, PTL DEF Spec

\* TypeOK: rows refer to rows that exist, breach events to trades that were
\* submitted and rules in force, and there is at most one check per trade.
THEOREM ReviewTypeOK == Spec => []TypeOK
<1>1. Types /\ ReviewInv => TypeOK
  <2> SUFFICES ASSUME Types, ReviewInv PROVE TypeOK
    OBVIOUS
  <2>1. RowsInv /\ Len(checks) <= started
    BY ChecksCounted DEF ReviewInv
  <2>2. \A a \in DOMAIN approvals : approvals[a] \in Approval
    BY DEF Types
  <2>3. ASSUME NEW h \in Handlers
        PROVE  /\ handler[h].pc \in Pcs
               /\ handler[h].pc \in {"read", "record"} => handler[h].todo # << >>
               /\ handler[h].pc \in {"decide", "release", "audit"} =>
                    handler[h].approval \in DOMAIN approvals
               /\ handler[h].record \subseteq rules
    <3>1. handler[h] \in Local /\ LocalOK(handler[h]) /\ HandlerOK(handler[h], DOMAIN approvals)
      BY <2>1 DEF Types, RowsInv
    <3>2. handler[h].pc \in Pcs
      BY <3>1 DEF Local
    <3>3. QED
      BY <3>1, <3>2 DEF LocalOK, HandlerOK
  <2>4. book \in Books /\ rules \in RuleSets
    BY DEF Types
  <2>5. QED
    BY <2>1, <2>2, <2>3, <2>4 DEF RowsInv, TypeOK, Decisions, Pcs
<1>2. QED
  BY <1>1, ReviewTypes, ReviewInvariant, PTL

-----------------------------------------------------------------------------
(* BreachesBeforeCheck.                                                    *)

\* The breach events of a trade are written, those left to write excepted.
Noted(left, id, lots, inForce, written) ==
  ~Compliant(inForce, lots) =>
    \A rule \in Violations(inForce, lots) : rule \in left \/ <<id, rule>> \in written

\* What a handler about to record or save knows, and what the saved checks show.
BreachInv ==
  /\ \A h \in Handlers : handler[h].pc = "record" =>
       Noted(handler[h].record, handler[h].id, handler[h].lots, rules, events)
  /\ \A c \in DOMAIN checks : Noted({}, checks[c].id, checks[c].lots, rules, events)

\* Events are never deleted, and rules do not change.
LEMMA NotedStays ==
  ASSUME NEW left, NEW id, NEW lots, NEW more, events \subseteq more,
         Noted(left, id, lots, rules, events)
  PROVE  Noted(left, id, lots, rules, more)
BY DEF Noted

\* A step that writes no check keeps BreachInv if it does for its own handler.
LEMMA BreachKept ==
  ASSUME BreachInv, NEW h \in Handlers, NEW l, Becomes(h, l), rules' = rules,
         events \subseteq events', KeepsChecks, DOMAIN checks' = DOMAIN checks,
         l.pc = "record" => Noted(l.record, l.id, l.lots, rules, events')
  PROVE  BreachInv'
<1>1. ASSUME NEW g \in Handlers, handler'[g].pc = "record"
      PROVE  Noted(handler'[g].record, handler'[g].id, handler'[g].lots, rules', events')
  <2>1. CASE g = h
    BY <1>1, <2>1 DEF Becomes
  <2>2. CASE g # h
    <3>1. /\ handler'[g] = handler[g]
          /\ Noted(handler[g].record, handler[g].id, handler[g].lots, rules, events)
      BY <1>1, <2>2 DEF Becomes, BreachInv
    <3>2. Noted(handler[g].record, handler[g].id, handler[g].lots, rules, events')
      BY <3>1, NotedStays
    <3>3. QED
      BY <3>1, <3>2
  <2>3. QED
    BY <2>1, <2>2
<1>2. ASSUME NEW c \in DOMAIN checks'
      PROVE  Noted({}, checks'[c].id, checks'[c].lots, rules', events')
  <2>1. Noted({}, checks[c].id, checks[c].lots, rules, events)
    BY DEF BreachInv
  <2>2. Noted({}, checks[c].id, checks[c].lots, rules, events')
    BY <2>1, NotedStays
  <2>3. QED
    BY <2>2 DEF KeepsChecks
<1>3. QED
  BY <1>1, <1>2 DEF BreachInv

\* A check is saved when no event is left to write.
LEMMA SaveKeepsBreaches ==
  ASSUME Types, RowsInv, BreachInv, NEW h \in Handlers, SaveCheck(h)
  PROVE  BreachInv'
<1>1. /\ handler[h].pc = "record" /\ handler[h].record = {}
      /\ rules' = rules /\ events' = events
      /\ handler' = [handler EXCEPT ![h] = NextTrade(h)]
  BY DEF SaveCheck, At
<1>2. PICK l : Becomes(h, l) /\ l.pc # "record"
  BY <1>1, NextBecomes
<1>3. Noted({}, handler[h].id, handler[h].lots, rules, events)
  BY <1>1 DEF BreachInv
<1>4. /\ DOMAIN checks' = DOMAIN checks \cup {Len(checks) + 1}
      /\ \A c \in DOMAIN checks : checks'[c] = checks[c]
      /\ checks'[Len(checks) + 1].id = handler[h].id
      /\ checks'[Len(checks) + 1].lots = handler[h].lots
  BY SaveAdds DEF RowsInv
<1>5. ASSUME NEW g \in Handlers, handler'[g].pc = "record"
      PROVE  Noted(handler'[g].record, handler'[g].id, handler'[g].lots, rules', events')
  BY <1>1, <1>2, <1>5 DEF Becomes, BreachInv
<1>6. ASSUME NEW c \in DOMAIN checks'
      PROVE  Noted({}, checks'[c].id, checks'[c].lots, rules', events')
  BY <1>1, <1>3, <1>4 DEF BreachInv
<1>7. QED
  BY <1>5, <1>6 DEF BreachInv

\* Every step keeps BreachInv.
LEMMA BreachesKept ==
  ASSUME Types, RowsInv, BreachInv, Next
  PROVE  BreachInv'
<1>1. rules' = rules
  BY DEF Next, Recalculate, StartValidation, ReadPosition, RecordBreach, SaveCheck,
         FailValidation, CreateApproval, ReadApproval, Decide, Release, WriteAudit, FailDecision
<1>2. ASSUME NEW h \in Handlers, NEW l, Becomes(h, l), l.pc # "record",
             checks' = checks, events' = events
      PROVE  BreachInv'
  BY <1>1, <1>2, ChecksSame, BreachKept DEF RowsInv
<1>3. ASSUME NEW h \in Handlers, StartValidation(h) PROVE BreachInv'
  <2>1. PICK l : Becomes(h, l) /\ l.pc = "read"
    BY <1>3, StartBecomes
  <2>2. QED
    BY <1>2, <1>3, <2>1 DEF StartValidation
<1>4. ASSUME NEW h \in Handlers, FailValidation(h) PROVE BreachInv'
  <2>1. handler[h].pc \in {"read", "record"} /\ handler' = [handler EXCEPT ![h] = NextTrade(h)]
    BY <1>4 DEF FailValidation
  <2>2. PICK l : Becomes(h, l) /\ l.pc # "record"
    BY <2>1, NextBecomes
  <2>3. QED
    BY <1>2, <1>4, <2>2 DEF FailValidation
<1>5. ASSUME NEW h \in Handlers, ReadPosition(h) PROVE BreachInv'
  <2>1. PICK l : Becomes(h, l) /\ l.pc = "record" /\ l.record = ToRecord(l.lots)
    BY <1>5, ReadBecomes
  <2>2. Noted(l.record, l.id, l.lots, rules, events')
    BY <2>1 DEF Noted, ToRecord
  <2>3. checks' = checks /\ events' = events
    BY <1>5 DEF ReadPosition
  <2>4. QED
    BY <1>1, <2>1, <2>2, <2>3, ChecksSame, BreachKept DEF RowsInv
<1>6. ASSUME NEW h \in Handlers, RecordBreach(h) PROVE BreachInv'
  <2>1. PICK l, rule : /\ Becomes(h, l) /\ handler[h].pc = "record"
                       /\ l.id = handler[h].id /\ l.lots = handler[h].lots
                       /\ l.record = handler[h].record \ {rule}
                       /\ events' = events \cup {<<handler[h].id, rule>>}
    BY <1>6, BreachBecomes
  <2>2. Noted(handler[h].record, handler[h].id, handler[h].lots, rules, events)
    BY <2>1 DEF BreachInv
  <2>3. Noted(l.record, l.id, l.lots, rules, events')
    BY <2>1, <2>2 DEF Noted
  <2>4. checks' = checks
    BY <1>6 DEF RecordBreach
  <2>5. QED
    BY <1>1, <2>1, <2>3, <2>4, ChecksSame, BreachKept DEF RowsInv
<1>7. ASSUME NEW h \in Handlers, ReadApproval(h) PROVE BreachInv'
  <2>1. PICK l : Becomes(h, l) /\ l.pc = "decide"
    BY <1>7, TakeUpBecomes
  <2>2. QED
    BY <1>2, <1>7, <2>1 DEF ReadApproval
<1>8. ASSUME NEW h \in Handlers, Decide(h) PROVE BreachInv'
  <2>1. PICK l : Becomes(h, l) /\ l.pc \in {"release", "audit"}
    BY <1>8, DecideBecomes
  <2>2. QED
    BY <1>2, <1>8, <2>1 DEF Decide
<1>9. ASSUME NEW h \in Handlers, Release(h) PROVE BreachInv'
  <2>1. PICK l : Becomes(h, l) /\ l.pc = "audit"
    BY <1>9, ReleaseBecomes
  <2>2. CheckOf(handler[h].approval) \in DOMAIN checks
    BY <1>9 DEF RowsInv, HandlerOK, Release, At
  <2>3. KeepsChecks /\ DOMAIN checks' = DOMAIN checks
    BY <1>9, <2>2, ReleaseSets DEF RowsInv
  <2>4. events' = events
    BY <1>9 DEF Release
  <2>5. QED
    BY <1>1, <2>1, <2>3, <2>4, BreachKept
<1>10. ASSUME NEW h \in Handlers, WriteAudit(h) \/ FailDecision(h) PROVE BreachInv'
  BY <1>2, <1>10, EndBecomes, IdleFields DEF WriteAudit, FailDecision
<1>11. ASSUME UNCHANGED <<handler, checks, events>> PROVE BreachInv'
  BY <1>1, <1>11 DEF BreachInv
<1>12. CASE Recalculate \/ \E h \in Handlers : CreateApproval(h)
  BY <1>11, <1>12 DEF Recalculate, CreateApproval
<1>13. ASSUME NEW h \in Handlers,
              \/ StartValidation(h) \/ ReadPosition(h) \/ RecordBreach(h) \/ SaveCheck(h)
              \/ FailValidation(h) \/ ReadApproval(h) \/ Decide(h) \/ Release(h)
              \/ WriteAudit(h) \/ FailDecision(h)
       PROVE  BreachInv'
  BY <1>3, <1>4, <1>5, <1>6, <1>7, <1>8, <1>9, <1>10, <1>13, SaveKeepsBreaches, Zenon
<1>14. QED
  BY <1>12, <1>13 DEF Next

\* BreachesBeforeCheck: a check that is not compliant is never on record without
\* a breach event for every rule it violates, for any number of handlers and
\* wherever a validation fails.
THEOREM BreachesOnRecord == Spec => []BreachesBeforeCheck
<1>1. Init => BreachInv
  <2> SUFFICES ASSUME Init PROVE BreachInv
    OBVIOUS
  <2>1. DOMAIN checks = {} /\ \A h \in Handlers : handler[h] = Idle
    BY DEF Init
  <2>2. QED
    BY <2>1, IdleFields DEF BreachInv
<1>2. Types /\ ReviewInv /\ BreachInv /\ [Next]_vars => BreachInv'
  <2>1. CASE UNCHANGED vars
    BY <2>1 DEF vars, BreachInv
  <2>2. CASE Next
    BY <2>2, BreachesKept DEF ReviewInv
  <2>3. QED
    BY <2>1, <2>2
<1>3. BreachInv => BreachesBeforeCheck
  BY DEF BreachInv, BreachesBeforeCheck, Noted
<1>4. QED
  BY <1>1, <1>2, <1>3, ReviewTypes, ReviewInvariant, PTL DEF Spec

-----------------------------------------------------------------------------
(* CheckFollowsDecisions and ReleasesAudited.                              *)

\* A decision that was approved and is at the given statement.
Pending(pc, a) ==
  \E h \in Handlers :
    handler[h].pc = pc /\ handler[h].approval = a /\ handler[h].decision = "approved"

\* A check proceeds when its validation said so or after an approval; an
\* approval is about to release its check, has done it or has failed; a release
\* is about to be logged, has been or has failed.
FollowInv ==
  /\ \A c \in DOMAIN checks : checks[c].given => checks[c].can
  /\ \A c \in DOMAIN checks : checks[c].can /\ ~checks[c].given =>
       \E a \in DOMAIN approvals :
         approvals[a].check = c /\ (approvals[a].status = "approved" \/ a \in raced)
  /\ \A h \in Handlers : handler[h].pc = "release" =>
       \/ approvals[handler[h].approval].status = "approved"
       \/ handler[h].approval \in raced
  /\ \A a \in DOMAIN approvals : approvals[a].status = "approved" =>
       checks[approvals[a].check].can \/ a \in broken \/ Pending("release", a)
  /\ \A c \in DOMAIN checks : checks[c].can /\ ~checks[c].given =>
       \/ <<c, "approved">> \in audit
       \/ \E a \in DOMAIN approvals :
            approvals[a].check = c /\ (a \in broken \/ Pending("audit", a))

\* A handler that is at no later statement of a decision, and does not get
\* there, leaves those that are.
LEMMA PendingStays ==
  ASSUME NEW h \in Handlers, NEW l, Becomes(h, l), NEW pc, handler[h].pc # pc,
         NEW a, Pending(pc, a)
  PROVE  Pending(pc, a)'
BY DEF Pending, Becomes

\* Steps that are neither approvals' nor write checks or requests.
LEMMA FollowQuiet ==
  ASSUME FollowInv, NEW h \in Handlers, NEW l, Becomes(h, l),
         handler[h].pc \notin {"release", "audit"}, l.pc # "release",
         checks' = checks, approvals' = approvals, raced \subseteq raced',
         broken' = broken, audit' = audit
  PROVE  FollowInv'
<1>1. \A g \in Handlers : handler'[g].pc = "release" => handler'[g] = handler[g]
  BY DEF Becomes
<1>2. \A a : /\ Pending("release", a) => Pending("release", a)'
             /\ Pending("audit", a) => Pending("audit", a)'
  BY PendingStays
<1>3. QED
  BY <1>1, <1>2 DEF FollowInv

\* A saved check has no request yet, ...
LEMMA SaveFollows ==
  ASSUME Types, RowsInv, FollowInv, NEW h \in Handlers, SaveCheck(h)
  PROVE  FollowInv'
<1>1. /\ handler[h].pc = "record" /\ approvals' = approvals /\ raced' = raced
      /\ broken' = broken /\ audit' = audit
      /\ handler' = [handler EXCEPT ![h] = NextTrade(h)]
  BY DEF SaveCheck, At
<1>2. PICK l : Becomes(h, l) /\ l.pc # "release"
  BY <1>1, NextBecomes
<1>3. /\ DOMAIN checks' = DOMAIN checks \cup {Len(checks) + 1}
      /\ \A c \in DOMAIN checks : checks'[c] = checks[c]
      /\ checks'[Len(checks) + 1].can = checks'[Len(checks) + 1].given
  BY SaveAdds DEF RowsInv
<1>4. \A g \in Handlers : handler'[g].pc = "release" => handler'[g] = handler[g]
  BY <1>2 DEF Becomes
<1>5. \A a : /\ Pending("release", a) => Pending("release", a)'
             /\ Pending("audit", a) => Pending("audit", a)'
  BY <1>1, <1>2, PendingStays
<1>6. \A a \in DOMAIN approvals : approvals[a].check \in DOMAIN checks
  BY DEF RowsInv, CheckOf
<1>7. QED
  BY <1>1, <1>3, <1>4, <1>5, <1>6 DEF FollowInv

\* ... and a new request has not been decided.
LEMMA CreateFollows ==
  ASSUME Types, RowsInv, FollowInv, NEW h \in Handlers, CreateApproval(h)
  PROVE  FollowInv'
<1>1. /\ handler' = handler /\ checks' = checks /\ raced' = raced
      /\ broken' = broken /\ audit' = audit
  BY DEF CreateApproval
<1>2. approvals \in Seq(Approval) /\ approvals' \in Seq(Approval)
      /\ Len(approvals') = Len(approvals) + 1
      /\ approvals'[Len(approvals')].status = "pending"
      /\ \A a \in DOMAIN approvals : approvals'[a] = approvals[a]
  BY CreateApprovalEffect DEF Types
<1>3. DOMAIN approvals \subseteq DOMAIN approvals'
  BY RequestsStay DEF Next
<1>4. \A a \in DOMAIN approvals' : approvals'[a].status = "approved" => a \in DOMAIN approvals
  BY <1>2
<1>5. \A g \in Handlers : handler[g].pc = "release" => handler[g].approval \in DOMAIN approvals
  BY DEF RowsInv, HandlerOK
<1>6. \A a, pc : Pending(pc, a)' <=> Pending(pc, a)
  BY <1>1 DEF Pending
<1>7. QED
  BY <1>1, <1>2, <1>3, <1>4, <1>5, <1>6 DEF FollowInv

\* A decision overwrites an approval only if the request was read twice.
LEMMA DecideFollows ==
  ASSUME Types, NoRival, RowsInv, FollowInv, NEW h \in Handlers, Decide(h)
  PROVE  FollowInv'
<1>0. PICK a : a = handler[h].approval
  OBVIOUS
<1>1. /\ handler[h].pc = "decide" /\ checks' = checks /\ raced' = raced
      /\ broken' = broken /\ audit' = audit
  BY DEF Decide, At
<1>2. PICK l : /\ Becomes(h, l) /\ l.pc \in {"release", "audit"}
               /\ l.pc = "release" <=> handler[h].decision = "approved"
               /\ l.approval = a /\ l.decision = handler[h].decision
  BY <1>0, DecideBecomes
<1>3. /\ a \in DOMAIN approvals /\ DOMAIN approvals' = DOMAIN approvals
      /\ approvals'[a].status = handler[h].decision
      /\ \A b \in DOMAIN approvals : b # a => approvals'[b] = approvals[b]
      /\ \A b \in DOMAIN approvals : approvals'[b].check = approvals[b].check
  BY <1>0, DecideEffect, RequestsStay DEF Types, Next
<1>4. a \in raced \/ approvals[a].status = "pending"
  BY <1>0, <1>1 DEF NoRival, At
<1>5. \A b \in DOMAIN approvals :
        approvals[b].status = "approved" \/ b \in raced =>
        approvals'[b].status = "approved" \/ b \in raced'
  BY <1>1, <1>3, <1>4
<1>6. \A b : /\ Pending("release", b) => Pending("release", b)'
             /\ Pending("audit", b) => Pending("audit", b)'
  BY <1>1, <1>2, PendingStays
<1>7. handler[h].decision = "approved" => Pending("release", a)'
  BY <1>2 DEF Pending, Becomes
<1>8. \A c \in DOMAIN checks' : checks'[c].can /\ ~checks'[c].given =>
        \E b \in DOMAIN approvals' :
          approvals'[b].check = c /\ (approvals'[b].status = "approved" \/ b \in raced')
  BY <1>1, <1>3, <1>5 DEF FollowInv
<1>9. ASSUME NEW g \in Handlers, handler'[g].pc = "release"
      PROVE  \/ approvals'[handler'[g].approval].status = "approved"
             \/ handler'[g].approval \in raced'
  <2>1. CASE g = h
    BY <1>2, <1>3, <1>9, <2>1 DEF Becomes
  <2>2. CASE g # h
    <3>1. handler'[g] = handler[g] /\ handler[g].approval \in DOMAIN approvals
      BY <1>2, <1>9, <2>2 DEF Becomes, RowsInv, HandlerOK
    <3>2. QED
      BY <1>5, <1>9, <3>1 DEF FollowInv
  <2>3. QED
    BY <2>1, <2>2
<1>10. ASSUME NEW b \in DOMAIN approvals', approvals'[b].status = "approved"
       PROVE  checks'[approvals'[b].check].can \/ b \in broken' \/ Pending("release", b)'
  <2>1. CASE b = a
    BY <1>3, <1>7, <1>10, <2>1
  <2>2. CASE b # a
    BY <1>1, <1>3, <1>6, <1>10, <2>2 DEF FollowInv
  <2>3. QED
    BY <2>1, <2>2
<1>11. \A c \in DOMAIN checks' : checks'[c].can /\ ~checks'[c].given =>
         \/ <<c, "approved">> \in audit'
         \/ \E b \in DOMAIN approvals' :
              approvals'[b].check = c /\ (b \in broken' \/ Pending("audit", b)')
  BY <1>1, <1>3, <1>6 DEF FollowInv
<1>12. \A c \in DOMAIN checks' : checks'[c].given => checks'[c].can
  BY <1>1 DEF FollowInv
<1>13. QED
  BY <1>8, <1>9, <1>10, <1>11, <1>12 DEF FollowInv

\* The check of an approved request proceeds, and the log is next.
LEMMA ReleaseFollows ==
  ASSUME Types, RowsInv, FollowInv, NEW h \in Handlers, Release(h)
  PROVE  FollowInv'
<1>0. PICK a, d : a = handler[h].approval /\ d = approvals[a].check
  OBVIOUS
<1>1. /\ handler[h].pc = "release" /\ approvals' = approvals /\ raced' = raced
      /\ broken' = broken /\ audit' = audit
  BY DEF Release, At
<1>2. PICK l : /\ Becomes(h, l) /\ l.pc = "audit" /\ l.approval = a
               /\ l.decision = handler[h].decision
  BY <1>0, ReleaseBecomes
<1>3. a \in DOMAIN approvals /\ handler[h].decision = "approved" /\ d \in DOMAIN checks
  BY <1>0, <1>1 DEF RowsInv, HandlerOK, CheckOf
<1>4. approvals[a].status = "approved" \/ a \in raced
  BY <1>0, <1>1 DEF FollowInv
<1>5. /\ KeepsChecks /\ DOMAIN checks' = DOMAIN checks /\ checks'[d].can
      /\ \A c \in DOMAIN checks : c # d => checks'[c] = checks[c]
  BY <1>0, <1>3, ReleaseSets DEF RowsInv, CheckOf
<1>6. \A c \in DOMAIN checks : checks'[c].given = checks[c].given /\ (checks[c].can => checks'[c].can)
  BY <1>5 DEF KeepsChecks
<1>7. Pending("audit", a)'
  BY <1>2, <1>3 DEF Pending, Becomes
<1>8. \A b : Pending("audit", b) => Pending("audit", b)'
  BY <1>1, <1>2, PendingStays
<1>9. \A b : b # a /\ Pending("release", b) => Pending("release", b)'
  BY <1>0, <1>2 DEF Pending, Becomes
<1>10. \A g \in Handlers : handler'[g].pc = "release" => handler'[g] = handler[g]
  BY <1>2 DEF Becomes
<1>11. d = approvals[a].check
  BY <1>0
<1>12. \A c \in DOMAIN checks' : checks'[c].given => checks'[c].can
  BY <1>5, <1>6 DEF FollowInv
<1>13. ASSUME NEW c \in DOMAIN checks', checks'[c].can, ~checks'[c].given
       PROVE  /\ \E b \in DOMAIN approvals' :
                   approvals'[b].check = c /\ (approvals'[b].status = "approved" \/ b \in raced')
              /\ \/ <<c, "approved">> \in audit'
                 \/ \E b \in DOMAIN approvals' :
                      approvals'[b].check = c /\ (b \in broken' \/ Pending("audit", b)')
  <2>1. CASE c = d
    BY <1>1, <1>3, <1>4, <1>7, <1>11, <2>1
  <2>2. CASE c # d
    BY <1>1, <1>5, <1>8, <1>13, <2>2 DEF FollowInv
  <2>3. QED
    BY <2>1, <2>2
<1>14. \A g \in Handlers : handler'[g].pc = "release" =>
         \/ approvals'[handler'[g].approval].status = "approved"
         \/ handler'[g].approval \in raced'
  BY <1>1, <1>10 DEF FollowInv
<1>15. ASSUME NEW b \in DOMAIN approvals', approvals'[b].status = "approved"
       PROVE  checks'[approvals'[b].check].can \/ b \in broken' \/ Pending("release", b)'
  <2>1. CASE b = a
    BY <1>1, <1>5, <1>11, <2>1
  <2>2. CASE b # a
    <3>1. approvals[b].check \in DOMAIN checks
      BY <1>1 DEF RowsInv, CheckOf
    <3>2. QED
      BY <1>1, <1>6, <1>9, <1>15, <2>2, <3>1 DEF FollowInv
  <2>3. QED
    BY <2>1, <2>2
<1>16. QED
  BY <1>12, <1>13, <1>14, <1>15 DEF FollowInv

\* A decision that ends is logged or has failed.
LEMMA EndFollows ==
  ASSUME Types, RowsInv, FollowInv, NEW h \in Handlers, WriteAudit(h) \/ FailDecision(h)
  PROVE  FollowInv'
<1> DEFINE a == handler[h].approval
<1>1. Becomes(h, Idle) /\ Idle.pc = "idle"
  BY EndBecomes, IdleFields
<1>2. /\ checks' = checks /\ approvals' = approvals /\ raced' = raced
      /\ broken \subseteq broken' /\ audit \subseteq audit'
  BY DEF WriteAudit, FailDecision
<1>3. \A g \in Handlers : handler'[g].pc = "release" => handler'[g] = handler[g]
  BY <1>1 DEF Becomes
<1>4. ASSUME NEW b, Pending("release", b) PROVE Pending("release", b)' \/ b \in broken'
  <2>1. CASE handler[h].pc = "release"
    <3>1. a \in broken'
      BY <2>1 DEF WriteAudit, FailDecision, At
    <3>2. b # a => Pending("release", b)'
      BY <1>1, <1>4 DEF Pending, Becomes
    <3>3. QED
      BY <3>1, <3>2
  <2>2. CASE handler[h].pc # "release"
    BY <1>1, <1>4, <2>2, PendingStays
  <2>3. QED
    BY <2>1, <2>2
<1>5. ASSUME NEW b, Pending("audit", b)
      PROVE  Pending("audit", b)' \/ b \in broken' \/ <<approvals[b].check, "approved">> \in audit'
  <2>1. PICK g \in Handlers : /\ handler[g].pc = "audit" /\ handler[g].approval = b
                              /\ handler[g].decision = "approved"
    BY <1>5 DEF Pending
  <2>2. CASE g = h
    BY <2>1, <2>2 DEF WriteAudit, FailDecision, At, Entry, CheckOf
  <2>3. CASE g # h
    BY <1>1, <2>1, <2>3 DEF Becomes, Pending
  <2>4. QED
    BY <2>2, <2>3
<1>6. \A c \in DOMAIN checks' : checks'[c].given => checks'[c].can
  BY <1>2 DEF FollowInv
<1>7. \A c \in DOMAIN checks' : checks'[c].can /\ ~checks'[c].given =>
        \E b \in DOMAIN approvals' :
          approvals'[b].check = c /\ (approvals'[b].status = "approved" \/ b \in raced')
  BY <1>2 DEF FollowInv
<1>8. \A g \in Handlers : handler'[g].pc = "release" =>
        \/ approvals'[handler'[g].approval].status = "approved"
        \/ handler'[g].approval \in raced'
  BY <1>2, <1>3 DEF FollowInv
<1>9. \A b \in DOMAIN approvals' : approvals'[b].status = "approved" =>
        checks'[approvals'[b].check].can \/ b \in broken' \/ Pending("release", b)'
  BY <1>2, <1>4 DEF FollowInv
<1>10. \A c \in DOMAIN checks' : checks'[c].can /\ ~checks'[c].given =>
         \/ <<c, "approved">> \in audit'
         \/ \E b \in DOMAIN approvals' :
              approvals'[b].check = c /\ (b \in broken' \/ Pending("audit", b)')
  BY <1>2, <1>5 DEF FollowInv
<1>11. QED
  BY <1>6, <1>7, <1>8, <1>9, <1>10 DEF FollowInv

\* Every step keeps FollowInv.
LEMMA FollowKept ==
  ASSUME Types, NoRival, RowsInv, FollowInv, Next
  PROVE  FollowInv'
<1>1. ASSUME NEW h \in Handlers, StartValidation(h) PROVE FollowInv'
  <2>1. PICK l : Becomes(h, l) /\ l.pc = "read"
    BY <1>1, StartBecomes
  <2>2. QED
    BY <1>1, <2>1, FollowQuiet DEF StartValidation, At
<1>2. ASSUME NEW h \in Handlers, FailValidation(h) PROVE FollowInv'
  <2>1. handler[h].pc \in {"read", "record"} /\ handler' = [handler EXCEPT ![h] = NextTrade(h)]
    BY <1>2 DEF FailValidation
  <2>2. PICK l : Becomes(h, l) /\ l.pc # "release"
    BY <2>1, NextBecomes
  <2>3. QED
    BY <1>2, <2>1, <2>2, FollowQuiet DEF FailValidation
<1>3. ASSUME NEW h \in Handlers, ReadPosition(h) PROVE FollowInv'
  <2>1. PICK l : Becomes(h, l) /\ l.pc = "record"
    BY <1>3, ReadBecomes
  <2>2. QED
    BY <1>3, <2>1, FollowQuiet DEF ReadPosition, At
<1>4. ASSUME NEW h \in Handlers, RecordBreach(h) PROVE FollowInv'
  <2>1. PICK l, rule : Becomes(h, l) /\ l.pc = "record"
    BY <1>4, BreachBecomes
  <2>2. QED
    BY <1>4, <2>1, FollowQuiet DEF RecordBreach, At
<1>5. ASSUME NEW h \in Handlers, ReadApproval(h) PROVE FollowInv'
  <2>1. PICK l : Becomes(h, l) /\ l.pc = "decide"
    BY <1>5, TakeUpBecomes
  <2>2. QED
    BY <1>5, <2>1, FollowQuiet DEF ReadApproval, At
<1>6. ASSUME Recalculate PROVE FollowInv'
  BY <1>6 DEF Recalculate, FollowInv, Pending
<1>7. ASSUME NEW h \in Handlers,
             \/ StartValidation(h) \/ ReadPosition(h) \/ RecordBreach(h) \/ SaveCheck(h)
             \/ FailValidation(h) \/ CreateApproval(h) \/ ReadApproval(h) \/ Decide(h)
             \/ Release(h) \/ WriteAudit(h) \/ FailDecision(h)
      PROVE  FollowInv'
  BY <1>1, <1>2, <1>3, <1>4, <1>5, <1>7, SaveFollows, CreateFollows, DecideFollows,
     ReleaseFollows, EndFollows, Zenon
<1>8. QED
  BY <1>6, <1>7 DEF Next

\* A check proceeds by its validation or an approval, and what an approval still
\* owes its check and the audit trail is under way or was broken off.
THEOREM FollowInvariant == Spec => []FollowInv
<1>1. Init => FollowInv
  <2> SUFFICES ASSUME Init PROVE FollowInv
    OBVIOUS
  <2>1. /\ DOMAIN checks = {} /\ DOMAIN approvals = {}
        /\ \A h \in Handlers : handler[h] = Idle
    BY DEF Init
  <2>2. QED
    BY <2>1, IdleFields DEF FollowInv
<1>2. Types /\ NoRival /\ ReviewInv /\ FollowInv /\ [Next]_vars => FollowInv'
  <2>1. CASE UNCHANGED vars
    BY <2>1 DEF vars, FollowInv, Pending
  <2>2. CASE Next
    BY <2>2, FollowKept DEF ReviewInv
  <2>3. QED
    BY <2>1, <2>2
<1>3. QED
  BY <1>1, <1>2, ReviewTypes, RivalsOnRecord, ReviewInvariant, PTL DEF Spec

\* CheckFollowsDecisions: once its requests are settled a check may proceed
\* exactly when its validation said so or a request about it was approved.
THEOREM ChecksFollow == Spec => []CheckFollowsDecisions
<1>1. RowsInv /\ FollowInv => CheckFollowsDecisions
  <2> SUFFICES ASSUME RowsInv, FollowInv, NEW c \in DOMAIN checks, Settled(c)
               PROVE  checks[c].can <=>
                        \/ checks[c].given
                        \/ \E a \in RequestsFor(c) : approvals[a].status = "approved"
    BY DEF CheckFollowsDecisions
  <2>1. \A a \in DOMAIN approvals : approvals[a].check = c =>
          a \in RequestsFor(c) /\ a \notin raced /\ a \notin broken /\ ~Pending("release", a)
    BY DEF Settled, RequestsFor, CheckOf, UnderWay, Pending
  <2>2. checks[c].can /\ ~checks[c].given =>
          \E a \in RequestsFor(c) : approvals[a].status = "approved"
    BY <2>1 DEF FollowInv
  <2>3. ASSUME NEW a \in RequestsFor(c), approvals[a].status = "approved"
        PROVE  checks[c].can
    BY <2>1, <2>3 DEF FollowInv, RequestsFor, CheckOf
  <2>4. checks[c].can \in BOOLEAN /\ checks[c].given \in BOOLEAN
    BY CheckFields DEF RowsInv
  <2>5. checks[c].given => checks[c].can
    BY DEF FollowInv
  <2>6. QED
    BY <2>2, <2>3, <2>4, <2>5
<1>2. QED
  BY <1>1, ReviewInvariant, FollowInvariant, PTL DEF ReviewInv

\* ReleasesAudited: a released check has an 'approved' entry in the audit trail
\* unless a decision about it is under way or failed.
THEOREM ReleasesLogged == Spec => []ReleasesAudited
<1>1. RowsInv /\ FollowInv => ReleasesAudited
  <2> SUFFICES ASSUME RowsInv, FollowInv, NEW c \in DOMAIN checks,
                      checks[c].can # checks[c].given,
                      \A a \in RequestsFor(c) : ~UnderWay(a) /\ a \notin broken
               PROVE  <<c, "approved">> \in audit
    BY DEF ReleasesAudited
  <2>1. checks[c].can \in BOOLEAN /\ checks[c].given \in BOOLEAN
    BY CheckFields DEF RowsInv
  <2>2. checks[c].can /\ ~checks[c].given
    BY <2>1 DEF FollowInv
  <2>3. \A a \in DOMAIN approvals : approvals[a].check = c =>
          a \notin broken /\ ~Pending("audit", a)
    BY DEF RequestsFor, CheckOf, UnderWay, Pending
  <2>4. QED
    BY <2>2, <2>3 DEF FollowInv
<1>2. QED
  BY <1>1, ReviewInvariant, FollowInvariant, PTL DEF ReviewInv
=============================================================================
