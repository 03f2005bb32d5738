------------------------------ MODULE PreTrade ------------------------------
(***************************************************************************)
(* Pre-trade checks and the approval of trades                             *)
(* (src/backend/src/services/pre-trade-service.ts, routes/pre-trade.ts,    *)
(* routes/trade-approvals.ts), for the trades of one commodity.            *)
(*                                                                         *)
(* A validation reads the position, records a breach event for every       *)
(* violation and then saves the check with its verdict. An approval request *)
(* refers to a check; approving it is three statements, rejecting it two:   *)
(*                                                                          *)
(*    read the request -> decide -> (let the check proceed) -> audit        *)
(*                                                                          *)
(* Handlers interleave between statements and can fail at any.             *)
(***************************************************************************)
EXTENDS Compliance, Sequences, FiniteSets

CONSTANTS
  Handlers,      \* the requests being served at a time
  Books,         \* [pos, limit] pairs limit_calculations may hold
  Trades,        \* signed quantities
  RuleSets,      \* the sets of rules that may be in force
  Thresholds,    \* the active rows of risk_thresholds
  MaxBatch,      \* longest list of trades in a request
  MaxTrades,     \* bound on the trades validated
  MaxApprovals,  \* bound on trade_approvals
  NULL

Book == [pos : Int, limit : Nat]

\* Utilization percentages are numbers; a row covers min <= utilization < max.
ThresholdTypes == {"auto_approve", "require_approval", "block"}

ASSUME PreTradeAssumption ==
  /\ Books \subseteq Book
  /\ Trades \subseteq Int
  /\ \A set \in RuleSets : set \subseteq Rule
  /\ Thresholds \subseteq [type : ThresholdTypes, min : Nat, max : Nat]
  /\ \A set \in RuleSets : \A r, s \in set :
       r.type = s.type /\ r.limit = s.limit => r = s
  /\ MaxBatch \in Nat /\ MaxTrades \in Nat /\ MaxApprovals \in Nat

\* No decision is taken for the absence of one.
ASSUME NullAssumption == NULL \notin [id : Nat, verdict : {"approved", "rejected"}]

VARIABLES
  book,       \* the active row of limit_calculations ([0, 0] without one)
  rules,      \* regulatory_rules in force
  checks,     \* pre_trade_checks; the id of a row is its index
  events,     \* position_breach_events: <<validation, rule>> pairs
  approvals,  \* trade_approvals
  audit,      \* pre_trade_audit: <<check, action>> pairs
  handler,    \* [Handlers -> the local variables]
  started,    \* history: number of trades submitted for validation
  raced,      \* history: approvals read as pending by two handlers at once
  broken      \* history: approvals whose decision failed half-way

vars == <<book, rules, checks, events, approvals, audit, handler, started, raced, broken>>

-----------------------------------------------------------------------------
\* A row applies from min up to, not including, max.
InRange(threshold, lots, limit) ==
  LET pct == IF limit > 0 THEN (100 * Size(lots)) \div limit ELSE 0
  IN  threshold.min <= pct /\ pct < threshold.max

Matching(lots, limit) == {t \in Thresholds : InRange(t, lots, limit)}

\* determineValidationStatus hands out the type of the first matching row as
\* the status, or 'blocked' when the utilization is beyond all of them.
ThresholdStatus(lots, limit) ==
  LET matching == Matching(lots, limit)
  IN  IF matching = {} THEN "blocked"
      ELSE (CHOOSE t \in matching : \A u \in matching : t.min <= u.min).type

Statuses == ThresholdTypes \cup {"blocked", "requires_approval", "approved"}

\* validateTrade: the regulatory rules take precedence, through the first
\* critical violation alone. (Its branch for high violations is never taken:
\* a check that is not compliant has a critical one.)
VerdictOf(lots, limit) ==
  LET status  == ThresholdStatus(lots, limit)
      plain   == [status |-> status, can |-> status # "blocked"]
      action  == FirstCritical(rules, lots).action
  IN  CASE ~Compliant(rules, lots) /\ action = "block_trade" ->
             [status |-> "blocked", can |-> FALSE]
        [] ~Compliant(rules, lots) /\ action = "require_approval" ->
             [status |-> "requires_approval", can |-> FALSE]
        [] OTHER -> plain

\* Mutant: the breach events are only recorded for critical violations.
ToRecordCritical(lots) == Critical(rules, lots)

\* Breach events are recorded for all violations of a check that is not
\* compliant.
ToRecord(lots) == IF Compliant(rules, lots) THEN {} ELSE Violations(rules, lots)
-----------------------------------------------------------------------------
\* lots, limit: the projected position and the limit it was held against;
\* given: can_proceed as it was saved; id: the trade it validated.
Check == [lots : Int, limit : Nat, status : Statuses, can : BOOLEAN,
          given : BOOLEAN, id : Nat]

Approval == [check : Nat, status : {"pending", "approved", "rejected"}]

Idle == [pc |-> "idle", todo |-> << >>, id |-> 0, lots |-> 0, limit |-> 0,
         record |-> {}, approval |-> 0, decision |-> NULL]

Init ==
  /\ book \in Books
  /\ rules \in RuleSets
  /\ checks = << >>
  /\ events = {}
  /\ approvals = << >>
  /\ audit = {}
  /\ handler = [h \in Handlers |-> Idle]
  /\ started = 0
  /\ raced = {}
  /\ broken = {}

-----------------------------------------------------------------------------
(* Validation: POST /validate (one trade) and POST /batch-validate.        *)

At(h, pc) == handler[h].pc = pc

StartValidation(h) ==
  /\ At(h, "idle")
  /\ \E n \in 1..MaxBatch : \E trades \in [1..n -> Trades] :
       /\ started + n <= MaxTrades
       /\ started' = started + n
       /\ handler' = [handler EXCEPT ![h] =
                        [Idle EXCEPT !.pc = "read", !.todo = trades, !.id = started + 1]]
  /\ UNCHANGED <<book, rules, checks, events, approvals, audit, raced, broken>>

\* getCurrentPosition and the verdict: every trade of a batch is added to the
\* position of the book alone.
ReadPosition(h) ==
  LET lots == book.pos + Head(handler[h].todo)
  IN  /\ At(h, "read")
      /\ handler' = [handler EXCEPT ![h] =
           [@ EXCEPT !.pc = "record", !.lots = lots, !.limit = book.limit,
                     !.record = ToRecord(lots)]]
      /\ UNCHANGED <<book, rules, checks, events, approvals, audit, started, raced, broken>>

\* One INSERT of recordBreachEvent. (The code goes through the violations in
\* the order of the rules; any order here.)
RecordBreach(h) ==
  /\ At(h, "record")
  /\ \E rule \in handler[h].record :
       /\ events' = events \cup {<<handler[h].id, rule>>}
       /\ handler' = [handler EXCEPT ![h].record = @ \ {rule}]
  /\ UNCHANGED <<book, rules, checks, approvals, audit, started, raced, broken>>

\* Mutant: off by one, the batch goes on after its last trade.
NextTradeAlways(h) ==
  [Idle EXCEPT !.pc = "read", !.todo = Tail(handler[h].todo), !.id = handler[h].id + 1]

\* On to the next trade of the batch, if there is one.
NextTrade(h) ==
  LET rest == Tail(handler[h].todo)
  IN  IF rest = << >> THEN Idle
      ELSE [Idle EXCEPT !.pc = "read", !.todo = rest, !.id = handler[h].id + 1]

SaveCheck(h) ==
  LET me == handler[h]  verdict == VerdictOf(me.lots, me.limit)
  IN  /\ At(h, "record") /\ me.record = {}
      /\ checks' = Append(checks,
           [lots |-> me.lots, limit |-> me.limit, status |-> verdict.status,
            can |-> verdict.can, given |-> verdict.can, id |-> me.id])
      /\ handler' = [handler EXCEPT ![h] = NextTrade(h)]
      /\ UNCHANGED <<book, rules, events, approvals, audit, started, raced, broken>>

\* A statement fails: a single validation answers 500, a batch answers
\* 'blocked' for this trade and goes on. Nothing of it is saved.
FailValidation(h) ==
  /\ handler[h].pc \in {"read", "record"}
  /\ handler' = [handler EXCEPT ![h] = NextTrade(h)]
  /\ UNCHANGED <<book, rules, checks, events, approvals, audit, started, raced, broken>>

-----------------------------------------------------------------------------
(* Approval requests.                                                      *)

\* POST /: for any existing check, as often as asked.
CreateApproval(h) ==
  /\ At(h, "idle") /\ Len(approvals) < MaxApprovals
  /\ \E c \in DOMAIN checks :
       approvals' = Append(approvals, [check |-> c, status |-> "pending"])
  /\ UNCHANGED <<book, rules, checks, events, audit, handler, started, raced, broken>>

\* Mutant: the request is decided whatever its status.
AnyStatus(a) == a \in DOMAIN approvals

MayDecide(a) == approvals[a].status = "pending"

\* POST /:id/approve and /:id/reject: the SELECT and the test of the status.
ReadApproval(h) ==
  /\ At(h, "idle")
  /\ \E a \in DOMAIN approvals, decision \in {"approved", "rejected"} :
       /\ MayDecide(a)
       /\ handler' = [handler EXCEPT ![h] =
            [Idle EXCEPT !.pc = "decide", !.approval = a, !.decision = decision]]
       /\ raced' = IF \E g \in Handlers : At(g, "decide") /\ handler[g].approval = a
                   THEN raced \cup {a} ELSE raced
  /\ UNCHANGED <<book, rules, checks, events, approvals, audit, started, broken>>

\* The unconditional UPDATE of trade_approvals.
Decide(h) ==
  LET me == handler[h]
  IN  /\ At(h, "decide")
      /\ approvals' = [approvals EXCEPT ![me.approval].status = me.decision]
      /\ handler' = [handler EXCEPT ![h].pc =
           IF me.decision = "approved" THEN "release" ELSE "audit"]
      /\ UNCHANGED <<book, rules, checks, events, audit, started, raced, broken>>

CheckOf(a) == approvals[a].check

\* Mutant: the check with the request's own id is let through.
SameId(a) == IF a \in DOMAIN checks THEN a ELSE approvals[a].check

Released(a) == CheckOf(a)

\* The UPDATE of pre_trade_checks, by an approval only.
Release(h) ==
  LET c == Released(handler[h].approval)
  IN  /\ At(h, "release")
      /\ checks' = [checks EXCEPT ![c] = [@ EXCEPT !.status = "approved", !.can = TRUE]]
      /\ handler' = [handler EXCEPT ![h].pc = "audit"]
      /\ UNCHANGED <<book, rules, events, approvals, audit, started, raced, broken>>

\* Mutant: the log takes the decision from the request's row, where a rival
\* may have written another.
EntryFromRow(h) ==
  <<CheckOf(handler[h].approval), approvals[handler[h].approval].status>>

Entry(h) == <<CheckOf(handler[h].approval), handler[h].decision>>

WriteAudit(h) ==
  /\ At(h, "audit")
  /\ audit' = audit \cup {Entry(h)}
  /\ handler' = [handler EXCEPT ![h] = Idle]
  /\ UNCHANGED <<book, rules, checks, events, approvals, started, raced, broken>>

\* A statement fails: 500, and what was written stays.
FailDecision(h) ==
  /\ handler[h].pc \in {"decide", "release", "audit"}
  /\ handler' = [handler EXCEPT ![h] = Idle]
  /\ broken' = IF At(h, "decide") THEN broken ELSE broken \cup {handler[h].approval}
  /\ UNCHANGED <<book, rules, checks, events, approvals, audit, started, raced>>

\* The limit calculation replaces the row.
Recalculate ==
  /\ book' \in Books
  /\ UNCHANGED <<rules, checks, events, approvals, audit, handler, started, raced, broken>>

Next ==
  \/ Recalculate
  \/ \E h \in Handlers :
       \/ StartValidation(h) \/ ReadPosition(h) \/ RecordBreach(h) \/ SaveCheck(h)
       \/ FailValidation(h)
       \/ CreateApproval(h) \/ ReadApproval(h) \/ Decide(h) \/ Release(h)
       \/ WriteAudit(h) \/ FailDecision(h)

Spec == Init /\ [][Next]_vars

-----------------------------------------------------------------------------
(* Properties.                                                             *)

\* Every row and every handler has the shape the code gives it, and refers to
\* rows that exist.
TypeOK ==
  /\ book \in Books /\ rules \in RuleSets
  /\ checks \in Seq(Check) /\ Len(checks) <= started
  /\ events \subseteq (1..started) \X rules
  /\ \A a \in DOMAIN approvals : approvals[a] \in Approval /\ CheckOf(a) \in DOMAIN checks
  /\ audit \subseteq (DOMAIN checks) \X {"approved", "rejected"}
  /\ \A h \in Handlers :
       /\ handler[h].pc \in {"idle", "read", "record", "decide", "release", "audit"}
       /\ handler[h].pc \in {"read", "record"} => handler[h].todo # << >>
       /\ handler[h].pc \in {"decide", "release", "audit"} =>
            handler[h].approval \in DOMAIN approvals
       /\ handler[h].record \subseteq rules

\* A check that is not compliant is only ever on record with a breach event
\* for every rule it violates, whatever failed on the way: the events are
\* written first, one at a time, and the check last
\* (pre-trade-service.ts, validateTrade).
BreachesBeforeCheck ==
  \A c \in DOMAIN checks :
    LET check == checks[c] IN
    ~Compliant(rules, check.lots) =>
      \A rule \in Violations(rules, check.lots) : <<check.id, rule>> \in events

\* Once a request is approved or rejected its status never changes again,
\* unless two handlers had read it as pending together
\* (trade-approvals.ts tests the status, but in a statement of its own).
DecisionFinal ==
  [][\A a \in DOMAIN approvals :
       approvals[a].status # "pending" /\ a \notin raced =>
         approvals'[a].status = approvals[a].status]_vars

\* Approval requests are reviewed as Decision promises: decided only by a
\* handler that had found them pending; the release of the check and the audit
\* entry that follow are nothing to the review.
ApprovalStatus ==
  [a \in 1..MaxApprovals |-> IF a \in DOMAIN approvals THEN approvals[a].status ELSE "none"]

Mind ==
  [h \in Handlers |->
     IF At(h, "decide")
     THEN [id |-> handler[h].approval, verdict |-> handler[h].decision] ELSE NULL]

AsDecision ==
  INSTANCE Decision WITH
    Deciders <- Handlers, Ids <- 1..MaxApprovals, Verdicts <- {"approved", "rejected"},
    None <- NULL, status <- ApprovalStatus, mind <- Mind

ApprovalDecisions == AsDecision!DecisionSpec

\* The requests about a check, and whether all of them are settled: not being
\* decided, not decided twice, not abandoned half-way.
RequestsFor(c) == {a \in DOMAIN approvals : CheckOf(a) = c}

UnderWay(a) == \E h \in Handlers : handler[h].approval = a

Settled(c) == \A a \in RequestsFor(c) : ~UnderWay(a) /\ a \notin raced /\ a \notin broken

\* Between decisions a check may proceed exactly when its validation said so
\* or one of its approval requests is approved: no other check is released,
\* and none that was approved is left behind.
CheckFollowsDecisions ==
  \A c \in DOMAIN checks : Settled(c) =>
    (checks[c].can <=>
       checks[c].given \/ \E a \in RequestsFor(c) : approvals[a].status = "approved")

\* A check that was released has an 'approved' entry in the audit trail, even
\* when two managers decided it differently at the same time; only a decision
\* still under way or one that failed can be missing.
ReleasesAudited ==
  \A c \in DOMAIN checks :
    /\ checks[c].can # checks[c].given
    /\ \A a \in RequestsFor(c) : ~UnderWay(a) /\ a \notin broken
    => <<c, "approved">> \in audit

\* 0006_pre_trade_validation.sql:21 describes the 'block' threshold: "Trades
\* resulting in >95% utilization are blocked". The status is the row's type,
\* 'block', and only the status 'blocked' stops a trade: violated.
ThresholdBlocks ==
  \A c \in DOMAIN checks :
    ThresholdStatus(checks[c].lots, checks[c].limit) = "block" => ~checks[c].given
=============================================================================
