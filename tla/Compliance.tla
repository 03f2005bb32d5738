----------------------------- MODULE Compliance -----------------------------
(***************************************************************************)
(* The check of a projected position against the exchanges' regulatory     *)
(* rules (src/backend/src/services/regulatory-compliance.ts), used by      *)
(* POST /transactions, the pre-trade validation and the monitoring cycle.  *)
(***************************************************************************)
EXTENDS Integers

\* A row of regulatory_rules for the commodity and limit category at hand.
\* Reportable thresholds only lead to a warning, exemptions to nothing.
RuleTypes == {"position_limit", "accountability_level", "reportable_threshold"}
Actions == {"block_trade", "require_approval", "notify_only", "report_required"}
Rule == [type : RuleTypes, limit : Nat, action : Actions]

Size(lots) == IF lots < 0 THEN -lots ELSE lots

\* Mutant: short positions count as nothing.
ExceedsLong(rule, lots) == lots > rule.limit

Exceeds(rule, lots) == Size(lots) > rule.limit

\* The violations of checkRegulatoryCompliance: critical ones of position
\* limits, high ones of accountability levels.
Critical(rules, lots) == {r \in rules : r.type = "position_limit" /\ Exceeds(r, lots)}
High(rules, lots) == {r \in rules : r.type = "accountability_level" /\ Exceeds(r, lots)}
Violations(rules, lots) == Critical(rules, lots) \cup High(rules, lots)

\* "compliant" is set to false by position limits only.
Compliant(rules, lots) == Critical(rules, lots) = {}

\* getApplicableRules orders the position limits by their value.
FirstCritical(rules, lots) ==
  CHOOSE r \in Critical(rules, lots) :
    \A s \in Critical(rules, lots) : r.limit <= s.limit

\* enforcement_action: block_trade wins, then the first position limit's own
\* action, then the approval of an accountability level.
Enforcement(rules, lots) ==
  CASE \E r \in Critical(rules, lots) : r.action = "block_trade" -> "block_trade"
    [] /\ Critical(rules, lots) # {}
       /\ \A r \in Critical(rules, lots) : r.action # "block_trade" ->
         FirstCritical(rules, lots).action
    [] /\ Critical(rules, lots) = {}
       /\ \E r \in High(rules, lots) : r.action = "require_approval" -> "require_approval"
    [] OTHER -> "none"
=============================================================================
