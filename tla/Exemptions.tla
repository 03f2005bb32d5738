----------------------------- MODULE Exemptions -----------------------------
(***************************************************************************)
(* Requests for hedge exemptions (src/backend/src/routes/exemptions.ts):   *)
(* created pending, then approved, denied or deleted. Each of the three    *)
(* reads the request, tests that it is pending, and writes it in a         *)
(* statement of its own that does not test it again.                       *)
(***************************************************************************)
EXTENDS Naturals

CONSTANTS
  Reviewers,      \* the requests to approve, deny or delete served at a time
  MaxExemptions,  \* bound on hedge_exemptions
  Nobody          \* a reviewer who is not reviewing

Outcomes == {"approved", "denied", "deleted"}
ExemptionIds == 1..MaxExemptions

VARIABLES
  exemptions,     \* [ids -> [status, period, reason]], status "none" before it is created
  reviewing       \* [Reviewers -> Nobody or the request read and the outcome]

exemptionVars == <<exemptions, reviewing>>

\* period: effective_from and effective_to are set; reason: rejection_reason.
Absent == [status |-> "none", period |-> FALSE, reason |-> FALSE]

Exemption == [status : {"none", "pending"} \cup Outcomes, period : BOOLEAN, reason : BOOLEAN]

ExemptionsInit ==
  /\ exemptions = [id \in ExemptionIds |-> Absent]
  /\ reviewing = [r \in Reviewers |-> Nobody]

\* POST /
CreateExemption(id) ==
  /\ exemptions[id].status = "none"
  /\ exemptions' = [exemptions EXCEPT ![id].status = "pending"]
  /\ UNCHANGED reviewing

\* Mutant: any request that is not deleted may be reviewed.
NotDeleted(id) == exemptions[id].status \notin {"none", "deleted"}

Reviewable(id) == exemptions[id].status = "pending"

\* The SELECT of POST /:id/approve, POST /:id/deny and DELETE /:id, and the
\* tests. Deleting takes the owner or a super admin: there always is one.
ReadExemption(r, id, outcome) ==
  /\ reviewing[r] = Nobody /\ Reviewable(id)
  /\ reviewing' = [reviewing EXCEPT ![r] = [id |-> id, verdict |-> outcome]]
  /\ UNCHANGED exemptions

\* What the UPDATE sets; the columns of another outcome are left alone.
Reviewed(exemption, outcome) ==
  CASE outcome = "approved" -> [exemption EXCEPT !.status = outcome, !.period = TRUE]
    [] outcome = "denied"   -> [exemption EXCEPT !.status = outcome, !.reason = TRUE]
    [] outcome = "deleted"  -> [Absent EXCEPT !.status = "deleted"]

\* The UPDATE or DELETE, by id alone: of no effect on a row that is gone.
WriteExemption(r) ==
  LET me == reviewing[r]
  IN  /\ me # Nobody
      /\ exemptions' = IF exemptions[me.id].status = "deleted" THEN exemptions
                       ELSE [exemptions EXCEPT ![me.id] = Reviewed(@, me.verdict)]
      /\ reviewing' = [reviewing EXCEPT ![r] = Nobody]

\* The statement fails: 500, nothing written.
FailReview(r) ==
  /\ reviewing[r] # Nobody
  /\ reviewing' = [reviewing EXCEPT ![r] = Nobody]
  /\ UNCHANGED exemptions

ExemptionsNext ==
  \/ \E id \in ExemptionIds : CreateExemption(id)
  \/ \E r \in Reviewers :
       \/ \E id \in ExemptionIds, outcome \in Outcomes : ReadExemption(r, id, outcome)
       \/ WriteExemption(r) \/ FailReview(r)

ExemptionsSpec == ExemptionsInit /\ [][ExemptionsNext]_exemptionVars

-----------------------------------------------------------------------------
\* Exemptions are reviewed as Decision promises: approved, denied or deleted
\* only by a handler that had found them pending (exemptions.ts:247, 317, 383).
AsDecision ==
  INSTANCE Decision WITH
    Deciders <- Reviewers, Ids <- ExemptionIds, Verdicts <- Outcomes, None <- Nobody,
    status <- [id \in ExemptionIds |-> exemptions[id].status], mind <- reviewing

ExemptionDecisions == AsDecision!DecisionSpec

\* The types of the variables; and an exemption is approved only with a
\* period of validity, denied only with a reason.
ExemptionTypeOK ==
  /\ exemptions \in [ExemptionIds -> Exemption]
  /\ reviewing \in [Reviewers -> AsDecision!Review \cup {Nobody}]
  /\ \A id \in ExemptionIds :
       /\ exemptions[id].status = "approved" => exemptions[id].period
       /\ exemptions[id].status = "denied" => exemptions[id].reason
=============================================================================
