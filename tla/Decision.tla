------------------------------ MODULE Decision ------------------------------
(***************************************************************************)
(* What the review of requests promises, whatever is reviewed (approvals   *)
(* of trades, hedge exemptions): a request is decided only by a reviewer   *)
(* who found it pending. Reading and writing the status are two            *)
(* statements, so two reviewers may both have found it pending, and then   *)
(* the later one has the last word; nobody else ever changes a decision.   *)
(***************************************************************************)
CONSTANTS
  Deciders,   \* the handlers that review requests
  Ids,        \* the requests
  Verdicts,   \* what a request may be decided to be
  None        \* not reviewing

VARIABLES
  status,     \* [Ids -> "none", "pending" or a verdict]
  mind        \* [Deciders -> None or the request found pending and the verdict]

decisionVars == <<status, mind>>

Review == [id : Ids, verdict : Verdicts]

DecisionInit ==
  /\ status = [id \in Ids |-> "none"]
  /\ mind = [d \in Deciders |-> None]

Submit(id) ==
  /\ status[id] = "none"
  /\ status' = [status EXCEPT ![id] = "pending"]
  /\ UNCHANGED mind

Consider(d, id, verdict) ==
  /\ mind[d] = None /\ status[id] = "pending"
  /\ mind' = [mind EXCEPT ![d] = [id |-> id, verdict |-> verdict]]
  /\ UNCHANGED status

Decide(d) ==
  /\ mind[d] # None
  /\ status' = [status EXCEPT ![mind[d].id] = mind[d].verdict]
  /\ mind' = [mind EXCEPT ![d] = None]

Withdraw(d) ==
  /\ mind[d] # None
  /\ mind' = [mind EXCEPT ![d] = None]
  /\ UNCHANGED status

DecisionNext ==
  \/ \E id \in Ids : Submit(id)
  \/ \E d \in Deciders :
       \/ \E id \in Ids, verdict \in Verdicts : Consider(d, id, verdict)
       \/ Decide(d) \/ Withdraw(d)

DecisionSpec == DecisionInit /\ [][DecisionNext]_decisionVars

-----------------------------------------------------------------------------
\* A decision that no reviewer has still in mind is final: the promise the
\* reviewed components inherit by implementing DecisionSpec.
Decided(id) == status[id] \in Verdicts /\ \A d \in Deciders :
                 mind[d] # None => mind[d].id # id

Final == [][\A id \in Ids : Decided(id) => Decided(id)' /\ status'[id] = status[id]]_decisionVars
=============================================================================
