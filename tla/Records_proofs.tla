---------------------------- MODULE Records_proofs ----------------------------
(***************************************************************************)
(* The records that are written in more than one statement: reviews of     *)
(* requests and the exemptions that implement them, transactions that      *)
(* implement the ledger, and aggregated positions.                         *)
(***************************************************************************)
EXTENDS Decision, Exemptions, FinancialRecords, Aggregation, TLAPS

-----------------------------------------------------------------------------
(* The review of requests: Decision. A decision nobody has still in mind   *)
(* is final, for every component that implements the review.               *)

DecisionTypeOK ==
  /\ status \in [Ids -> {"none", "pending"} \cup Verdicts]
  /\ mind \in [Deciders -> Review \cup {None}]

\* The types of the review's variables.
THEOREM DecisionTypes == DecisionSpec => []DecisionTypeOK
<1>1. DecisionInit => DecisionTypeOK
  BY DEF DecisionInit, DecisionTypeOK
<1>2. DecisionTypeOK /\ [DecisionNext]_decisionVars => DecisionTypeOK'
  <2> SUFFICES ASSUME DecisionTypeOK, [DecisionNext]_decisionVars PROVE DecisionTypeOK'
    OBVIOUS
  <2>1. ASSUME NEW id \in Ids, Submit(id) PROVE DecisionTypeOK'
    BY <2>1 DEF DecisionTypeOK, Submit
  <2>2. ASSUME NEW d \in Deciders, NEW id \in Ids, NEW verdict \in Verdicts,
               Consider(d, id, verdict)
        PROVE  DecisionTypeOK'
    <3>1. [id |-> id, verdict |-> verdict] \in Review
      BY DEF Review
    <3>2. QED
      BY <2>2, <3>1 DEF DecisionTypeOK, Consider
  <2>3. ASSUME NEW d \in Deciders, Decide(d) PROVE DecisionTypeOK'
    <3>1. mind[d].id \in Ids /\ mind[d].verdict \in Verdicts
      BY <2>3 DEF Decide, DecisionTypeOK, Review
    <3>2. QED
      BY <2>3, <3>1 DEF DecisionTypeOK, Decide
  <2>4. ASSUME NEW d \in Deciders, Withdraw(d) PROVE DecisionTypeOK'
    BY <2>4 DEF DecisionTypeOK, Withdraw
  <2>5. CASE UNCHANGED decisionVars
    BY <2>5 DEF DecisionTypeOK, decisionVars
  <2>6. QED
    BY <2>1, <2>2, <2>3, <2>4, <2>5 DEF DecisionNext
<1>3. QED
  BY <1>1, <1>2, PTL DEF DecisionSpec

\* A step leaves a decided request alone that no reviewer has in mind, and
\* nobody takes it to mind again.
LEMMA StepKeepsDecided ==
  ASSUME "none" \notin Verdicts, "pending" \notin Verdicts,
         DecisionTypeOK, DecisionNext, NEW id \in Ids, Decided(id)
  PROVE  Decided(id)' /\ status'[id] = status[id]
<1>1. ASSUME NEW other \in Ids, Submit(other)
      PROVE  Decided(id)' /\ status'[id] = status[id]
  BY <1>1 DEF Submit, Decided, DecisionTypeOK
<1>2. ASSUME NEW d \in Deciders, NEW other \in Ids, NEW verdict \in Verdicts,
             Consider(d, other, verdict)
      PROVE  Decided(id)' /\ status'[id] = status[id]
  <2>1. other # id /\ status' = status
    BY <1>2 DEF Consider, Decided
  <2>2. ASSUME NEW e \in Deciders, mind'[e] # None PROVE mind'[e].id # id
    BY <1>2, <2>1, <2>2 DEF Consider, Decided, DecisionTypeOK
  <2>3. QED
    BY <2>1, <2>2 DEF Decided
<1>3. ASSUME NEW d \in Deciders, Decide(d)
      PROVE  Decided(id)' /\ status'[id] = status[id]
  <2>1. mind[d].id # id
    BY <1>3 DEF Decide, Decided
  <2>2. status'[id] = status[id]
    BY <1>3, <2>1 DEF Decide, DecisionTypeOK
  <2>3. QED
    BY <1>3, <2>2 DEF Decide, Decided, DecisionTypeOK
<1>4. ASSUME NEW d \in Deciders, Withdraw(d)
      PROVE  Decided(id)' /\ status'[id] = status[id]
  BY <1>4 DEF Withdraw, Decided, DecisionTypeOK
<1>5. QED
  BY <1>1, <1>2, <1>3, <1>4 DEF DecisionNext

\* Final, for any reviewers, requests and verdicts.
THEOREM DecisionsAreFinal ==
  ASSUME "none" \notin Verdicts, "pending" \notin Verdicts
  PROVE  DecisionSpec => Final
<1>1. DecisionTypeOK /\ [DecisionNext]_decisionVars =>
        [\A id \in Ids : Decided(id) => Decided(id)' /\ status'[id] = status[id]]_decisionVars
  BY StepKeepsDecided
<1>2. QED
  BY <1>1, DecisionTypes, PTL DEF DecisionSpec, Final

-----------------------------------------------------------------------------
(* Exemptions implement the review of Decision, for any number of requests *)
(* and of reviewers at a time.                                             *)

\* The id of a reviewer who is reviewing is told apart from Nobody.
Reviews == AsDecision!Review

\* A write does to the request what was decided, and no more.
LEMMA WriteKeepsTypes ==
  ASSUME ExemptionTypeOK, NEW r \in Reviewers, WriteExemption(r)
  PROVE  ExemptionTypeOK'
<1> DEFINE me == reviewing[r]
<1>1. me \in Reviews /\ me.id \in ExemptionIds /\ me.verdict \in Outcomes
  BY DEF ExemptionTypeOK, WriteExemption, AsDecision!Review, Reviews
<1>2. reviewing' \in [Reviewers -> Reviews \cup {Nobody}]
  BY DEF ExemptionTypeOK, WriteExemption, Reviews
<1>3. CASE exemptions[me.id].status = "deleted"
  BY <1>2, <1>3 DEF ExemptionTypeOK, WriteExemption, Reviews
<1>4. CASE exemptions[me.id].status # "deleted"
  <2> DEFINE new == Reviewed(exemptions[me.id], me.verdict)
  <2>1. /\ new \in Exemption
        /\ new.status = "approved" => new.period
        /\ new.status = "denied" => new.reason
    BY <1>1 DEF ExemptionTypeOK, Reviewed, Exemption, Outcomes, Absent
  <2>2. exemptions' = [exemptions EXCEPT ![me.id] = new]
    BY <1>4 DEF WriteExemption
  <2> HIDE DEF new
  <2>3. QED
    BY <1>1, <1>2, <2>1, <2>2 DEF ExemptionTypeOK, Reviews
<1>5. QED
  BY <1>3, <1>4

\* ExemptionTypeOK: rows are requests, and what is approved has a period of
\* validity, what is denied a reason.
THEOREM ExemptionTypes == ExemptionsSpec => []ExemptionTypeOK
<1>1. ExemptionsInit => ExemptionTypeOK
  BY DEF ExemptionsInit, ExemptionTypeOK, Exemption, Absent
<1>2. ExemptionTypeOK /\ [ExemptionsNext]_exemptionVars => ExemptionTypeOK'
  <2> SUFFICES ASSUME ExemptionTypeOK, [ExemptionsNext]_exemptionVars PROVE ExemptionTypeOK'
    OBVIOUS
  <2>1. ASSUME NEW id \in ExemptionIds, CreateExemption(id) PROVE ExemptionTypeOK'
    <3> DEFINE new == [exemptions[id] EXCEPT !.status = "pending"]
    <3>1. new \in Exemption /\ new.status = "pending"
      BY DEF ExemptionTypeOK, Exemption
    <3>2. exemptions' = [exemptions EXCEPT ![id] = new] /\ reviewing' = reviewing
      BY <2>1 DEF CreateExemption
    <3> HIDE DEF new
    <3>3. QED
      BY <3>1, <3>2 DEF ExemptionTypeOK
  <2>2. ASSUME NEW r \in Reviewers, NEW id \in ExemptionIds, NEW outcome \in Outcomes,
               ReadExemption(r, id, outcome)
        PROVE  ExemptionTypeOK'
    <3>1. [id |-> id, verdict |-> outcome] \in Reviews
      BY DEF Reviews, AsDecision!Review
    <3>2. QED
      BY <2>2, <3>1 DEF ExemptionTypeOK, ReadExemption, Reviews
  <2>3. ASSUME NEW r \in Reviewers, WriteExemption(r) PROVE ExemptionTypeOK'
    BY <2>3, WriteKeepsTypes
  <2>4. ASSUME NEW r \in Reviewers, FailReview(r) PROVE ExemptionTypeOK'
    BY <2>4 DEF ExemptionTypeOK, FailReview
  <2>5. CASE UNCHANGED exemptionVars
    BY <2>5 DEF ExemptionTypeOK, exemptionVars
  <2>6. QED
    BY <2>1, <2>2, <2>3, <2>4, <2>5 DEF ExemptionsNext
<1>3. QED
  BY <1>1, <1>2, PTL DEF ExemptionsSpec

-----------------------------------------------------------------------------
\* The status of every request, as the review sees it.
StatusOf == [id \in ExemptionIds |-> exemptions[id].status]

\* A request is created as the review submits it.
LEMMA CreateSubmits ==
  ASSUME ExemptionTypeOK, NEW id \in ExemptionIds, CreateExemption(id)
  PROVE  AsDecision!Submit(id)
<1>1. StatusOf' = [StatusOf EXCEPT ![id] = "pending"]
  BY DEF ExemptionTypeOK, Exemption, CreateExemption, StatusOf
<1>2. QED
  BY <1>1 DEF AsDecision!Submit, CreateExemption, StatusOf

\* A write decides the request, or, when it was deleted, withdraws.
LEMMA WriteDecides ==
  ASSUME ExemptionTypeOK, NEW r \in Reviewers, WriteExemption(r)
  PROVE  AsDecision!Decide(r) \/ AsDecision!Withdraw(r)
<1> DEFINE me == reviewing[r]
<1>1. me.id \in ExemptionIds /\ me.verdict \in Outcomes
  BY DEF ExemptionTypeOK, WriteExemption, AsDecision!Review
<1>2. CASE exemptions[me.id].status = "deleted"
  BY <1>2 DEF WriteExemption, AsDecision!Withdraw
<1>3. CASE exemptions[me.id].status # "deleted"
  <2> DEFINE new == Reviewed(exemptions[me.id], me.verdict)
  <2>1. new.status = me.verdict
    BY <1>1 DEF ExemptionTypeOK, Reviewed, Exemption, Outcomes, Absent
  <2>2. exemptions' = [exemptions EXCEPT ![me.id] = new]
    BY <1>3 DEF WriteExemption
  <2> HIDE DEF new
  <2>3. StatusOf' = [StatusOf EXCEPT ![me.id] = me.verdict]
    BY <1>1, <2>1, <2>2 DEF ExemptionTypeOK, StatusOf
  <2>4. QED
    BY <2>3 DEF AsDecision!Decide, WriteExemption, StatusOf
<1>4. QED
  BY <1>2, <1>3

\* ExemptionDecisions: every step is one of the review, or nothing to it.
THEOREM ExemptionsImplementDecision == ExemptionsSpec => ExemptionDecisions
<1>1. ExemptionsInit => AsDecision!DecisionInit
  BY DEF ExemptionsInit, AsDecision!DecisionInit, Absent
<1>2. ExemptionTypeOK /\ [ExemptionsNext]_exemptionVars
        => [AsDecision!DecisionNext]_(AsDecision!decisionVars)
  <2> SUFFICES ASSUME ExemptionTypeOK, [ExemptionsNext]_exemptionVars
               PROVE  AsDecision!DecisionNext \/ (StatusOf' = StatusOf /\ reviewing' = reviewing)
    BY DEF AsDecision!decisionVars, StatusOf
  <2>1. ASSUME NEW id \in ExemptionIds, CreateExemption(id) PROVE AsDecision!DecisionNext
    BY <2>1, CreateSubmits DEF AsDecision!DecisionNext
  <2>2. ASSUME NEW r \in Reviewers, NEW id \in ExemptionIds, NEW outcome \in Outcomes,
               ReadExemption(r, id, outcome)
        PROVE  AsDecision!DecisionNext
    <3>1. AsDecision!Consider(r, id, outcome)
      BY <2>2 DEF ReadExemption, Reviewable, AsDecision!Consider
    <3>2. QED
      BY <3>1 DEF AsDecision!DecisionNext
  <2>3. ASSUME NEW r \in Reviewers, WriteExemption(r) PROVE AsDecision!DecisionNext
    BY <2>3, WriteDecides DEF AsDecision!DecisionNext
  <2>4. ASSUME NEW r \in Reviewers, FailReview(r) PROVE AsDecision!DecisionNext
    <3>1. AsDecision!Withdraw(r)
      BY <2>4 DEF FailReview, AsDecision!Withdraw
    <3>2. QED
      BY <3>1 DEF AsDecision!DecisionNext
  <2>5. CASE UNCHANGED exemptionVars
    BY <2>5 DEF exemptionVars, StatusOf
  <2>6. QED
    BY <2>1, <2>2, <2>3, <2>4, <2>5 DEF ExemptionsNext
<1>3. QED
  BY <1>1, <1>2, ExemptionTypes, PTL DEF ExemptionsSpec, ExemptionDecisions, AsDecision!DecisionSpec

-----------------------------------------------------------------------------
(* The financial records implement the ledger, for any accounts,           *)
(* transactions and integer amounts: completing a transaction again moves  *)
(* nothing.                                                                *)

FinancialTypeOK ==
  /\ transactions \in [TransactionIds -> Transaction]
  /\ \A t \in TransactionIds :
       transactions[t].status # "none" => transactions[t].amount \in Amounts

\* Whatever is created or completed leaves every row a transaction, with an
\* amount once it was created.
THEOREM FinancialTypes == FinancialSpec => []FinancialTypeOK
<1>1. FinancialInit => FinancialTypeOK
  BY DEF FinancialInit, FinancialTypeOK, Transaction, NoTransaction, Party
<1>2. FinancialTypeOK /\ [FinancialNext]_financialVars => FinancialTypeOK'
  <2> SUFFICES ASSUME FinancialTypeOK, [FinancialNext]_financialVars PROVE FinancialTypeOK'
    OBVIOUS
  <2>1. ASSUME NEW t \in TransactionIds, NEW from \in Party, NEW to \in Party,
               NEW amount \in Amounts, CreateTransaction(t, from, to, amount)
        PROVE  FinancialTypeOK'
    BY <2>1 DEF FinancialTypeOK, CreateTransaction, Transaction
  <2>2. ASSUME NEW t \in TransactionIds, CompleteTransaction(t) PROVE FinancialTypeOK'
    <3>1. /\ [transactions[t] EXCEPT !.status = "completed"] \in Transaction
          /\ transactions[t].amount \in Amounts
      BY <2>2 DEF FinancialTypeOK, Transaction, CompleteTransaction
    <3>2. QED
      BY <2>2, <3>1 DEF FinancialTypeOK, CompleteTransaction
  <2>3. CASE UNCHANGED financialVars
    BY <2>3 DEF FinancialTypeOK, financialVars
  <2>4. QED
    BY <2>1, <2>2, <2>3 DEF FinancialNext
<1>3. QED
  BY <1>1, <1>2, PTL DEF FinancialSpec

\* The transactions whose amount has moved, before and after a step.
Settled == {t \in TransactionIds : transactions[t].status = "completed"}

\* Creating a transaction is nothing to the ledger.
LEMMA CreateStutters ==
  ASSUME FinancialTypeOK, NEW t \in TransactionIds, NEW from, NEW to, NEW amount,
         CreateTransaction(t, from, to, amount)
  PROVE  balance' = balance /\ Settled' = Settled
<1>1. \A u \in TransactionIds :
        transactions'[u].status = "completed" <=> transactions[u].status = "completed"
  BY DEF FinancialTypeOK, CreateTransaction
<1>2. QED
  BY <1>1 DEF Settled, CreateTransaction

\* Completing one settles it if it is not settled, and is nothing if it is.
LEMMA CompleteSettlesOnce ==
  ASSUME FinancialTypeOK, NEW t \in TransactionIds, CompleteTransaction(t)
  PROVE  \/ AsLedger!Settle(t)
         \/ balance' = balance /\ Settled' = Settled
<1>1. \A u \in TransactionIds : transactions'[u].status =
        IF u = t THEN "completed" ELSE transactions[u].status
  BY DEF FinancialTypeOK, CompleteTransaction, Transaction
<1>2. CASE transactions[t].status = "completed"
  <2>1. balance' = balance
    BY <1>2 DEF CompleteTransaction, Books
  <2>2. Settled' = Settled
    BY <1>1, <1>2 DEF Settled
  <2>3. QED
    BY <2>1, <2>2
<1>3. CASE transactions[t].status # "completed"
  <2>1. t \notin Settled /\ Settled' = Settled \cup {t}
    BY <1>1, <1>3 DEF Settled
  <2>2. balance' = Booked(transactions[t])
    BY <1>3 DEF CompleteTransaction, Books
  <2>3. /\ transactions[t].from \in Party /\ transactions[t].to \in Party
        /\ transactions[t].amount \in Amounts
    BY DEF FinancialTypeOK, Transaction, CompleteTransaction
  <2>4. QED
    BY <2>1, <2>2, <2>3 DEF AsLedger!Settle, AsLedger!Moved, AsLedger!Parties, Settled, Booked, Party
<1>4. QED
  BY <1>2, <1>3

\* MovesMoneyOnce: every step settles one payment, or is nothing to the ledger.
THEOREM RecordsImplementLedger == FinancialSpec => MovesMoneyOnce
<1>1. FinancialInit => AsLedger!LedgerInit
  BY DEF FinancialInit, AsLedger!LedgerInit, NoTransaction
<1>2. FinancialTypeOK /\ [FinancialNext]_financialVars => [AsLedger!LedgerNext]_(AsLedger!ledgerVars)
  <2> SUFFICES ASSUME FinancialTypeOK, [FinancialNext]_financialVars
               PROVE  \/ AsLedger!LedgerNext
                      \/ balance' = balance /\ Settled' = Settled
    BY DEF AsLedger!ledgerVars, Settled
  <2>1. ASSUME NEW t \in TransactionIds, NEW from \in Party, NEW to \in Party,
               NEW amount \in Amounts, CreateTransaction(t, from, to, amount)
        PROVE  balance' = balance /\ Settled' = Settled
    BY <2>1, CreateStutters
  <2>2. ASSUME NEW t \in TransactionIds, CompleteTransaction(t)
        PROVE  \/ AsLedger!LedgerNext
               \/ balance' = balance /\ Settled' = Settled
    BY <2>2, CompleteSettlesOnce DEF AsLedger!LedgerNext
  <2>3. CASE UNCHANGED financialVars
    BY <2>3 DEF financialVars, Settled
  <2>4. QED
    BY <2>1, <2>2, <2>3 DEF FinancialNext
<1>3. QED
  BY <1>1, <1>2, FinancialTypes, PTL DEF FinancialSpec, MovesMoneyOnce, AsLedger!LedgerSpec

-----------------------------------------------------------------------------
(* The aggregated positions: Aggregation.                                  *)

AggregationTypeOK ==
  /\ savings \in Nat
  /\ aggregator \in [Aggregators -> [pc : {"idle", "deactivate", "insert"},
                                     number : Nat, company : Scopes]]

\* Two savings of a company under way at a time cross.
SavingsCross ==
  \A a, b \in Aggregators :
    /\ a # b /\ aggregator[a].pc = "insert" /\ aggregator[b].pc = "insert"
    /\ aggregator[a].company = aggregator[b].company
    => {aggregator[a].number, aggregator[b].number} \in crossed

\* A row that is active while its company's is being saved was inserted since.
RowsCross ==
  \A a \in Aggregators, row \in active :
    aggregator[a].pc = "insert" /\ row.company = aggregator[a].company =>
      {row.number, aggregator[a].number} \in crossed

AggregationInv ==
  AggregationTypeOK /\ SavingsCross /\ RowsCross /\ TwoOnlyIfCrossed /\ NoneOnlyHalfway

\* Only aggregator a moves: the others save what they saved.
Moves(a) ==
  /\ aggregator' \in [Aggregators -> [pc : {"idle", "deactivate", "insert"},
                                      number : Nat, company : Scopes]]
  /\ \A b \in Aggregators \ {a} : aggregator'[b] = aggregator[b]

\* An aggregator that neither was nor is between the two statements changes
\* nothing of this.
LEMMA NotSaving ==
  ASSUME AggregationInv, NEW a \in Aggregators, Moves(a),
         aggregator[a].pc # "insert", aggregator'[a].pc # "insert",
         UNCHANGED <<active, savings, crossed, saved, dropped>>
  PROVE  AggregationInv'
<1>1. \A company : Saving(company)' = Saving(company)
  BY DEF Saving, Moves
<1>2. AggregationTypeOK'
  BY DEF AggregationInv, AggregationTypeOK, Moves
<1>3. SavingsCross' /\ RowsCross'
  BY DEF AggregationInv, SavingsCross, RowsCross, Moves
<1>4. TwoOnlyIfCrossed' /\ NoneOnlyHalfway'
  BY <1>1 DEF AggregationInv, TwoOnlyIfCrossed, NoneOnlyHalfway
<1>5. QED
  BY <1>2, <1>3, <1>4 DEF AggregationInv

\* The first statement: the company's rows go, and the saving crosses those
\* that are under way.
LEMMA DeactivateKeeps ==
  ASSUME AggregationInv, NEW a \in Aggregators, Deactivate(a)
  PROVE  AggregationInv'
<1> DEFINE X == aggregator[a].company
<1>1. /\ Moves(a) /\ aggregator[a].pc = "deactivate" /\ aggregator'[a].pc = "insert"
      /\ aggregator'[a].number = savings + 1 /\ aggregator'[a].company = X
  <2> DEFINE one == [aggregator[a] EXCEPT !.pc = "insert", !.number = savings + 1]
  <2>1. /\ aggregator[a] \in [pc : {"idle", "deactivate", "insert"},
                              number : Nat, company : Scopes]
        /\ savings + 1 \in Nat
    BY DEF AggregationInv, AggregationTypeOK
  <2>2. /\ one \in [pc : {"idle", "deactivate", "insert"}, number : Nat, company : Scopes]
        /\ one.pc = "insert" /\ one.number = savings + 1 /\ one.company = X
    BY <2>1
  <2>3. aggregator' = [aggregator EXCEPT ![a] = one] /\ aggregator[a].pc = "deactivate"
    BY DEF Deactivate
  <2> HIDE DEF one
  <2>4. QED
    BY <2>2, <2>3 DEF Moves, AggregationInv, AggregationTypeOK
<1>2. /\ active' = active \ OfCompany(X) /\ saved' = saved /\ dropped' = dropped
      /\ savings' = savings + 1
      /\ crossed' = crossed \cup {{savings + 1, aggregator[b].number} : b \in Saving(X)}
  BY DEF Deactivate
<1>3. AggregationTypeOK'
  BY <1>1, <1>2 DEF AggregationInv, AggregationTypeOK, Moves
<1>4. SavingsCross'
  <2> SUFFICES ASSUME NEW b \in Aggregators, NEW d \in Aggregators, b # d,
                      aggregator'[b].pc = "insert", aggregator'[d].pc = "insert",
                      aggregator'[b].company = aggregator'[d].company
               PROVE  {aggregator'[b].number, aggregator'[d].number} \in crossed'
    BY DEF SavingsCross
  <2>1. CASE b # a /\ d # a
    BY <1>1, <1>2, <2>1 DEF AggregationInv, SavingsCross, Moves
  <2>2. CASE b = a
    <3>1. d \in Saving(X) /\ aggregator'[d].number = aggregator[d].number
      BY <1>1, <2>2 DEF Saving, Moves
    <3>2. QED
      BY <1>1, <1>2, <2>2, <3>1
  <2>3. CASE d = a
    <3>1. b \in Saving(X) /\ aggregator'[b].number = aggregator[b].number
      BY <1>1, <2>3 DEF Saving, Moves
    <3>2. {savings + 1, aggregator[b].number} \in crossed'
      BY <1>2, <3>1
    <3>3. QED
      BY <1>1, <2>3, <3>1, <3>2
  <2>4. QED
    BY <2>1, <2>2, <2>3
<1>5. RowsCross'
  <2> SUFFICES ASSUME NEW b \in Aggregators, NEW row \in active',
                      aggregator'[b].pc = "insert", row.company = aggregator'[b].company
               PROVE  {row.number, aggregator'[b].number} \in crossed'
    BY DEF RowsCross
  <2>1. row \in active /\ row.company # X
    BY <1>2 DEF OfCompany
  <2>2. b # a /\ aggregator'[b] = aggregator[b]
    BY <1>1, <2>1 DEF Moves
  <2>3. QED
    BY <1>2, <2>1, <2>2 DEF AggregationInv, RowsCross
<1>6. TwoOnlyIfCrossed'
  BY <1>2 DEF AggregationInv, TwoOnlyIfCrossed
<1>7. NoneOnlyHalfway'
  <2> SUFFICES ASSUME NEW company \in saved', \A row \in active' : row.company # company
               PROVE  Saving(company)' # {} \/ company \in dropped'
    BY DEF NoneOnlyHalfway
  <2>1. CASE company = X
    <3>1. a \in Saving(company)'
      BY <1>1, <2>1 DEF Saving
    <3>2. QED
      BY <3>1
  <2>2. CASE company # X
    <3>1. \A row \in active : row.company # company
      BY <1>2, <2>2 DEF OfCompany
    <3>2. Saving(company) # {} \/ company \in dropped
      BY <1>2, <3>1 DEF AggregationInv, NoneOnlyHalfway
    <3>3. Saving(company) \subseteq Saving(company)'
      BY <1>1 DEF Saving, Moves
    <3>4. QED
      BY <1>2, <3>2, <3>3
  <2>3. QED
    BY <2>1, <2>2
<1>8. QED
  BY <1>3, <1>4, <1>5, <1>6, <1>7 DEF AggregationInv

\* The second statement: the new row meets those whose savings it crossed.
LEMMA InsertKeeps ==
  ASSUME AggregationInv, NEW a \in Aggregators, InsertAggregate(a)
  PROVE  AggregationInv'
<1> DEFINE X == aggregator[a].company
           new == [number |-> aggregator[a].number, company |-> X]
<1>1. Moves(a) /\ aggregator[a].pc = "insert" /\ aggregator'[a].pc = "idle"
  <2>1. Waiting \in [pc : {"idle", "deactivate", "insert"}, number : Nat, company : Scopes]
    BY DEF Waiting, Scopes
  <2>2. aggregator' = [aggregator EXCEPT ![a] = Waiting] /\ Waiting.pc = "idle"
    BY DEF InsertAggregate, Waiting
  <2>3. QED
    BY <2>1, <2>2 DEF InsertAggregate, Moves, AggregationInv, AggregationTypeOK
<1>2. /\ active' = active \cup {new} /\ savings' = savings /\ crossed' = crossed
      /\ saved' = saved \cup {X} /\ dropped' = dropped \ {X}
  BY DEF InsertAggregate
<1>3. AggregationTypeOK'
  BY <1>1, <1>2 DEF AggregationInv, AggregationTypeOK, Moves
<1>4. SavingsCross'
  BY <1>1, <1>2 DEF AggregationInv, SavingsCross, Moves
<1>5. new.number = aggregator[a].number /\ new.company = X
  OBVIOUS
<1> HIDE DEF new
<1>6. RowsCross'
  <2> SUFFICES ASSUME NEW b \in Aggregators, NEW row \in active',
                      aggregator'[b].pc = "insert", row.company = aggregator'[b].company
               PROVE  {row.number, aggregator'[b].number} \in crossed'
    BY DEF RowsCross
  <2>1. b # a /\ aggregator'[b] = aggregator[b]
    BY <1>1 DEF Moves
  <2>2. CASE row \in active
    BY <1>2, <2>1, <2>2 DEF AggregationInv, RowsCross
  <2>3. CASE row = new
    BY <1>1, <1>2, <1>5, <2>1, <2>3 DEF AggregationInv, SavingsCross
  <2>4. QED
    BY <1>2, <2>2, <2>3
<1>7. TwoOnlyIfCrossed'
  <2> SUFFICES ASSUME NEW row \in active', NEW other \in active',
                      row # other, row.company = other.company
               PROVE  {row.number, other.number} \in crossed'
    BY DEF TwoOnlyIfCrossed
  <2>1. CASE row \in active /\ other \in active
    BY <1>2, <2>1 DEF AggregationInv, TwoOnlyIfCrossed
  <2>2. CASE row \in active /\ other = new
    BY <1>1, <1>2, <1>5, <2>2 DEF AggregationInv, RowsCross
  <2>3. CASE row = new /\ other \in active
    <3>1. {other.number, aggregator[a].number} \in crossed
      BY <1>1, <1>5, <2>3 DEF AggregationInv, RowsCross
    <3>2. {row.number, other.number} = {other.number, aggregator[a].number}
      BY <1>5, <2>3
    <3>3. QED
      BY <1>2, <3>1, <3>2
  <2>4. QED
    BY <1>2, <2>1, <2>2, <2>3
<1>8. NoneOnlyHalfway'
  <2> SUFFICES ASSUME NEW company \in saved', \A row \in active' : row.company # company
               PROVE  Saving(company)' # {} \/ company \in dropped'
    BY DEF NoneOnlyHalfway
  <2>1. company # X
    BY <1>2, <1>5
  <2>2. Saving(company)' = Saving(company)
    BY <1>1, <2>1 DEF Saving, Moves
  <2>3. QED
    BY <1>2, <2>1, <2>2 DEF AggregationInv, NoneOnlyHalfway
<1>9. QED
  BY <1>3, <1>4, <1>6, <1>7, <1>8 DEF AggregationInv

\* An error between the two statements is the one that leaves a company without.
LEMMA FailKeeps ==
  ASSUME AggregationInv, NEW a \in Aggregators, FailGroup(a)
  PROVE  AggregationInv'
<1> DEFINE X == aggregator[a].company
<1>1. Moves(a) /\ aggregator'[a].pc = "idle"
  <2>1. Waiting \in [pc : {"idle", "deactivate", "insert"}, number : Nat, company : Scopes]
    BY DEF Waiting, Scopes
  <2>2. aggregator' = [aggregator EXCEPT ![a] = Waiting] /\ Waiting.pc = "idle"
    BY DEF FailGroup, Waiting
  <2>3. QED
    BY <2>1, <2>2 DEF Moves, AggregationInv, AggregationTypeOK
<1>2. UNCHANGED <<active, savings, crossed, saved>>
  BY DEF FailGroup
<1>3. CASE aggregator[a].pc # "insert"
  BY <1>1, <1>2, <1>3, NotSaving DEF FailGroup
<1>4. CASE aggregator[a].pc = "insert"
  <2>1. dropped' = dropped \cup {X}
    BY <1>4 DEF FailGroup
  <2>2. AggregationTypeOK' /\ SavingsCross' /\ RowsCross' /\ TwoOnlyIfCrossed'
    BY <1>1, <1>2 DEF AggregationInv, AggregationTypeOK, SavingsCross, RowsCross,
                      TwoOnlyIfCrossed, Moves
  <2>3. \A company : company # X => Saving(company)' = Saving(company)
    BY <1>1 DEF Saving, Moves
  <2>4. NoneOnlyHalfway'
    BY <1>2, <2>1, <2>3 DEF AggregationInv, NoneOnlyHalfway
  <2>5. QED
    BY <2>2, <2>4 DEF AggregationInv
<1>5. QED
  BY <1>3, <1>4

\* A company's view of a group has its one aggregate, except for savings that
\* crossed or stopped between deactivating the old one and inserting the new:
\* whatever is aggregated for other companies, or for none, meanwhile.
THEOREM OneAggregateOnly == AggregationSpec => []OneAggregate
<1>1. AggregationInit => AggregationInv
  BY DEF AggregationInit, AggregationInv, AggregationTypeOK, SavingsCross, RowsCross,
         TwoOnlyIfCrossed, NoneOnlyHalfway, Waiting, Scopes
<1>2. AggregationInv /\ [AggregationNext]_aggregationVars => AggregationInv'
  <2> SUFFICES ASSUME AggregationInv, [AggregationNext]_aggregationVars PROVE AggregationInv'
    OBVIOUS
  <2>1. ASSUME NEW a \in Aggregators, NEW company \in Scopes, ReadGroup(a, company)
        PROVE  AggregationInv'
    <3>1. Moves(a) /\ aggregator[a].pc = "idle" /\ aggregator'[a].pc = "deactivate"
      BY <2>1 DEF ReadGroup, Waiting, Moves, AggregationInv, AggregationTypeOK
    <3>2. QED
      BY <2>1, <3>1, NotSaving DEF ReadGroup
  <2>2. ASSUME NEW a \in Aggregators, Deactivate(a) \/ InsertAggregate(a) \/ FailGroup(a)
        PROVE  AggregationInv'
    BY <2>2, DeactivateKeeps, InsertKeeps, FailKeeps
  <2>3. CASE UNCHANGED aggregationVars
    BY <2>3 DEF aggregationVars, AggregationInv, AggregationTypeOK, SavingsCross, RowsCross,
                TwoOnlyIfCrossed, NoneOnlyHalfway, Saving
  <2>4. QED
    BY <2>1, <2>2, <2>3 DEF AggregationNext
<1>3. AggregationInv => OneAggregate
  BY DEF AggregationInv, OneAggregate
<1>4. QED
  BY <1>1, <1>2, <1>3, PTL DEF AggregationSpec
=============================================================================
