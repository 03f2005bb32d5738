------------------------------ MODULE MCPortal ------------------------------
(***************************************************************************)
(* The parts of the portal that share no table with one another: in each   *)
(* behaviour one of them moves.                                            *)
(***************************************************************************)
EXTENDS MarketImport, Sessions, AuthStore, FinancialRecords, Exemptions, AuthRateLimit,
        Aggregation

VARIABLE part

vars == <<importVars, sessionVars, storeVars, financialVars, exemptionVars, rateVars,
          aggregationVars, part>>

Parts == {"import", "sessions", "store", "financial", "exemptions", "rate", "aggregation"}

Init ==
  /\ ImportInit /\ SessionsInit /\ AuthStoreInit
  /\ FinancialInit /\ ExemptionsInit /\ RateInit /\ AggregationInit
  /\ part \in Parts

\* The variables of the parts other than p do not change.
OthersRest(p) ==
  /\ p # "import" => UNCHANGED importVars
  /\ p # "sessions" => UNCHANGED sessionVars
  /\ p # "store" => UNCHANGED storeVars
  /\ p # "financial" => UNCHANGED financialVars
  /\ p # "exemptions" => UNCHANGED exemptionVars
  /\ p # "rate" => UNCHANGED rateVars
  /\ p # "aggregation" => UNCHANGED aggregationVars

Next ==
  /\ UNCHANGED part
  /\ \/ part = "import" /\ ImportNext
     \/ part = "sessions" /\ SessionsNext
     \/ part = "store" /\ AuthStoreNext
     \/ part = "financial" /\ FinancialNext
     \/ part = "exemptions" /\ ExemptionsNext
     \/ part = "rate" /\ RateNext
     \/ part = "aggregation" /\ AggregationNext
  /\ OthersRest(part)

Spec == Init /\ [][Next]_vars
=============================================================================
