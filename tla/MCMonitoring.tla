---------------------------- MODULE MCMonitoring ----------------------------
(* A small instance of Monitoring. *)
EXTENDS Monitoring

CONSTANTS quarterly, daily

MCNightly == {quarterly, daily}

\* Two contract months of gold, which the code looks for by one key. The
\* migrations list it for one exchange.
MCPositions == {"GC 1", "GC 2"}
MCKey == [p \in MCPositions |-> "GC"]
MCLimitLots == [p \in MCPositions |-> 100]
MCExchanges == [p \in MCPositions |-> {"COMEX"}]

\* A position limit of that exchange, and a lower accountability level of another.
MCRulesOf == [p \in MCPositions |->
  {[exchange |-> "COMEX", type |-> "position_limit", limit |-> 100, action |-> "block_trade"],
   [exchange |-> "ICE", type |-> "accountability_level", limit |-> 90,
    action |-> "require_approval"]}]

\* Both months are within the limit, or beyond it.
MCBooks == {[p \in MCPositions |-> 50], [p \in MCPositions |-> 120]}
=============================================================================
