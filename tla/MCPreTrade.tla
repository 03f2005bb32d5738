----------------------------- MODULE MCPreTrade -----------------------------
(* Small instances of PreTrade. *)
EXTENDS PreTrade, TLC

CONSTANTS h1, h2

MCHandlers == {h1, h2}
HandlerSymmetry == Permutations(MCHandlers)

\* A long and a short position under a limit of 100 lots, flattened and
\* extended by the trade.
MCBooks == {[pos |-> 60, limit |-> 100], [pos |-> -40, limit |-> 100]}
MCTrades == {-60}

\* The rows that 0006_pre_trade_validation.sql inserts.
MCThresholds ==
  {[type |-> "auto_approve", min |-> 0, max |-> 80],
   [type |-> "require_approval", min |-> 80, max |-> 95],
   [type |-> "block", min |-> 95, max |-> 999]}

Limit(lots, action) == [type |-> "position_limit", limit |-> lots, action |-> action]
Level(lots, action) == [type |-> "accountability_level", limit |-> lots, action |-> action]

MCRuleSets ==
  {{Limit(80, "block_trade"), Level(50, "require_approval")},
   {Limit(70, "require_approval"), Limit(95, "block_trade")}}

\* No rules: the thresholds alone decide.
NoRules == {{}}
=============================================================================
