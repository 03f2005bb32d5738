--------------------------- MODULE MCTransactions ---------------------------
(* Small instances of Transactions. *)
EXTENDS Transactions, TLC

CONSTANTS h1, h2

MCHandlers == {h1, h2}
HandlerSymmetry == Permutations(MCHandlers)

MCLots == {-7, 7}

\* The ends of the limit categories.
MCDays == {30, 31}

Limit(lots, action) == [type |-> "position_limit", limit |-> lots, action |-> action]
Level(lots, action) == [type |-> "accountability_level", limit |-> lots, action |-> action]

Book(spot, single, all) ==
  [category \in Categories |->
     CASE category = "spot_month" -> spot
       [] category = "single_month" -> single
       [] OTHER -> all]

\* One trade is at the limit and two are beyond it; an accountability level
\* and a limit that only notifies lie below, or a limit that demands approval.
MCRuleBooks ==
  {Book({Limit(7, "block_trade"), Level(5, "require_approval")},
        {Limit(3, "notify_only"), Limit(7, "block_trade")},
        {Limit(7, "block_trade")}),
   Book({Limit(5, "require_approval"), Limit(7, "block_trade")},
        {Limit(7, "block_trade")},
        {Limit(7, "block_trade")})}
=============================================================================
