--------------------------- MODULE MCMarketImport ---------------------------
(* The imports of market_limits alone: the nightly one and three requests. *)
EXTENDS MarketImport
=============================================================================
