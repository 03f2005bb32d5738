SPECIFICATION Spec
CONSTANTS
  h1 = h1
  h2 = h2
  NULL = NULL
  Handlers <- MCHandlers
  Books <- MCBooks
  Trades <- MCTrades
  RuleSets <- NoRules
  Thresholds <- MCThresholds
  MaxBatch = 2
  MaxTrades = 2
  MaxApprovals = 2
SYMMETRY HandlerSymmetry
INVARIANT ThresholdBlocks
