SPECIFICATION RulesSpec
CONSTANTS
  FirstDay <- First
  LastDay <- Last
  Positions <- MCPositions
  Limits = {0, 40}
  Exemptions = {0, 5}
  Contracts <- MCContracts
INVARIANTS
  MonthsPartitioned
  EnginesAgree
PROPERTIES
  SpotMovesOn
  DiminishingTightens
CHECK_DEADLOCK FALSE
