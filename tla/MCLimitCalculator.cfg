SPECIFICATION Spec
CONSTANTS
  r1 = r1
  r2 = r2
  P = P
  C = C
  D = D
  here = here
  there = there
  NULL = NULL
  Runs <- MCRuns
  Codes <- MCCodes
  Agg1 <- MCAgg1
  Agg2 <- MCAgg2
  Locations <- MCLocations
  Feeds <- MCFeeds
  Seeds <- MCSeeds
  LimitTypes = {1, 2}
  NextMonth = 1
  DayLength = 1
  MaxTime = 2
SYMMETRY MCSymmetry
INVARIANTS
  TypeOK
  ReplacedOnce
  InactiveAccounted
  SkipMeansTakenOver
  SerialActiveBound
  SerialParentTotal
CHECK_DEADLOCK FALSE
