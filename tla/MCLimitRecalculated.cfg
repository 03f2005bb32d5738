SPECIFICATION Spec
CONSTANTS
  r1 = r1
  r2 = r2
  P = P
  C = C
  D = D
  here = here
  there = there
  NULL = NULL
  Runs <- MCRuns
  Codes <- MCCodes
  Agg1 <- MCAgg1
  Agg2 <- MCAgg2
  Locations <- MCLocations
  Feeds <- OneFeed
  Seeds <- NoSeeds
  LimitTypes = {1}
  NextMonth = 1
  DayLength = 1
  MaxTime = 2
SYMMETRY MCSymmetry
INVARIANTS
  Recalculated
CHECK_DEADLOCK FALSE
