SPECIFICATION Spec
CONSTANTS
  r1 = r1
  r2 = r2
  P = P
  C = C
  D = D
  here = here
  there = there
  NULL = NULL
  Runs <- MCRuns
  Codes <- ThreeCodes
  Agg1 <- ThreeAgg1
  Agg2 <- ThreeAgg2
  Locations <- MCLocations
  Feeds <- ChildFeed
  Seeds <- NoSeeds
  LimitTypes = {1}
  NextMonth = 1
  DayLength = 1
  MaxTime = 2
SYMMETRY MCSymmetry
INVARIANTS
  OrphanCovered
CHECK_DEADLOCK FALSE
