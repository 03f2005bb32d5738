SPECIFICATION Spec
CONSTANTS
  h1 = h1
  h2 = h2
  Handlers <- MCHandlers
  Lots <- MCLots
  Days <- MCDays
  RuleBooks <- MCRuleBooks
  MaxRows = 3
SYMMETRY HandlerSymmetry
INVARIANTS
  TypeOK
  OvershootBounded
PROPERTIES
  InsertWithinLimit
  DeletesWhatItFound
