SPECIFICATION Spec
CONSTANTS
  quarterly = quarterly
  daily = daily
  Nightly <- MCNightly
  Quarterly = quarterly
  Requests = {}
  MaxDate = 1
  MaxUploads = 1
  MaxImportFailures = 0
  Positions <- MCPositions
  LimitLots <- MCLimitLots
  Exchanges <- MCExchanges
  Key <- MCKey
  RulesOf <- MCRulesOf
  Books <- MCBooks
  Day = 2
  MaxOdd = 1
INVARIANTS TypeOK TwinsAtMost CriticalBeforeHigh ThriceAtMost
PROPERTIES OneMissTolerated BreachesRecorded
