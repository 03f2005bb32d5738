SPECIFICATION Spec
CONSTANTS
  Nightly = {cron}
  Requests = {r1, r2}
  MaxDate = 2
  MaxUploads = 3
  MaxImportFailures = 1
  Clients = {c1, c2}
  MAX_ATTEMPTS = 2
  MaxPasswords = 3
  MaxSessions = 2
  MaxResets = 2
  Calls = {x, y}
  Accounts = {a, b}
  TransactionIds = {t1, t2}
  Amounts = {1, 3}
  NoAccount = NoAccount
  Reviewers = {v1, v2}
  MaxExemptions = 2
  Nobody = Nobody
  Callers = {a, b}
  MAX_REQUESTS = 2
  MaxMinute = 2
  Aggregators = {g1, g2}
  Companies = {acme}
  AnyCompany = AnyCompany
  MaxSavings = 4
INVARIANTS
  EmptyExplained
  CopiesOverlapped
  OldSessionsExplained
  LockedAgainstLater
  AuthenticatedWhole
  TornOnlyByStray
  AdmittedBounded
  OneAggregate
PROPERTIES
  MovesMoneyOnce
  ExemptionDecisions
CHECK_DEADLOCK FALSE
