SPECIFICATION ImportSpec
CONSTANTS
  Nightly = {cron}
  Requests = {r1, r2, r3}
  MaxDate = 2
  MaxUploads = 3
  MaxImportFailures = 0
INVARIANT NeverLeftEmpty
CHECK_DEADLOCK FALSE
