SPECIFICATION Spec
CONSTANTS
  q1 = q1
  q2 = q2
  NULL = NULL
  Requests <- MCRequests
  Exchanges <- MCExchanges
  BulkImports <- MCBulkImports
  HolidayDates <- MCHolidayDates
  ScheduleMonths <- MCMonths
  CheckDates <- MCCheckDates
  ClockDates <- MCClockDates
SYMMETRY MCSymmetry
INVARIANTS
  TypeOK
  RowsWellFormed
  ScheduleFresh
  StatusByDefinition
