SPECIFICATION LiveSpec
CONSTANTS
  Threads = {t1, t2}
  None = None
  TicksPerDay = 2
  Period <- ShortPeriod
  Inputs <- DailyInputs
  Edits <- SomeEdits
  RowLocks = TRUE
  MaxTasks = 3
  MaxSeries = 1
  MaxRequests = 3
  MaxTime = 3
INVARIANTS
  TypeOK PaidOnce ChargedOnce
PROPERTIES
  SubmissionKept RolledOver DuplicatesVanish
CHECK_DEADLOCK FALSE
