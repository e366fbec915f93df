SPECIFICATION Spec
CONSTANTS
  Threads = {t1, t2}
  None = None
  TicksPerDay = 2
  Period <- ShortPeriod
  Inputs <- DailyInputs
  Edits <- NoEdits
  RowLocks = FALSE
  MaxTasks = 2
  MaxSeries = 1
  MaxRequests = 4
  MaxTime = 3
SYMMETRY Symmetry
INVARIANTS
  PaidOnce
CHECK_DEADLOCK FALSE
