SPECIFICATION Spec
CONSTANTS
  Threads = {t1, t2}
  None = None
  TicksPerDay = 2
  Period <- ShortPeriod
  Inputs <- DailyInputs
  Edits <- NoEdits
  RowLocks = TRUE
  MaxTasks = 3
  MaxSeries = 1
  MaxRequests = 5
  MaxTime = 3
SYMMETRY Symmetry
INVARIANTS
  SeriesGoesOn
CHECK_DEADLOCK FALSE
