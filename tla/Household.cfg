SPECIFICATION HouseholdSpec
CONSTANTS
  Threads = {t1, t2}
  RowLocks = TRUE
  None = None
  Users = {i1, i2, i3}
  Keys = {c1, c2}
  MaxKeys = 1
  Attempts = 2
  Window = 2
  Block = 3
  MaxLag = 1
  MaxTime = 4
  Children = {c1, c2}
  MaxPoints = 1
  TaskIds = {i1, i2, i3}
  Templates = {s1}
  Minimum = 1
  Scan = 2
  MaxFrozen = 1
  MaxPeriod = 2
  Claimants = {s1}
  ClaimIds = {i1, i2, i3}
  MaxQuota = 2
  TicksPerDay = 3
  Offset = 1
  DueTick = 1
  LastTick = 4
  Devices = {c1, c2}
  Interval = 1
  ReminderAt = 2
  MaxAlerts = 2
  LastMoment = 8
SYMMETRY Symmetry
INVARIANTS
  HouseholdTypeOK
  HouseholdGoverned
  GuessesBounded
  AwardedOnce
  DeadlocksExplained
  StreakIsReference
  RemindedOnce
  MissedExplained
PROPERTIES
  ApplicationLostExplained
  StreakFallsExplained
  QuotaKept
CHECK_DEADLOCK FALSE
