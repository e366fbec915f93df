SPECIFICATION LiveSpec
CONSTANTS
  Tabs = {t1}
  Domains = {"tasks", "points"}
  Unguarded = {"points"}
  MaxChanges = 2
  MaxFaults = 2
  MaxVisits = 3
INVARIANTS
  TypeOK PassedIsShown QueuedIsServed
PROPERTIES
  EventuallyShown
CHECK_DEADLOCK FALSE
