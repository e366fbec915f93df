SPECIFICATION Spec
CONSTANTS
  Tabs = {t1, t2}
  Domains = {"tasks"}
  Unguarded = {}
  MaxChanges = 1
  MaxFaults = 0
  MaxVisits = 2
INVARIANTS
  PassedIsShown
CHECK_DEADLOCK FALSE
