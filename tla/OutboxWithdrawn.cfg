SPECIFICATION Spec
CONSTANTS
  d1 = d1
  d2 = d2
  d3 = d3
  s1 = s1
  Events = {1}
  Devices = {d1, d2, d3}
  Services = {s1}
  Fresh = {d1, d2}
  Processes = {1}
  MaxAttempts = 2
  Faults = {"withdrawn"}
  None = None
INVARIANTS
  ResendsOnlyAfterCrash
CHECK_DEADLOCK FALSE
