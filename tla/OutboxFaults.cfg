SPECIFICATION LiveSpec
CONSTANTS
  d1 = d1
  d2 = d2
  d3 = d3
  s1 = s1
  Events = {1}
  Devices = {d1, d2}
  Services = {s1}
  Fresh = {d1, d2}
  Processes = {1, 2}
  MaxAttempts = 2
  Faults = {"crash", "database", "withdrawn", "lease", "answer"}
  None = None
INVARIANTS
  TypeOK RemovedIsDelivered ResendsExplained
PROPERTIES
  EventuallySettled
CHECK_DEADLOCK FALSE
