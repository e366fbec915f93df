SPECIFICATION LiveSpec
CONSTANTS
  Sessions = {w1, w2}
  Streams = {s1}
  Batch = 1
  Keep = 1
  TrimBatch = 1
  MaxId = 3
  MaxBreaks = 1
INVARIANTS
  TypeOK SkippedExplained NoLostWakeup
PROPERTIES
  EventuallyReceived RevokedEnds
CHECK_DEADLOCK FALSE
