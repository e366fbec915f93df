SPECIFICATION LiveSpec
CONSTANTS
  Children = {u1}
  Rewards = {w1, w2}
  Redemptions = {r1, r2}
  Contributions = {c1}
  Threads = {t1, t2}
  None = None
  RewardInputs <- SingleInputs
  Points = {2}
  Grants = {2}
  Legacy = {r1}
  RowLocks = TRUE
INVARIANT
  Safe
PROPERTIES
  ReservationsCovered ApprovedIsPaid RequestsEnd
