SPECIFICATION Spec
CONSTANTS
  Children = {u1}
  Rewards = {w1, w2}
  Redemptions = {r1, r2}
  Contributions = {c1}
  Threads = {t1, t2}
  None = None
  RewardInputs <- SingleInputs
  Points = {2}
  Grants = {2, 3}
  Legacy = {}
  RowLocks = FALSE
PROPERTIES
  ReservationsCovered
