SPECIFICATION Spec
CONSTANTS
  Children = {u1, u2}
  Rewards = {w1}
  Redemptions = {r1, r2}
  Contributions = {c1, c2, c3}
  Threads = {t1, t2}
  None = None
  RewardInputs <- SharedInputs
  Points = {1, 2}
  Grants = {2, 3}
  Legacy = {}
  RowLocks = TRUE
SYMMETRY Symmetry
INVARIANTS
  AtMostOnePending NeverOverReserved LedgerSettled SubmittedIsFunded
PROPERTIES
  PriceFrozen EscrowImplemented
