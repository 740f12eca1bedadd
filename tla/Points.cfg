CONSTANTS
  Request = {r1, r2}
  Reward = {t}
  Worker = {w1, w2}
  NoRequest = NoRequest
  NoReward = NoReward
  Null = Null
  Cost = {1, 2}
  Delta <- MCDelta
  MaxLedger = 3
SPECIFICATION Spec
SYMMETRY Ids
INVARIANTS TypeOK LedgerAgrees
PROPERTIES  PointsAreKept
