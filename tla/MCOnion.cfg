SPECIFICATION FairSpec
CONSTANTS
  c1 = c1
  c2 = c2
  c3 = c3
  i1 = i1
  i2 = i2
  i3 = i3
  w1 = w1
  w2 = w2
  Nil = Nil
  Circuits <- ThreeCells
  Tags <- ThreeTags
  Workers <- TwoWorkers
  MaxPending = 2
  TagsReused = FALSE
CHECK_DEADLOCK FALSE
INVARIANTS PoolSound NobodyWaitsForIdle
PROPERTY LeavesQueue
