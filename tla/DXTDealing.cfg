SPECIFICATION DealingSpec
CONSTANTS
  Old = {1, 2, 3, 4}
  Faulty = {4}
  F = 1
  None = None
  Dealers = {1, 4}
  Vectors = {v, w}
  OwnVector = v
  Deriving = {3}
  Unreliable = {3}
  MaxFaultyLanes = 3
INVARIANT
  AckMeansShare
CHECK_DEADLOCK FALSE
