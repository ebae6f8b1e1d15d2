SPECIFICATION APDBSpec
CONSTANTS
  Old = {1, 2, 3, 4}
  Faulty = {2}
  F = 1
  None = none
  Dealers = {1}
  Roots = {a}
  Consistent = {a}
  OwnRoot = a
  Requesters = {3}
  FirstHolders = {1, 2}
  MaxAsks = 1
  Unreachable <- AllReachable
  MaxTroubles = 1
PROPERTY
  LostResponseRetried
CHECK_DEADLOCK FALSE
