SPECIFICATION MCSpec
CONSTANTS
  Old = {1, 2, 3, 4}
  Faulty = {4}
  F = 1
  None = None
  Dealers = {1, 4}
  Vectors = {v, w}
  OwnVector = v
  Deriving = {3}
  Unreliable = {3}
  MaxFaultyLanes = 3
  Ring <- MCRing
  Selected = {1}
  BadLanes <- MCBadLanes
  RecastRing <- MCRing
  HeldChoices <- MCHeld
  BadChoices <- MCBadShards
  CompletionWait = TRUE
  Grace = TRUE
  Hasty = {2}
  CommitRoots = {a, b}
  DealtRoot = a
  MaxSpoiled = 1
  Answering <- MCAnswering
  FieldOrder = 7
  Coefficients <- MCCoefficients
  BadValues = {0}
  Unproven = {2}
  MaxFailedSends = 0
  Watched = {3}
  CoinHasty = {1}
  MaxFlood = 5
  MaxUnanswered = 1
INVARIANTS
  TypesOK
  KeysOpen
  StagesAgree
  StagesEnd
CHECK_DEADLOCK FALSE
