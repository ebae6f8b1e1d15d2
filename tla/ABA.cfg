SPECIFICATION FairSpec
CONSTANTS
  Node = {n1, n2, n3, n4}
  Faulty = {n4}
  F = 1
  Forged = {}
  MaxRound = 1
INVARIANTS
  TypeOK
PROPERTIES
  ImplementsRounds
  FirstRoundConfirms
CHECK_DEADLOCK FALSE
