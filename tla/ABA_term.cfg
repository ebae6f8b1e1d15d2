SPECIFICATION FairSpec
CONSTANTS
  Node = {n1, n2, n3, n4}
  Faulty = {n4}
  F = 1
  Forged = {}
  MaxRound = 0
PROPERTY
  Termination
CHECK_DEADLOCK FALSE
