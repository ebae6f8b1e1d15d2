SPECIFICATION Spec
CONSTANTS
  Node = {n1, n2, n3, n4}
  Faulty = {n4}
  F = 1
  MaxRound = 1
INVARIANTS
  MatchLocksOutcome
  Validity
SYMMETRY Symmetry
VIEW Current
CHECK_DEADLOCK FALSE
CONSTRAINT Bounded
