SPECIFICATION MCSpec
CONSTANTS
  N = 4
  F = 1
  Faulty = {0}
  Leader = 0
  PDFanout = 3
  RCFanout = 3
  Roots = {a, b}
  Codeword = {a, b}
  Good = a
  NoRoot = none
  MaxCrash = 0
  Outcomes <- SomeOutcomes
INVARIANTS
  TypesOK
  RCAgreement
  CertifiedRootHolds
  QuitJustified
  DispersalSettles
CONSTRAINT Bounded
CHECK_DEADLOCK FALSE
