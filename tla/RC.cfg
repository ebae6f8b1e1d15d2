SPECIFICATION Spec
CONSTANTS
  N = 4
  F = 1
  Faulty = {}
  Leader = 0
  PDFanout = 3
  RCFanout = 4
  Roots = {a}
  Codeword = {a}
  Good = a
  NoRoot = none
  MaxCrash = 0
INVARIANT
  RetainedForRC
CHECK_DEADLOCK FALSE
