SPECIFICATION MCSpec
CONSTANTS
  Old = {1, 2, 3, 4}
  Faulty = {2}
  F = 1
  None = none
  Dealers = {1, 2}
  Roots = {a, b}
  Consistent = {a}
  OwnRoot = a
  Requesters = {3, 4}
  FirstHolders = {1, 2}
  MaxAsks = 0
  Unreachable <- MCUnreachable
  MaxTroubles = 2
  LeafDealers = {1, 2}
  LeafStatements = {a, b}
  OwnStatement = a
  BadLeaves = {b}
  Retriever = 1
  LeafCallers = {x, y}
  CacheMode = "async"
  CacheRoom = 1
  MaxAckCopies = 4
  LaneReceivers = {1, 2, 3, 4}
  LaneFaulty = {4}
  LaneUnreachable <- MCLaneUnreachable
  Degree = 1
  RequiredAcks = 3
  MaxRepeats = 3
  Lead = 1
  EpochPrimary = 1
  Hasty = {}
  LeafChoices <- MCLeafChoices
  Early = {3, 4}
  Cases <- MCCases
  New = {r1}
  Values = {a, b}
  MaxCrash = 1
  SecondValue = b
INVARIANTS
  TypesOK
  CertifiedIsKept
  DealersKept
  HandoffAgreement
  CertificateDurable
  ServicesSettle
CHECK_DEADLOCK FALSE
