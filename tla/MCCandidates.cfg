SPECIFICATION MCSpec
CONSTANTS
  FieldOrder = 11
  Bases = {"G", "H", "Y"}
  Degree = 1
  ReceiverCount = 3
  SecretKeys <- MCKeys
  ChunkBits = 2
  Chunks = 2
  HonestDealing <- MCHonest
  OtherDealing <- MCOther
  SharingCases <- MCAlterations
  VectorSize = 4
  RangeBases <- MCBases
  RangeCases <- MCRange
  Challenges = {2, 3}
  Radix = 4
  DigitCount = 2
  ReceiverKey = 2
  LaneCases <- MCLanes
  LeafReceivers = {1, 2, 3, 4}
  CorruptReceivers = {4}
  LeafFaults = 1
  LaneKeys <- MCLaneKeys
  LaneBase = 4
  LaneChunks = 2
  LeafDealing <- MCDealing
  OddDealing <- MCOdd
  LaneKinds <- MCKinds
  OddShift = 1
INVARIANTS
  TypesOK
  EvidenceOpens
  KeyIsOne
CHECK_DEADLOCK FALSE
