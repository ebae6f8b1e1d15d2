SPECIFICATION MCSpec
CONSTANTS
  NewReceivers = {r1}
  Members = {p1, p2}
  Workers = {w1, w2}
  RouterCap = 1
  QueueCap = 1
  OutCap = 1
  Late = {"component"}
  MaxAsked = 2
  NoJob = NoJob
  m1 = m1
  m2 = m2
  m3 = m3
  m4 = m4
  d1 = d1
  d2 = d2
  me = me
  Msgs = {m1, m2, m3, m4}
  Dest <- MCDest
  Local = {me}
  Busy = d1
  Conns = {1, 2, 3, 4}
  MaxBreaks = 1
  NoConn = NoConn
  Nobody = Nobody
  Procs = {1, 2, 3}
  Deviating = {3}
  BarrierF = 1
  Digests = {x, y}
  Common = x
  MaxEpoch = 2
  NoMark = NoMark
  Old = {o1, o2, o3}
  Faulty = {}
  Primary = o1
  Backups = {o2}
  Validators = {o2, o3}
  CoinOld = {o1, o2, o3, o4}
  CoinFaulty = {o4}
  F = 1
  MaxRetries = 1
INVARIANTS
  TypesOK
  HandledOnce
  PassersAgree
  RuntimeSettles
  ProposerKeepsCandidate
  GivesUpOnResultsOnly
  CandidatesSettle
PROPERTIES
  RuntimeServes
  TrafficEnds
CHECK_DEADLOCK FALSE
