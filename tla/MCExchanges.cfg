SPECIFICATION MCSpec
CONSTANTS
  Old = {o1, o2, o3, o4}
  Faulty = {o4}
  F = 1
  None = none
  Sample = {o1, o4}
  Pools = {a, b}
  Built = a
  MaxAttempts = 4
  Proposers = {o1, o4}
  Validators = {o2, o3, o4}
  FirstWave = {o3, o4}
  Statements = {a, b}
  Sound = {a}
  Own = a
  MaxFailures = 1
  MaxRequestWaves = 2
  New = {n1, n2, n3}
  NewFaulty = {n3}
  NewF = 1
  MaxSends = 2
  MaxCrashes = 1
  Hosts = {1, 2, 3, 4}
  SilentHosts = {4}
  ReceiptDegree = 1
  FreshHolders = {1, 2}
INVARIANTS
  TypesOK
  CertifiedPoolUnique
  CertifiedPoolBacked
  CoinAfterCertificate
  CertifiedSound
  SignersEndUp
PROPERTY
  OutputsStand
  ExchangesFinish
CHECK_DEADLOCK FALSE
