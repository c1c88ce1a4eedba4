SPECIFICATION Spec
CONSTANTS
  c1 = c1
  c2 = c2
  w1 = w1
  w2 = w2
  t1 = t1
  t2 = t2
  o1 = o1
  o2 = o2
  b1 = b1
  token = token
  n1 = n1
  n2 = n2
  k1 = k1
  k2 = k2
  NoNonce = NoNonce
  NoPolicy = NoPolicy
  Operators = {o1}
  Requests <- RaceRequests
  Policies <- RacePolicies
  Checks = {c1, c2}
  Transactions = {t1}
  Observations = {}
  Workers = {w1, w2}
  ProcessOf <- TwoProcesses
  Anchoring = TRUE
  DayLength = 2
  MaxClock = 2
SYMMETRY CheckSymmetry
CONSTRAINT Bounded
INVARIANTS
  NonceExclusive
  CapRespected
  ConcurrencyRespected
  IdempotentAnswers
