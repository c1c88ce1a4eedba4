SPECIFICATION Spec
CONSTANTS
  c1 = c1
  c2 = c2
  w1 = w1
  w2 = w2
  t1 = t1
  t2 = t2
  o1 = o1
  o2 = o2
  b1 = b1
  token = token
  n1 = n1
  n2 = n2
  k1 = k1
  k2 = k2
  NoNonce = NoNonce
  NoPolicy = NoPolicy
  Operators = {o1, o2}
  Requests <- PairRequests
  Policies <- KeyPolicies
  Checks = {c1, c2}
  Transactions = {t1, t2}
  Observations = {b1}
  Workers = {w1, w2}
  ProcessOf <- OneProcess
  Anchoring = TRUE
  DayLength = 1
  MaxClock = 1
SYMMETRY CheckSymmetry
INVARIANTS
  StatusAgreement
  TransactionExclusive
  SettledOnChain
  PaidOnce
PROPERTIES
  SettlementFinal
  ImplementsLifecycle
