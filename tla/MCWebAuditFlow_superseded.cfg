SPECIFICATION Spec
CONSTANTS
  r1 = r1
  r2 = r2
  t1 = t1
  t2 = t2
  Requests = {r1, r2}
  Terms = {t1, t2}
  MaxKeys = 2
  MaxCalls = 2
  SettlementAttempts = 2
  PollAttempts = 2
  Null = Null
SYMMETRY Symmetric
CHECK_DEADLOCK FALSE
INVARIANTS
  PaymentFollowed
