SPECIFICATION Spec
CONSTANTS
  r1 = r1
  r2 = r2
  t1 = t1
  t2 = t2
  p1 = p1
  p2 = p2
  NoTransaction = NoTransaction
  Receipts = {r1, r2}
  Transactions = {t1, t2}
  Runs = {p1, p2}
  MaxAttempts = 2
  BatchSize = 2
  MaxCrashes = 1
CHECK_DEADLOCK FALSE
INVARIANTS
  CopiesFresh
  ConfirmedRecorded
  SubmittedOnce
PROPERTIES
  ConfirmedFinal
  JobsEnd
