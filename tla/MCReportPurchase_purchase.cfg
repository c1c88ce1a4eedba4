SPECIFICATION Spec
CONSTANTS
  q1 = q1
  q2 = q2
  n1 = n1
  n2 = n2
  s1 = s1
  s2 = s2
  NoPayload = NoPayload
  Quotes = {q1, q2}
  Authorizations <- SignedAuthorizations
  Snapshots = {s1, s2}
  QuoteTtl = 1
  MaxTimeout = 2
  Tolerance = 1
  MaxActiveQuotes = 1
  MaxQuoting = 1
  MaxClock = 2
  MaxCrashes = 1
SYMMETRY Symmetric
CHECK_DEADLOCK FALSE
PROPERTIES
  SettledOnce
INVARIANTS
  TransactionBuysOneQuote
  AnswersArePaid
