SPECIFICATION Spec
CHECK_DEADLOCK FALSE
CONSTANTS
  a1 = a1
  a2 = a2
  a3 = a3
  k1 = k1
  k2 = k2
  k3 = k3
  d1 = d1
  owner = owner
  r1 = r1
  r2 = r2
  h1 = h1
  Null = Null
  Malformed = Malformed
  Nothing = Nothing
  Owner = owner
  FirstRecorder = r1
  MaxTransactions = 2
  Clients = {a1, a2, a3}
  Options <- PublicBridge
  WindowLength = 1
  RequestsPerWindow = 1
  DailyLimit = 2
  MaxTrackedClients = 1
  DayLength = 1
  MaxClock = 1
  MaxVerdictCards = 1
  MaxFeedEntries = 1
  YoungBlocks = 1
  DustMotes = 1
  Calls = {k1, k2, k3}
  Requests <- Callers
  Datasets = {d1}
  Evidence <- Tokens
  Networks = {"casper-mainnet"}
  OtherCalls <- Foreign
  Reported <- MadeUp
  MaxRestarts = 1
SYMMETRY Symmetric
INVARIANTS
  VerdictBacked
  PublishedRecorded
  BudgetKept
