SPECIFICATION SourcesSpec
CONSTANTS
  Null = Null
  k1 = k1
  k2 = k2
  l1 = l1
  l2 = l2
  p1 = p1
  p2 = p2
  Calls = {k1, k2}
  Configurations <- Environments
  AssetTtl = 2
  FailureTtl = 1
  QuoteTtl = 1
  LastTime = 3
  Symbols = {sym}
  Packages = {p1, p2}
  Pages = 2
  Lookups = {l1, l2}
  PairTtl = 1
  Deadline = 1
  Attempts = 2
  MaxTime = 4
  Hosts = {"named", "numeric"}
  Literals <- LiteralHosts
  Addresses <- ProbeAddresses
  MaxAddresses = 2
  TimeLimit = 3
  MaxRedirects = 2
  AllowHttp = FALSE
  AllowLoopback = TRUE
  c1 = c1
  c2 = c2
  c3 = c3
  Clients = {c1, c2, c3}
  EnvLimits = {0, 1, 2, 3}
  DefaultLimit = 2
  LargestLimit = 2
  WindowLength = 3
  Second = 2
  MaxKeys = 2
  LastTick = 6
  YoungBlocks = 1
  DustMotes = 1
  Installs <- AllInstalls
  Holdings <- AllHoldings
  Accounts <- AllAccounts
  MaxVersions = 2
  Height = 1
CHECK_DEADLOCK FALSE
SYMMETRY Symmetry
INVARIANTS
  ReadinessFresh
  SymbolJustified
  ReportsWhatWasAnswered
  SharesTheTime
  RateKept
  PassedHeld
  ClearJustified
