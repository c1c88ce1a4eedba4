SPECIFICATION Spec
CHECK_DEADLOCK FALSE
CONSTANTS
  Null = Null
  YoungBlocks = 1
  DustMotes = 1
  Installs <- AllInstalls
  Holdings <- AllHoldings
  Accounts <- AllAccounts
  MaxVersions = 2
  Height = 1
INVARIANTS
  SupplyOfActive
