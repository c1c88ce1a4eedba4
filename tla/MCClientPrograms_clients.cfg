SPECIFICATION ClientsSpec
CONSTANTS
  Null = Null
  Skew = 2
  SettlementAttempts = 2
  Cases <- NearSound
  Deviations <- Varied
  m1 = m1
  m2 = m2
  Commands = {m1, m2}
  Assets <- OperatorAssets
  PolicyFiles <- Files
  Caps = {1}
  AgentTokens = {"t"}
  MaxRevision = 2
  MaxArriving = 2
SYMMETRY CommandSymmetry
CHECK_DEADLOCK FALSE
INVARIANTS
  SignsOwnApproved
  PayJustified
  ReceiptComplete
  PreparedInTime
  NothingUndone
