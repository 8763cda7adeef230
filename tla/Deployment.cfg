SPECIFICATION FairSpec
CONSTANTS
  None = None
  Procs = {p1, p2}
  Accounts <- TwoClients
  Keys <- TwoKeys
  RETRY_NONCE = 2
  RETRY_SEND_TX = 2
  MaxRuns = 1
  MaxFaults = 2
INVARIANTS
  ConfigKeyFits
  LinksCurrent
PROPERTIES
  SetUpCompletes
CHECK_DEADLOCK FALSE
