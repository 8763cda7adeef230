SPECIFICATION Spec
CONSTANTS
  None = None
  Bodies <- TwoTransactions
  Logs <- TheirLogs
  Lock = "lock"
  Skips = {TRUE, FALSE}
  num_confirmations = 1
  MaxLength = 3
  MaxDepth = 1
  MaxReorgs = 2
  MaxFaults = 1
  MaxAdmin = 1
INVARIANTS
  AcceptedWasSafe
  AcceptedStays
  ProofHolds
CHECK_DEADLOCK FALSE
