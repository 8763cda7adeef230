SPECIFICATION Spec
CONSTANTS
  None = None
  Bodies <- BlocksWith
  Withdrawals <- SomeWithdrawals
  MaxHeight = 4
INVARIANTS ProvedExactly RootsAgree
CHECK_DEADLOCK FALSE
