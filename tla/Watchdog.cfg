\* One submitter of good and bad blocks against the watchdog.
SPECIFICATION FairWatchSpec
CONSTANTS
  Accounts = {alice, guard, admin}
  Admin = admin
  Guard = guard
  Submitters = {alice}
  Zero = Zero
  LightClientBlocks <- MCBlocks
  InitialValidators <- MCInitialValidators
  InitialBlocks <- MCInitialBlocks
  ValidatorsOf <- MCValidatorsOf
  lockEthAmount = 2
  lockDuration = 3
  replaceDuration = 4
  NanosPerSecond = 1
  MAX_BLOCK_PRODUCERS = 3
  PauseSettings <- NoPause
  AdminAmounts = {}
  MaxTime = 8
  MaxEth = 4
  RoundBound = 2
  MaxErrors = 1
INVARIANTS
  BadBlockNeverConfirmed
PROPERTY
  BadBlockRemoved
CHECK_DEADLOCK FALSE
