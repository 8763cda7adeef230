\* The relay with a crash or a failed call, beside another account.
SPECIFICATION FairRelaySpec
CONSTANTS
  Accounts = {alice, admin}
  Admin = admin
  Relay = admin
  Others = {alice}
  Zero = Zero
  LightClientBlocks <- MCBlocks
  InitialValidators <- MCInitialValidators
  InitialBlocks <- MCInitialBlocks
  ValidatorsOf <- MCValidatorsOf
  NearChain <- MCNearChain
  lockEthAmount = 2
  lockDuration = 2
  replaceDuration = 3
  NanosPerSecond = 1
  MAX_BLOCK_PRODUCERS = 2
  PauseSettings <- NoPause
  AdminAmounts = {}
  minDelay = 1
  maxDelay = 3
  errorDelay = 1
  submitDelay = 2
  StepBound = 1
  NearBound = 1
  MaxFaults = 1
  MaxTime = 32
  MaxEth = 4
INVARIANTS
  HashOfReportedHead
PROPERTIES
  BondSafe
  ClientFollows
CHECK_DEADLOCK FALSE
