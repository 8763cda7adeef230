SPECIFICATION Spec
CONSTANTS
  Accounts = {alice, bob, admin}
  Admin = admin
  Zero = Zero
  LightClientBlocks <- ChainBlocks
  InitialValidators <- MCInitialValidators
  InitialBlocks <- MCInitialBlocks
  ValidatorsOf <- MCValidatorsOf
  lockEthAmount = 3
  lockDuration = 2
  replaceDuration = 3
  NanosPerSecond = 1
  MAX_BLOCK_PRODUCERS = 3
  PauseSettings <- SomePause
  AdminAmounts = {2}
  MaxTime = 8
  MaxEth = 9
INVARIANTS
  TypeOK
  ReportedHeadHasHash
  EpochsFromConfirmed
  PendingHasQuorum
  HonestSubmitterSafe
  BondCoversChallenge
  EthAccounted
PROPERTIES
  ConfirmedForever
  HeadNeverRegresses
  FreshBlockNotReplaced
SYMMETRY Submitters
CHECK_DEADLOCK FALSE
