\* The relay, another relay, and a chain that reorganises.
SPECIFICATION FairRelaySpec
CONSTANTS
  Zero = Zero
  None = None
  Hashes <- MCHashes
  Header <- MCHeader
  Ancestor <- MCAncestor
  first_header = "g3"
  validate_ethash = FALSE
  hashes_gc_threshold = 4
  finalized_gc_threshold = 3
  num_confirmations = 1
  Accounts = {relay, other, client}
  Self = client
  Relay = relay
  Others = {other}
  TrustedHeaders <- MCHashes
  MaxNumber = 7
  totalSubmitBlock = 2
  SerialBelow = 5
  MaxFaults = 1
INVARIANTS
  SearchFindsFirst
PROPERTY
  ClientCatchesUp
CHECK_DEADLOCK FALSE
