SPECIFICATION Spec
CONSTANTS
  Zero = Zero
  None = None
  Hashes <- MCHashes
  Header <- ForkTree
  Ancestor <- MCAncestor
  first_header = "g1"
  validate_ethash = FALSE
  hashes_gc_threshold = 5
  finalized_gc_threshold = 3
  num_confirmations = 1
  Accounts = {relayer, client}
  Self = client
  TrustedHeaders <- MCTrustedHeaders
  MaxNumber = 7
INVARIANTS
  BestIsHeaviest
  CanonicalIsBestChain
  IndexesAgree
  NothingLeftBehind
PROPERTIES
  RecentHeadersKept
  ExtensionKeepsSafe
CHECK_DEADLOCK FALSE
