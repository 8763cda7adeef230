SPECIFICATION Spec
CONSTANTS
  Zero = Zero
  None = None
  Hashes <- MCHashes
  Header <- MainnetTree
  Ancestor <- MCAncestor
  first_header = "g1"
  validate_ethash = TRUE
  hashes_gc_threshold = 4
  finalized_gc_threshold = 2
  num_confirmations = 1
  Accounts = {relayer, client}
  Self = client
  TrustedHeaders <- MCTrustedHeaders
  MaxNumber = 7
INVARIANT CanonicalUnbroken
CHECK_DEADLOCK FALSE
