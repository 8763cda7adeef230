\* Both loops, both kinds of node, lost connections, another sender.
CONSTANTS
  Callers <- MCCallers
  FixedPrices <- MCFixedPrices
  StartPrice = 1
  PriceCap = 4
  NonceTexts <- MCNonceTexts
  OtherPrices <- MCOtherPrices
  MaxNonce = 2
SPECIFICATION FairEthSpec
INVARIANTS
  OnlyLostLinger
  ChallengeExecutesOnce
PROPERTIES
  EthImplementsRemoteCall
  EthCallEnds
