\* Both senders, every fault of the network, another user of the key.
CONSTANTS
  RETRY_SEND_TX = 3
  RETRY_TX_STATUS = 2
  MaxOther = 2
  Modes <- MCModes
SPECIFICATION FairSpec
INVARIANTS
  OnlyUnansweredLinger
PROPERTIES
  ImplementsRemoteCall
  CallEnds
