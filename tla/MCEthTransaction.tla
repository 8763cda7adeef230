-------------------------- MODULE MCEthTransaction --------------------------
(* Small instances of EthTransaction. *)
EXTENDS EthTransaction

MCCallers == {"callContract", "challenge"}
MCNonceTexts == {"correct nonce", "too low"}
MCFixedPrices == {0, 2}
MCOtherPrices == {1, 3}
=============================================================================
