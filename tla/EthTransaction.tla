--------------------------- MODULE EthTransaction ---------------------------
(***************************************************************************)
(* One call to an Ethereum contract: RobustWeb3.callContract               *)
(* (utils/robust.js), used by the relay, and the sending loop of a         *)
(* challenge in the watchdog (near2eth/watchdog/index.js), which keeps its *)
(* nonce.  Both resend with a doubled gas price when the receipt does not  *)
(* come within five minutes.                                               *)
(*                                                                         *)
(* The node holds at most one pending transaction per nonce and replaces   *)
(* it only for a price at least a tenth higher.  Another process may send  *)
(* from the same account.                                                  *)
(***************************************************************************)
EXTENDS Integers, FiniteSets

CONSTANTS
  Callers,              \* subset of {"callContract", "challenge"}
  FixedPrices,          \* values of options.gasPrice, 0 when it is absent
  StartPrice,           \* what getGasPrice answers
  PriceCap,             \* 1e13 in the code
  NonceTexts,           \* how the node words a used nonce (see refuse)
  OtherPrices,          \* prices another process pays
  MaxNonce

ASSUME PriceAssumption ==
  /\ StartPrice \in Nat \ {0} /\ PriceCap \in Nat
  /\ 0 \in FixedPrices /\ FixedPrices \subseteq Nat
  /\ OtherPrices \subseteq Nat \ {0}
  /\ MaxNonce \in Nat

VARIABLES
  caller, fixedPrice,   \* who sends, and options.gasPrice
  text,                 \* the wording of the node
  step,
  gasPrice,
  txNonce,              \* `nonce' in the code
  sentPrice,            \* price of the transaction whose receipt is awaited
  reply,                \* ghost: what the caller got
  outOfSight,           \* ghost: nonces whose receipt was given up
  connected,            \* the connection to the node is open
  count,                \* mined transactions of the account
  pool,                 \* pending transaction per nonce
  mined                 \* mined transaction per nonce

robustVars == <<caller, fixedPrice, text, step, gasPrice, txNonce, sentPrice,
                reply, outOfSight, connected>>
nodeVars == <<count, pool, mined>>
ethVars == <<robustVars, nodeVars>>

TxNonces == 0 .. MaxNonce
None == [own |-> FALSE, price |-> 0, ok |-> FALSE]
Pending(own, price) == [own |-> own, price |-> price, ok |-> FALSE]
Tx == [own : BOOLEAN, price : Nat, ok : BOOLEAN]

EthTypeOK ==
  /\ caller \in Callers /\ fixedPrice \in FixedPrices /\ text \in NonceTexts
  /\ step \in {"start", "send", "wait", "throw", "done"}
  /\ gasPrice \in Nat /\ txNonce \in 0 .. MaxNonce + 1 /\ sentPrice \in Nat
  /\ reply \in {"none", "success", "error"}
  /\ outOfSight \subseteq TxNonces
  /\ connected \in BOOLEAN
  /\ count \in 0 .. MaxNonce + 1
  /\ pool \in [TxNonces -> Tx] /\ mined \in [TxNonces -> Tx]

EthInit ==
  /\ caller \in Callers /\ text \in NonceTexts
  /\ fixedPrice \in (IF caller = "callContract" THEN FixedPrices ELSE {0})
  /\ step = "start" /\ gasPrice = StartPrice /\ txNonce = 0 /\ sentPrice = 0
  /\ reply = "none" /\ outOfSight = {} /\ connected \in BOOLEAN
  /\ count = 0
  /\ pool = [n \in TxNonces |-> None] /\ mined = [n \in TxNonces |-> None]

-----------------------------------------------------------------------------
(* The sender. *)

(* The first nonce neither mined nor pending. *)
PendingCount ==
  CHOOSE n \in count .. MaxNonce + 1 :
    /\ \A m \in count .. n - 1 : pool[m] # None
    /\ n = MaxNonce + 1 \/ pool[n] = None

getPendingCount ==
  /\ step = "start" /\ caller = "callContract" /\ connected
  /\ step' = "send" /\ txNonce' = PendingCount
  /\ UNCHANGED <<caller, fixedPrice, text, gasPrice, sentPrice, reply,
                 outOfSight, connected, nodeVars>>

Resending == step = "send" /\ gasPrice < PriceCap /\ txNonce <= MaxNonce
Reaching == Resending /\ connected
PriceOfTx == IF fixedPrice # 0 THEN fixedPrice ELSE gasPrice

Replaces(price, old) == old = None \/ 10 * price >= 11 * old.price
SameTx(price, old) == old.own /\ old.price = price

(* The node takes the transaction. *)
Accepts(price) == txNonce >= count /\ Replaces(price, pool[txNonce])

send ==
  /\ Reaching /\ Accepts(PriceOfTx)
  /\ pool' = [pool EXCEPT ![txNonce] = Pending(TRUE, PriceOfTx)]
  /\ sentPrice' = PriceOfTx
  /\ step' = "wait"
  /\ UNCHANGED <<caller, fixedPrice, text, gasPrice, txNonce, reply,
                 outOfSight, connected, count, mined>>

(* The node refuses.  The messages callContract knows make it go to the    *)
(* next nonce: a replacement that is underpriced, and "the tx doesn't have *)
(* the correct nonce", as one kind of node says of a used nonce.  Other    *)
(* nodes call it too low, and a transaction they hold already known: these *)
(* are thrown.                                                             *)
refuse ==
  /\ Reaching /\ caller = "callContract" /\ ~Accepts(PriceOfTx)
  /\ IF \/ txNonce < count /\ text = "correct nonce"
        \/ txNonce >= count /\ ~SameTx(PriceOfTx, pool[txNonce])
       THEN txNonce' = txNonce + 1 /\ UNCHANGED step
       ELSE step' = "throw" /\ UNCHANGED txNonce
  /\ UNCHANGED <<caller, fixedPrice, text, gasPrice, sentPrice, reply,
                 outOfSight, connected, nodeVars>>

(* Variant: a receipt is success, reverted or not. *)
ReceiptIgnoresRevert ==
  /\ step = "wait" /\ connected
  /\ mined[txNonce].own /\ mined[txNonce].price = sentPrice
  /\ step' = "done" /\ reply' = "success"
  /\ UNCHANGED <<caller, fixedPrice, text, gasPrice, txNonce, sentPrice,
                 outOfSight, connected, nodeVars>>

(* The receipt of the awaited transaction: a reverted one is thrown. *)
receipt ==
  /\ step = "wait" /\ connected
  /\ mined[txNonce].own /\ mined[txNonce].price = sentPrice
  /\ IF mined[txNonce].ok THEN step' = "done" /\ reply' = "success"
                          ELSE step' = "throw" /\ UNCHANGED reply
  /\ UNCHANGED <<caller, fixedPrice, text, gasPrice, txNonce, sentPrice,
                 outOfSight, connected, nodeVars>>

(* Variant: the resent transaction takes the next nonce. *)
SlowTakesNextNonce ==
  /\ step = "wait"
  /\ step' = "send" /\ gasPrice' = 2 * gasPrice
  /\ txNonce' = txNonce + 1
  /\ UNCHANGED <<caller, fixedPrice, text, sentPrice, reply, outOfSight,
                 connected, nodeVars>>

(* Variant: the price is not raised. *)
SlowKeepsPrice ==
  /\ step = "wait"
  /\ step' = "send"
  /\ outOfSight' = outOfSight \cup {txNonce}
  /\ UNCHANGED <<caller, fixedPrice, text, gasPrice, txNonce, sentPrice, reply,
                 connected, nodeVars>>

(* promiseWithTimeout rejects while the transaction stays with the node. *)
slow ==
  /\ step = "wait"
  /\ step' = "send" /\ gasPrice' = 2 * gasPrice
  /\ outOfSight' = outOfSight \cup {txNonce}
  /\ UNCHANGED <<caller, fixedPrice, text, txNonce, sentPrice, reply,
                 connected, nodeVars>>

(* The race of promiseWithTimeout. *)
promiseWithTimeout == receipt \/ slow

(* The connection is found closed before the transaction is handed over,   *)
(* or while its receipt is awaited.                                        *)
Disconnect ==
  /\ Resending \/ step = "wait"
  /\ ~connected
  /\ outOfSight' = outOfSight \cup (IF step = "wait" THEN {txNonce} ELSE {})
  /\ UNCHANGED <<caller, fixedPrice, text, gasPrice, txNonce, sentPrice, reply,
                 nodeVars>>

(* callContract sets the provider anew, which opens a connection if the    *)
(* node can be reached, and sends the same again.                          *)
reconnect ==
  /\ caller = "callContract" /\ Disconnect
  /\ step' = "send" /\ connected' \in BOOLEAN

(* Any other error is thrown: of getGasPrice and getTransactionCount,      *)
(* which are not retried, and of a transaction, which may be on its way.   *)
otherError ==
  /\ step \in {"start", "wait"} \/ Resending
  /\ step' = "throw"
  /\ UNCHANGED <<caller, fixedPrice, text, gasPrice, txNonce, sentPrice, reply,
                 outOfSight, connected, nodeVars>>

(* The price left the loop: callContract throws, the watchdog gives up     *)
(* this round; or an error was thrown.                                     *)
giveUp ==
  /\ \/ step = "throw"
     \/ step = "send" /\ gasPrice >= PriceCap
  /\ step' = "done" /\ reply' = "error"
  /\ UNCHANGED <<caller, fixedPrice, text, gasPrice, txNonce, sentPrice,
                 outOfSight, connected, nodeVars>>

callContract == getPendingCount \/ refuse \/ reconnect

(* The watchdog counts only mined transactions. *)
challengeStarts ==
  /\ caller = "challenge" /\ step = "start" /\ connected
  /\ step' = "send" /\ txNonce' = count
  /\ UNCHANGED <<caller, fixedPrice, text, gasPrice, sentPrice, reply,
                 outOfSight, connected, nodeVars>>

(* Variant: the watchdog goes to the next nonce too. *)
NextNonceWhenRefused ==
  /\ caller = "challenge" /\ Reaching /\ ~Accepts(PriceOfTx)
  /\ txNonce' = txNonce + 1
  /\ UNCHANGED <<caller, fixedPrice, text, step, gasPrice, sentPrice, reply,
                 outOfSight, connected, nodeVars>>

(* It keeps this nonce: every error but the timeout ends its loop. *)
challengeRefused ==
  /\ caller = "challenge" /\ Reaching /\ ~Accepts(PriceOfTx)
  /\ step' = "throw"
  /\ UNCHANGED <<caller, fixedPrice, text, gasPrice, txNonce, sentPrice, reply,
                 outOfSight, connected, nodeVars>>

challenge == challengeStarts \/ challengeRefused

ethSender ==
  \/ callContract \/ challenge \/ send \/ promiseWithTimeout \/ otherError \/ giveUp

-----------------------------------------------------------------------------
(* The node. *)

Mine(n) ==
  /\ n = count /\ pool[n] # None
  /\ \E ok \in BOOLEAN : mined' = [mined EXCEPT ![n] = [pool[n] EXCEPT !.ok = ok]]
  /\ pool' = [pool EXCEPT ![n] = None]
  /\ count' = count + 1
  /\ UNCHANGED robustVars

(* The node forgets a pending transaction. *)
Evict(n) ==
  /\ pool[n] # None
  /\ pool' = [pool EXCEPT ![n] = None]
  /\ UNCHANGED <<count, mined, robustVars>>

(* Another process sends from the same account, at the next nonce or over  *)
(* a transaction that is pending.                                          *)
OtherSends(n, price) ==
  /\ count <= n /\ n <= PendingCount
  /\ Replaces(price, pool[n])
  /\ pool' = [pool EXCEPT ![n] = Pending(FALSE, price)]
  /\ UNCHANGED <<count, mined, robustVars>>

(* The connection is lost, at any time. *)
Close ==
  /\ connected /\ step # "done"
  /\ connected' = FALSE
  /\ UNCHANGED <<caller, fixedPrice, text, step, gasPrice, txNonce, sentPrice,
                 reply, outOfSight, nodeVars>>

node ==
  \E n \in TxNonces :
    \/ Mine(n) \/ Evict(n)
    \/ n < MaxNonce /\ \E p \in OtherPrices : OtherSends(n, p)

(* The call has returned and nothing is pending. *)
EthDone ==
  /\ step = "done" /\ \A n \in TxNonces : pool[n] = None
  /\ UNCHANGED ethVars

(* The bound on nonces is used up. *)
NoncesUsedUp == txNonce > MaxNonce
OutOfNonces == NoncesUsedUp /\ UNCHANGED ethVars

EthNext == ethSender \/ node \/ Close \/ EthDone \/ OutOfNonces

EthSpec == EthInit /\ [][EthNext]_ethVars

(* The sender is a running loop whose waits are bounded by the timeout.    *)
(* Nothing is assumed of the node or of the connection.                    *)
FairEthSpec == EthSpec /\ WF_ethVars(ethSender)

-----------------------------------------------------------------------------
(* Properties. *)

EthEffects == {n \in TxNonces : mined[n].own /\ mined[n].ok}

(* The sender goes to another nonce only past a transaction it lost sight  *)
(* of, or one that is not its own.                                         *)
OnlyLostLinger ==
  \A n \in TxNonces :
    pool[n].own \/ mined[n].own => n = txNonce \/ n \in outOfSight

(* Both loops implement the promise of RemoteCall: an attempt out of sight *)
(* is a nonce whose receipt was not awaited to the end.                    *)
EthCall ==
  INSTANCE RemoteCall
    WITH Attempts <- TxNonces, effects <- EthEffects, answer <- reply
EthImplementsRemoteCall == EthCall!Spec

(* The challenge loop never moves to another nonce, so however often it    *)
(* resends, at most one challenge of a round is executed.                  *)
ChallengeExecutesOnce == caller = "challenge" => \A m, n \in EthEffects : m = n

(* The call ends, whatever the node does, if the connection is open from   *)
(* some time on: the price doubles past the cap, or the nonce passes the   *)
(* pending ones.  While it is found closed, callContract reconnects and    *)
(* sends again without end, for that uses up neither price nor nonce.  A   *)
(* call that goes through more transactions than there are nonces here is  *)
(* cut short; every nonce it leaves holds a transaction.                   *)
EthCallEnds == <>[]connected => <>(reply # "none" \/ NoncesUsedUp)
=============================================================================
