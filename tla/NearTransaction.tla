-------------------------- MODULE NearTransaction ---------------------------
(***************************************************************************)
(* One call to a NEAR contract: signAndSendTransaction (utils/robust.js),  *)
(* reached through nearJsonContractFunctionCall and the change methods of  *)
(* BorshContract, and its one-shot form signAndSendTransactionAsync        *)
(* followed by txnStatus (utils/borsh.js).                                 *)
(*                                                                         *)
(* A transaction is named by its nonce: every signature takes the next     *)
(* one.  The network may lose a broadcast or its answer, and processes     *)
(* transactions in any order; another process may use the same key.        *)
(***************************************************************************)
EXTENDS Integers, FiniteSets

CONSTANTS
  RETRY_SEND_TX,        \* 10 in the code
  RETRY_TX_STATUS,      \* 10 in the code
  MaxOther,             \* bound on nonces other processes take
  Modes                 \* entry points, a subset of AllModes

AllModes == {"json", "change", "change_async"}

ASSUME RetryAssumption ==
  /\ RETRY_SEND_TX \in Nat \ {0}
  /\ RETRY_TX_STATUS \in Nat \ {0}
  /\ MaxOther \in Nat
  /\ Modes \subseteq AllModes

VARIABLES
  mode,                 \* how the call is made
  pc,
  i, j,                 \* the counters of the two loops
  resendLast,
  nonce,                \* accessKey.nonce of the sender
  tx,                   \* nonce of the transaction of txHash, 0 if none
  result,               \* status in `result', "none" while it is undefined
  answer,               \* ghost: what the caller got
  unanswered,           \* ghost: transactions whose broadcast threw
  inFlight,             \* broadcast transactions the chain has not seen
  keyNonce,             \* nonce of the access key on chain
  status                \* what the chain knows of a transaction

senderVars == <<mode, pc, i, j, resendLast, nonce, tx, result, answer,
                unanswered>>
chainVars == <<inFlight, keyNonce, status>>
vars == <<senderVars, chainVars>>

Nonces == 1 .. (RETRY_SEND_TX + MaxOther)
Final == {"success", "failure", "badNonce"}
Statuses == {"unknown", "pending"} \cup Final

TypeOK ==
  /\ mode \in Modes
  /\ pc \in {"start", "send", "poll", "throw", "done"}
  /\ i \in 0 .. RETRY_SEND_TX /\ j \in 0 .. RETRY_TX_STATUS
  /\ resendLast \in BOOLEAN
  /\ nonce \in 0 .. RETRY_SEND_TX + MaxOther
  /\ tx \in 0 .. RETRY_SEND_TX + MaxOther
  /\ result \in {"none", "pending"}
  /\ answer \in {"none", "success", "error"}
  /\ unanswered \subseteq Nonces
  /\ inFlight \subseteq Nonces
  /\ keyNonce \in 0 .. RETRY_SEND_TX + MaxOther
  /\ status \in [Nonces -> Statuses]

(* accessKeyInit fetched the key once, for all calls of a BorshContract;   *)
(* by the time of a call others may have used it.                          *)
Init ==
  /\ mode \in Modes
  /\ pc = "start" /\ i = 0 /\ j = 0
  /\ resendLast = FALSE
  /\ nonce = 0 /\ tx = 0
  /\ result = "none" /\ answer = "none" /\ unanswered = {}
  /\ inFlight = {} /\ keyNonce = 0
  /\ status = [n \in Nonces |-> "unknown"]

-----------------------------------------------------------------------------
(* The sender. *)

(* The JSON form fetches the key for every call. *)
nearJsonContractFunctionCall ==
  /\ pc = "start" /\ mode = "json"
  /\ pc' = "send" /\ nonce' = keyNonce
  /\ UNCHANGED <<mode, i, j, resendLast, tx, result, answer, unanswered,
                 chainVars>>

(* A change method, or its _async form, uses the fetched key. *)
changeMethod ==
  /\ pc = "start" /\ mode # "json"
  /\ pc' = "send"
  /\ UNCHANGED <<mode, i, j, resendLast, nonce, tx, result, answer,
                 unanswered, chainVars>>

(* An exception inside the try of the loop: the next iteration follows and *)
(* resendLast keeps its value.                                             *)
broadcastThrew ==
  /\ pc' = "send"
  /\ i' = i + 1
  /\ UNCHANGED <<j, result>>

broadcastAnswered ==
  /\ pc' = "poll" /\ j' = 0 /\ result' = "none"
  /\ UNCHANGED i

(* broadcast_tx_async of transaction n: it may reach the chain or be lost, *)
(* and apart from that the answer may arrive or the request may throw.     *)
Broadcast(n, threw) ==
  /\ inFlight' \in {inFlight, inFlight \cup {n}}
  /\ \/ broadcastAnswered /\ UNCHANGED unanswered
     \/ threw /\ unanswered' = unanswered \cup {n}
  /\ UNCHANGED <<mode, answer, keyNonce, status>>

sendTxnAsync(n) == Broadcast(n, broadcastThrew)

Looping == pc = "send" /\ mode # "change_async" /\ i < RETRY_SEND_TX

(* provider.status() threw before anything was signed. *)
statusFails ==
  /\ Looping /\ ~resendLast
  /\ broadcastThrew
  /\ UNCHANGED <<mode, resendLast, nonce, tx, answer, unanswered, chainVars>>

signAndSend ==
  /\ Looping /\ ~resendLast
  /\ nonce' = nonce + 1 /\ tx' = nonce + 1
  /\ sendTxnAsync(nonce + 1)
  /\ UNCHANGED resendLast

resend ==
  /\ Looping /\ resendLast
  /\ sendTxnAsync(tx)
  /\ resendLast' = (pc' = "send")
  /\ UNCHANGED <<nonce, tx>>

asyncThrew == pc' = "throw" /\ UNCHANGED <<i, j, result>>

(* The one-shot sender lets every exception escape. *)
signAndSendTransactionAsync ==
  /\ pc = "send" /\ mode = "change_async"
  /\ \/ /\ nonce' = nonce + 1 /\ tx' = nonce + 1
        /\ Broadcast(nonce + 1, asyncThrew)
     \/ /\ asyncThrew
        /\ UNCHANGED <<mode, nonce, tx, answer, unanswered, chainVars>>
  /\ UNCHANGED resendLast

(* Variant: a failed request for the status is not counted. *)
PollFailsUncounted ==
  /\ pc = "poll" /\ j < RETRY_TX_STATUS
  /\ UNCHANGED <<senderVars, chainVars>>

(* txStatus throws: the node does not know the transaction, or the request *)
(* fails.                                                                  *)
pollFails ==
  /\ pc = "poll" /\ j < RETRY_TX_STATUS
  /\ j' = j + 1
  /\ UNCHANGED <<mode, pc, i, resendLast, nonce, tx, result, answer,
                 unanswered, chainVars>>

(* Variant: any status but a Failure is taken for success. *)
PendingReturns ==
  /\ pc = "poll" /\ j < RETRY_TX_STATUS
  /\ status[tx] = "pending"
  /\ pc' = "done" /\ answer' = "success"
  /\ UNCHANGED <<mode, i, j, resendLast, nonce, tx, result, unanswered,
                 chainVars>>

(* Neither SuccessValue nor Failure yet: the loop goes on. *)
pollPending ==
  /\ pc = "poll" /\ j < RETRY_TX_STATUS
  /\ status[tx] = "pending"
  /\ j' = j + 1 /\ result' = "pending"
  /\ UNCHANGED <<mode, pc, i, resendLast, nonce, tx, answer, unanswered,
                 chainVars>>

(* A final status ends the polling: success returns; a Failure about the   *)
(* nonce leads to another signature; any other Failure throws.             *)
pollFinal ==
  /\ pc = "poll" /\ j < RETRY_TX_STATUS /\ mode # "change_async"
  /\ \/ /\ status[tx] = "success"
        /\ pc' = "done" /\ answer' = "success" /\ UNCHANGED i
     \/ /\ status[tx] = "badNonce"
        /\ pc' = "send" /\ i' = i + 1 /\ UNCHANGED answer
     \/ /\ status[tx] = "failure"
        /\ pc' = "throw" /\ UNCHANGED <<i, answer>>
  /\ UNCHANGED <<mode, j, resendLast, nonce, tx, result, unanswered,
                 chainVars>>

(* Variant: a transaction without a result is signed again. *)
PollEndsBySigning ==
  /\ pc = "poll" /\ j = RETRY_TX_STATUS /\ mode # "change_async"
  /\ IF result = "none"
       THEN pc' = "send" /\ i' = i + 1
       ELSE pc' = "throw" /\ UNCHANGED i
  /\ UNCHANGED <<mode, j, resendLast, nonce, tx, result, answer, unanswered,
                 chainVars>>

(* The polls are used up.  Without a result the same bytes are sent again; *)
(* a result with a pending status has no Failure to stringify, so that     *)
(* looking for the nonce message in it throws.                             *)
pollEnds ==
  /\ pc = "poll" /\ j = RETRY_TX_STATUS /\ mode # "change_async"
  /\ IF result = "none"
       THEN pc' = "send" /\ i' = i + 1 /\ resendLast' = TRUE
       ELSE pc' = "throw" /\ UNCHANGED <<i, resendLast>>
  /\ UNCHANGED <<mode, j, nonce, tx, result, answer, unanswered, chainVars>>

(* The end of txnStatus: anything but a success throws. *)
txnStatus ==
  /\ pc = "poll" /\ mode = "change_async"
  /\ \/ /\ j < RETRY_TX_STATUS /\ status[tx] = "success"
        /\ pc' = "done" /\ answer' = "success"
     \/ /\ j < RETRY_TX_STATUS /\ status[tx] \in {"failure", "badNonce"}
        /\ pc' = "throw" /\ UNCHANGED answer
     \/ /\ j = RETRY_TX_STATUS
        /\ pc' = "throw" /\ UNCHANGED answer
  /\ UNCHANGED <<mode, i, j, resendLast, nonce, tx, result, unanswered,
                 chainVars>>

throwError ==
  /\ \/ pc = "throw"
     \/ pc = "send" /\ mode # "change_async" /\ i = RETRY_SEND_TX
  /\ pc' = "done" /\ answer' = "error"
  /\ UNCHANGED <<mode, i, j, resendLast, nonce, tx, result, unanswered,
                 chainVars>>

sender ==
  \/ nearJsonContractFunctionCall \/ changeMethod
  \/ statusFails \/ signAndSend \/ resend \/ signAndSendTransactionAsync
  \/ pollFails \/ pollPending \/ pollFinal \/ pollEnds \/ txnStatus
  \/ throwError

-----------------------------------------------------------------------------
(* The chain. *)

(* A broadcast transaction reaches a block producer.  Its nonce must be    *)
(* larger than the one of the key; the same bytes arriving again change    *)
(* nothing.                                                                *)
Include(n) ==
  /\ n \in inFlight
  /\ inFlight' = inFlight \ {n}
  /\ \/ /\ status[n] = "unknown" /\ n > keyNonce
        /\ status' = [status EXCEPT ![n] = "pending"]
        /\ keyNonce' = n
     \/ /\ status[n] = "unknown" /\ n <= keyNonce
        /\ status' = [status EXCEPT ![n] = "badNonce"]
        /\ UNCHANGED keyNonce
     \/ /\ status[n] # "unknown"
        /\ UNCHANGED <<status, keyNonce>>
  /\ UNCHANGED senderVars

(* The network loses it, or it expires. *)
Lose(n) ==
  /\ n \in inFlight
  /\ inFlight' = inFlight \ {n}
  /\ UNCHANGED <<keyNonce, status, senderVars>>

Execute(n) ==
  /\ status[n] = "pending"
  /\ \E r \in {"success", "failure"} : status' = [status EXCEPT ![n] = r]
  /\ UNCHANGED <<inFlight, keyNonce, senderVars>>

(* Another process signs with the same key. *)
OtherUse ==
  /\ keyNonce < MaxOther
  /\ keyNonce' = keyNonce + 1
  /\ UNCHANGED <<inFlight, status, senderVars>>

chain ==
  \/ \E n \in Nonces : Include(n) \/ Lose(n) \/ Execute(n)
  \/ OtherUse

(* A call that has returned and a quiet network. *)
Done == pc = "done" /\ inFlight = {} /\ UNCHANGED vars

Next == sender \/ chain \/ Done

Spec == Init /\ [][Next]_vars

(* The sender is a running loop: it takes a step whenever it can.  Nothing *)
(* is assumed of the network.                                              *)
FairSpec == Spec /\ WF_vars(sender)

-----------------------------------------------------------------------------
(* Properties. *)

Effects == {n \in Nonces : status[n] = "success"}

(* Every transaction the network may still execute, or has accepted, is    *)
(* the current one or one whose broadcast threw: signing again is safe     *)
(* only after a Failure about the nonce, and resendLast keeps the sender   *)
(* from signing again when it merely got no result.                        *)
OnlyUnansweredLinger ==
  \A n \in Nonces :
    n \in inFlight \/ status[n] \notin {"unknown", "badNonce"}
      => n = tx \/ n \in unanswered \/ status[n] = "badNonce"

(* The sender implements the promise of RemoteCall: an attempt it lost     *)
(* track of is one whose broadcast threw.                                  *)
Call == INSTANCE RemoteCall WITH
          Attempts <- Nonces, effects <- Effects, outOfSight <- unanswered
ImplementsRemoteCall == Call!Spec

(* The one-shot sender has at most one transaction on its way. *)
AsyncSendsOnce ==
  mode = "change_async" =>
    \A m, n \in {k \in Nonces : k \in inFlight \/ status[k] # "unknown"} : m = n

(* Whatever the network does, the call ends: both loops are bounded.       *)
CallEnds == <>(answer # "none")
=============================================================================
