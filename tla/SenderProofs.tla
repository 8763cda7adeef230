---------------------------- MODULE SenderProofs ----------------------------
(***************************************************************************)
(* The retrying senders keep the promise of RemoteCall: NearTransaction    *)
(* (signAndSendTransaction and its one-shot form), then EthTransaction     *)
(* (callContract and the challenge loop of the watchdog).                  *)
(***************************************************************************)
EXTENDS NearTransaction, EthTransaction, TLAPS
USE SMTT(30)

(* Nothing was signed before the call begins, and until then the key was   *)
(* used by others only.                                                    *)
NothingYet ==
  pc = "start" =>
    /\ i = 0 /\ nonce = 0 /\ ~resendLast /\ keyNonce <= MaxOther

(* A nonce is taken at most once in an iteration of the loop. *)
NoncesTaken ==
  /\ pc = "send" => nonce <= MaxOther + i
  /\ pc = "poll" => i < RETRY_SEND_TX /\ nonce <= MaxOther + i + 1
  /\ mode = "change_async" =>
       /\ i = 0 /\ nonce <= 1
       /\ pc \in {"start", "send"} => nonce = 0

(* The chain knows only transactions that were signed. *)
Signed ==
  /\ tx <= nonce
  /\ \A n \in Nonces : n \in inFlight \/ status[n] # "unknown" => n <= nonce
  /\ pc = "poll" \/ resendLast => tx # 0

(* Before another signature the current transaction is out of the way.     *)
MaySignAgain ==
  /\ pc = "poll" => ~resendLast
  /\ pc \in {"start", "send"} /\ ~resendLast =>
       tx = 0 \/ tx \in unanswered \/ status[tx] = "badNonce"

AnswerAtEnd == answer = "none" <=> pc # "done"

IInv ==
  /\ TypeOK /\ NothingYet /\ NoncesTaken /\ Signed /\ MaySignAgain
  /\ OnlyUnansweredLinger /\ AnswerAtEnd

-----------------------------------------------------------------------------
(* The initial state satisfies the invariant: nothing was signed yet. *)
LEMMA InitIInv == Init => IInv
<1> SUFFICES ASSUME Init PROVE IInv
  BY Zenon
<1> USE RetryAssumption DEF Init, Nonces, Statuses, Final
<1>1. TypeOK
  <2>1. resendLast \in BOOLEAN
    BY Zenon
  <2> QED
    BY <2>1 DEF TypeOK
<1> QED
  BY <1>1
     DEF IInv, NothingYet, NoncesTaken, Signed, MaySignAgain, AnswerAtEnd,
         OnlyUnansweredLinger

(* Every step of the sender keeps the invariant: a new nonce is taken only *)
(* when the current transaction can no longer take effect unnoticed.       *)
LEMMA SenderKeeps == IInv /\ sender => IInv'
<1> SUFFICES ASSUME IInv, sender PROVE IInv'
  BY Zenon
<1> USE RetryAssumption
    DEF IInv, TypeOK, NothingYet, NoncesTaken, Signed, MaySignAgain,
        OnlyUnansweredLinger, AnswerAtEnd, Nonces, Statuses, Final, chainVars
<1>1. CASE nearJsonContractFunctionCall
  BY <1>1 DEF nearJsonContractFunctionCall
<1>2. CASE changeMethod
  BY <1>2 DEF changeMethod
<1>3. CASE statusFails
  BY <1>3 DEF statusFails, Looping, broadcastThrew
<1>4. CASE signAndSend
  <2> USE <1>4 DEF signAndSend, Looping, sendTxnAsync,
          Broadcast, broadcastThrew, broadcastAnswered
  <2>1. TypeOK'
    <3>1. inFlight' \subseteq Nonces /\ unanswered' \subseteq Nonces
      <4>1. /\ nonce + 1 \in Nonces
            /\ inFlight' \in {inFlight, inFlight \cup {nonce + 1}}
               /\ unanswered' \in {unanswered, unanswered \cup {nonce + 1}}
            /\ inFlight \subseteq Nonces /\ unanswered \subseteq Nonces
        OBVIOUS
      <4> QED
        BY ONLY <4>1
    <3> QED
      BY <3>1
  <2>2. /\ (NothingYet /\ NoncesTaken)'
        /\ Signed'
    OBVIOUS
  <2>3. /\ MaySignAgain'
        /\ OnlyUnansweredLinger'
        /\ AnswerAtEnd'
    OBVIOUS
  <2> QED
    BY ONLY <2>1, <2>2, <2>3
<1>5. CASE resend
  <2> USE <1>5 DEF resend, Looping, sendTxnAsync,
          Broadcast, broadcastThrew, broadcastAnswered
  <2>1. TypeOK'
    <3>1. inFlight' \subseteq Nonces /\ unanswered' \subseteq Nonces
      <4>1. /\ tx \in Nonces
            /\ inFlight' \in {inFlight, inFlight \cup {tx}}
               /\ unanswered' \in {unanswered, unanswered \cup {tx}}
            /\ inFlight \subseteq Nonces /\ unanswered \subseteq Nonces
        OBVIOUS
      <4> QED
        BY ONLY <4>1
    <3> QED
      BY <3>1
  <2>2. /\ (NothingYet /\ NoncesTaken)'
        /\ Signed'
    OBVIOUS
  <2>3. MaySignAgain'
    BY Zenon
  <2>4. /\ OnlyUnansweredLinger'
        /\ AnswerAtEnd'
    BY Zenon
  <2> QED
    BY ONLY <2>1, <2>2, <2>3, <2>4
<1>6. CASE signAndSendTransactionAsync
  <2> USE <1>6 DEF signAndSendTransactionAsync, Broadcast, asyncThrew, broadcastAnswered
  <2>1. TypeOK'
    <3>1. inFlight' \subseteq Nonces /\ unanswered' \subseteq Nonces
      <4>1. /\ nonce + 1 \in Nonces
            /\ inFlight' \in {inFlight, inFlight \cup {nonce + 1}}
               /\ unanswered' \in {unanswered, unanswered \cup {nonce + 1}}
            /\ inFlight \subseteq Nonces /\ unanswered \subseteq Nonces
        OBVIOUS
      <4> QED
        BY ONLY <4>1
    <3> QED
      BY <3>1
  <2>2. /\ (NothingYet /\ NoncesTaken)'
        /\ Signed'
        /\ MaySignAgain'
    OBVIOUS
  <2>3. /\ OnlyUnansweredLinger'
        /\ AnswerAtEnd'
    OBVIOUS
  <2> QED
    BY ONLY <2>1, <2>2, <2>3
<1>7. CASE pollFails
  BY <1>7 DEF pollFails
<1>8. CASE pollPending
  BY <1>8 DEF pollPending
<1>9. CASE pollFinal
  BY <1>9 DEF pollFinal
<1>10. CASE pollEnds
  <2> USE <1>10 DEF pollEnds
  <2>1. TypeOK'
    <3>1. CASE result = "none"
      BY <3>1
    <3> QED
      BY Zenon, <3>1
  <2>2. /\ (NothingYet /\ NoncesTaken)'
        /\ Signed'
        /\ MaySignAgain'
        /\ OnlyUnansweredLinger'
        /\ AnswerAtEnd'
    OBVIOUS
  <2> QED
    BY ONLY <2>1, <2>2
<1>11. CASE txnStatus
  BY Zenon, <1>11 DEF txnStatus
<1>12. CASE throwError
  BY Zenon, <1>12 DEF throwError
<1> QED
  BY Zenon, <1>1, <1>2, <1>3, <1>4, <1>5, <1>6, <1>7, <1>8, <1>9, <1>10, <1>11, <1>12
     DEF sender

(* Every step of the chain keeps the invariant: it executes and refuses    *)
(* only what was broadcast.                                                *)
LEMMA ChainKeeps == IInv /\ chain => IInv'
<1> SUFFICES ASSUME IInv, chain PROVE IInv'
  BY Zenon
<1> USE RetryAssumption
    DEF IInv, TypeOK, NothingYet, NoncesTaken, Signed, MaySignAgain,
        OnlyUnansweredLinger, AnswerAtEnd, Nonces, Statuses, Final, senderVars
<1>1. CASE \E n \in Nonces : Include(n)
  BY <1>1 DEF Include
<1>2. CASE \E n \in Nonces : Lose(n)
  BY <1>2 DEF Lose
<1>3. CASE \E n \in Nonces : Execute(n)
  BY <1>3 DEF Execute
<1>4. CASE OtherUse
  BY <1>4 DEF OtherUse
<1> QED
  BY Zenon, <1>1, <1>2, <1>3, <1>4 DEF chain

(* Each step of the call, of the chain or a stuttering step keeps the      *)
(* invariant.                                                              *)
LEMMA NextKeeps == IInv /\ [Next]_vars => IInv'
<1>1. IInv /\ UNCHANGED vars => IInv'
  BY DEF vars, senderVars, chainVars, IInv, TypeOK, NothingYet, NoncesTaken, Signed,
         MaySignAgain, OnlyUnansweredLinger, AnswerAtEnd
<1> QED
  BY Zenon, <1>1, SenderKeeps, ChainKeeps DEF Next, Done

(* The inductive invariant holds in every state of signAndSendTransaction  *)
(* and signAndSendTransactionAsync.                                        *)
THEOREM Invariance == Spec => []IInv
  BY InitIInv, NextKeeps, PTL DEF Spec

(* The counters, nonces and statuses of signAndSendTransaction stay in     *)
(* their ranges; in particular the two loops take no more nonces than they *)
(* have iterations.                                                        *)
THEOREM TypeCorrect == Spec => []TypeOK
<1>1. IInv => TypeOK
  BY Zenon DEF IInv
<1> QED
  BY <1>1, Invariance, PTL

(* signAndSendTransaction signs again only when the transaction before is  *)
(* refused for its nonce or its broadcast threw, however many retries and  *)
(* polls it has.                                                           *)
THEOREM Lingering == Spec => []OnlyUnansweredLinger
<1>1. IInv => OnlyUnansweredLinger
  BY Zenon DEF IInv
<1> QED
  BY <1>1, Invariance, PTL

(* signAndSendTransactionAsync has at most one transaction on its way or   *)
(* on the chain.                                                           *)
THEOREM AsyncOnce == Spec => []AsyncSendsOnce
<1>1. ASSUME IInv PROVE AsyncSendsOnce
  BY <1>1, RetryAssumption DEF AsyncSendsOnce, IInv, NoncesTaken, Signed, TypeOK, Nonces
<1> QED
  BY <1>1, Invariance, PTL

-----------------------------------------------------------------------------
(* A step that executes nothing and answers nothing leaves the attempts    *)
(* that took effect alone.                                                 *)
LEMMA SameEffects == status' = status => Effects' = Effects
  BY Zenon DEF Effects, Nonces

(* Every step of the sender is a step of RemoteCall: a broadcast that      *)
(* threw loses track of its transaction, a return answers the caller.      *)
LEMMA SenderRefines ==
  IInv /\ IInv' /\ sender => [Call!Next]_(Call!vars)
<1> SUFFICES ASSUME IInv, IInv', sender PROVE [Call!Next]_(Call!vars)
  BY Zenon
<1>1. status' = status
  BY Zenon DEF sender, nearJsonContractFunctionCall, changeMethod, statusFails, signAndSend,
         resend, signAndSendTransactionAsync, pollFails, pollPending, pollFinal, pollEnds,
         txnStatus, throwError, sendTxnAsync, Broadcast, chainVars
<1>2. Effects' = Effects
  BY Zenon, <1>1, SameEffects
<1>3. CASE UNCHANGED <<unanswered, answer>>
  BY Zenon, <1>2, <1>3 DEF Call!vars
<1> USE DEF IInv, AnswerAtEnd
<1>4. CASE signAndSend \/ resend \/ signAndSendTransactionAsync
  BY Zenon, <1>3, <1>2, <1>4
     DEF signAndSend, resend, signAndSendTransactionAsync, sendTxnAsync, Broadcast,
         broadcastThrew, broadcastAnswered, asyncThrew, TypeOK, Call!LoseTrack, Call!Next
<1>5. CASE pollFinal \/ txnStatus \/ throwError
  <2>1. /\ UNCHANGED unanswered /\ answer' \in {answer, "success", "error"}
        /\ answer' = "error" => pc # "done"
        /\ answer' = "success" => pc = "poll" /\ status[tx] = "success"
    BY Zenon, <1>5 DEF pollFinal, txnStatus, throwError
  <2>2. pc = "poll" => tx \in Nonces
    BY RetryAssumption DEF TypeOK, Signed, Nonces
  <2> QED
    BY Zenon, <1>2, <1>3, <2>1, <2>2 DEF Effects, Call!Next, Call!Answer
<1> QED
  BY Zenon, <1>3, <1>4, <1>5
     DEF sender, nearJsonContractFunctionCall, changeMethod, statusFails, pollFails,
         pollPending, pollEnds

(* Every step of the chain is a step of RemoteCall: an execution adds an   *)
(* effect, and what lingers is the current transaction or out of sight.    *)
LEMMA ChainRefines ==
  IInv /\ IInv' /\ chain => [Call!Next]_(Call!vars)
<1> SUFFICES ASSUME IInv, IInv', chain PROVE [Call!Next]_(Call!vars)
  BY Zenon
<1>1. ASSUME NEW n \in Nonces, Include(n) PROVE Effects' = Effects
  BY Zenon, <1>1 DEF Include, Effects, IInv, TypeOK
<1>2. ASSUME NEW n \in Nonces, Execute(n)
      PROVE  Effects' \in {Effects, Effects \cup {n}}
  <2>1. PICK r \in {"success", "failure"} : status' = [status EXCEPT ![n] = r]
    BY Zenon, <1>2 DEF Execute
  <2>2. /\ status[n] # "success" /\ status'[n] = r
        /\ \A m \in Nonces \ {n} : status'[m] = status[m]
    BY <1>2, <2>1 DEF Execute, IInv, TypeOK
  <2> QED
    BY Zenon, <2>1, <2>2 DEF Effects
<1>3. UNCHANGED <<unanswered, answer, tx>>
  BY Zenon DEF chain, Lose, OtherUse, Include, Execute, senderVars
<1>4. CASE Effects' = Effects
  BY Zenon, <1>3, <1>4 DEF Call!vars
<1>5. ASSUME NEW n \in Nonces, Effects' = Effects \cup {n}
      PROVE  Call!Next
  <2>1. \A m \in Effects' : m = tx \/ m \in unanswered
    BY Zenon, <1>3 DEF IInv, OnlyUnansweredLinger, Effects
  <2>2. \E last \in Nonces : Effects' \subseteq unanswered \cup {last}
    BY Zenon, <1>5, <2>1 DEF Effects
  <2> QED
    BY Zenon, <1>3, <1>5, <2>2 DEF Call!TakeEffect, Call!Next
<1> QED
  BY Zenon, <1>1, <1>2, <1>4, <1>5, SameEffects DEF chain, Lose, OtherUse

(* signAndSendTransaction and signAndSendTransactionAsync keep the promise *)
(* of RemoteCall for every number of retries and polls: at least one       *)
(* effect behind a success, and at most one beyond the transactions whose  *)
(* broadcast threw.                                                        *)
THEOREM Refinement == Spec => ImplementsRemoteCall
<1>1. Init => Call!Init
  BY Zenon DEF Init, Call!Init, Effects
<1>2. IInv /\ IInv' /\ [Next]_vars => [Call!Next]_(Call!vars)
  BY Zenon, SameEffects, SenderRefines, ChainRefines
     DEF Next, Done, vars, senderVars, chainVars, Call!vars
<1> QED
  BY PTL, <1>1, <1>2, Invariance DEF Spec, ImplementsRemoteCall, Call!Spec

-----------------------------------------------------------------------------

Own(n) == pool[n].own \/ mined[n].own

(* Before the first transaction there is none, while the sender is about   *)
(* to send again it has lost sight of the one at its nonce.                *)
OwnKnown ==
  /\ step = "start" => \A n \in TxNonces : ~Own(n)
  /\ step = "send" /\ txNonce \in TxNonces /\ Own(txNonce) =>
       txNonce \in outOfSight
  /\ step = "wait" => txNonce \in TxNonces
  /\ caller = "challenge" => \A n \in TxNonces : Own(n) => n = txNonce

(* Nothing is mined beyond the count of the account. *)
MinedInOrder == \A n \in TxNonces : n >= count => ~mined[n].own

EthAnswerAtEnd == reply = "none" <=> step # "done"

EthIInv ==
  /\ EthTypeOK /\ OnlyLostLinger /\ OwnKnown /\ MinedInOrder
  /\ EthAnswerAtEnd

-----------------------------------------------------------------------------
(* Every set of nonces has a smallest one: proved at the end, and a        *)
(* hypothesis of the lemmas on the pending nonce.                          *)
LeastNumbers == \A S \in SUBSET Nat : S # {} => \E n \in S : \A m \in S : n <= m

(* The nonce getTransactionCount(..., "pending") answers is within the     *)
(* bound or just past it.                                                  *)
LEMMA PendingCountType ==
  ASSUME LeastNumbers, EthTypeOK PROVE PendingCount \in count .. MaxNonce + 1
<1> DEFINE F == {n \in count .. MaxNonce + 1 : n = MaxNonce + 1 \/ pool[n] = None}
<1>1. F \in SUBSET Nat /\ MaxNonce + 1 \in F
  BY PriceAssumption DEF EthTypeOK
<1>2. PICK n \in F : \A m \in F : n <= m
  <2> HIDE DEF F
  <2> QED
    BY Zenon, <1>1 DEF LeastNumbers
<1>3. \E k \in count .. MaxNonce + 1 :
        /\ \A m \in count .. k - 1 : pool[m] # None
        /\ k = MaxNonce + 1 \/ pool[k] = None
  BY <1>2, PriceAssumption
<1> QED
  BY Zenon, <1>3 DEF PendingCount

-----------------------------------------------------------------------------
(* The constants that are numbers. *)
LEMMA Bounds == MaxNonce \in Nat /\ StartPrice \in Nat
  BY Zenon, PriceAssumption

(* What the node holds keeps its type. *)
LEMMA TxTypes ==
  /\ None \in Tx /\ ~None.own
  /\ \A own \in BOOLEAN, price \in Nat :
       Pending(own, price) \in Tx /\ (Pending(own, price).own <=> own)
  /\ \A t \in Tx, ok \in BOOLEAN :
       [t EXCEPT !.ok = ok] \in Tx /\ ([t EXCEPT !.ok = ok].own <=> t.own)
  BY Zenon DEF None, Tx, Pending

(* The initial state satisfies the invariant: nothing was sent. *)
LEMMA EthInitIInv == EthInit => EthIInv
  BY TxTypes, PriceAssumption
     DEF EthInit, EthTypeOK, Own, EthIInv, OnlyLostLinger, OwnKnown, MinedInOrder,
         EthAnswerAtEnd

(* Every step of the sender keeps the invariant: it leaves a nonce only    *)
(* when nothing of its own is there, or is out of sight.                   *)
LEMMA EthSenderKeeps == LeastNumbers /\ EthIInv /\ ethSender => EthIInv'
<1> SUFFICES ASSUME LeastNumbers, EthIInv, ethSender PROVE EthIInv'
  BY Zenon
<1> USE Bounds DEF EthIInv, nodeVars
<1>1. CASE getPendingCount \/ challengeStarts
  BY <1>1, PendingCountType
     DEF getPendingCount, challengeStarts, EthTypeOK, OnlyLostLinger, OwnKnown,
         MinedInOrder, EthAnswerAtEnd, Own
<1>2. CASE refuse
  <2>1. /\ step = "send" /\ txNonce <= MaxNonce /\ caller = "callContract"
        /\ UNCHANGED <<pool, mined, count, outOfSight, caller, reply, fixedPrice,
                       text, gasPrice, sentPrice, connected>>
    BY Zenon, <1>2 DEF refuse, Reaching, Resending
  <2>2. \/ txNonce' = txNonce + 1 /\ step' = "send"
        \/ txNonce' = txNonce /\ step' = "throw"
    BY Zenon, <1>2, <2>1 DEF refuse
  <2> QED
    BY <2>1, <2>2
       DEF MinedInOrder, EthAnswerAtEnd, EthTypeOK, OnlyLostLinger, OwnKnown, Own, TxNonces
<1>3. CASE reconnect
  <2>1. Disconnect /\ step' = "send" /\ connected' \in BOOLEAN
    BY Zenon, <1>3 DEF reconnect
  <2> QED
    BY <2>1
       DEF MinedInOrder, EthAnswerAtEnd, Disconnect, EthTypeOK, OnlyLostLinger, OwnKnown,
           Own, Resending
<1>4. CASE slow
  BY <1>4 DEF slow, OwnKnown, EthTypeOK, OnlyLostLinger, Own, MinedInOrder, EthAnswerAtEnd
<1>5. CASE send
  <2>1. /\ txNonce \in TxNonces /\ PriceOfTx \in Nat /\ step = "send"
        /\ pool' = [pool EXCEPT ![txNonce] = Pending(TRUE, PriceOfTx)]
        /\ sentPrice' = PriceOfTx /\ step' = "wait"
        /\ UNCHANGED <<caller, fixedPrice, text, gasPrice, txNonce, reply, outOfSight,
                       connected, count, mined>>
    BY <1>5, PriceAssumption DEF send, Reaching, Resending, EthTypeOK, PriceOfTx, TxNonces
  <2>2. EthTypeOK'
    BY Zenon, <2>1, TxTypes DEF EthTypeOK
  <2>3. \A n \in TxNonces : n # txNonce => pool'[n] = pool[n]
    BY <2>1
  <2> QED
    BY Zenon, <2>1, <2>2, <2>3
       DEF OnlyLostLinger, OwnKnown, Own, MinedInOrder, EthAnswerAtEnd
<1>6. CASE receipt \/ giveUp \/ challengeRefused \/ otherError
  BY Zenon, <1>6
     DEF OnlyLostLinger, OwnKnown, Own, MinedInOrder, EthAnswerAtEnd, receipt, giveUp,
         challengeRefused, otherError, Reaching, Resending, EthTypeOK
<1> HIDE DEF EthIInv, nodeVars
<1> QED
  BY Zenon, <1>1, <1>2, <1>3, <1>4, <1>5, <1>6
     DEF ethSender, callContract, challenge, promiseWithTimeout

(* Every step of the node keeps the invariant: only transactions that are  *)
(* in the pool are mined, in the order of their nonces.                    *)
LEMMA NodeKeeps == EthIInv /\ node => EthIInv'
<1> SUFFICES ASSUME EthIInv, node PROVE EthIInv'
  BY Zenon
<1> USE Bounds DEF EthIInv
<1>1. PICK n \in TxNonces :
        \/ Mine(n) \/ Evict(n)
        \/ n < MaxNonce /\ \E p \in OtherPrices : OtherSends(n, p)
  BY Zenon DEF node
<1>2. UNCHANGED robustVars
  BY Zenon, <1>1 DEF Mine, Evict, OtherSends
<1>3. pool \in [TxNonces -> Tx] /\ mined \in [TxNonces -> Tx] /\ count \in Nat
  BY DEF EthTypeOK
<1>4. /\ pool' \in [TxNonces -> Tx] /\ mined' \in [TxNonces -> Tx]
      /\ count' \in {count, count + 1} /\ count' \in 0 .. MaxNonce + 1
      /\ \A m \in TxNonces : Own(m)' => Own(m)
      /\ \A m \in TxNonces : m >= count' => mined'[m] = mined[m]
  <2>1. CASE Mine(n)
    BY <2>1, <1>3, TxTypes DEF Mine, Own, TxNonces
  <2>2. CASE Evict(n)
    BY <2>2, TxTypes DEF Evict, Own, EthTypeOK
  <2>3. ASSUME NEW p \in OtherPrices, OtherSends(n, p)
        PROVE  /\ pool' = [pool EXCEPT ![n] = Pending(FALSE, p)]
               /\ Pending(FALSE, p) \in Tx /\ ~Pending(FALSE, p).own
               /\ UNCHANGED <<count, mined>>
    BY Zenon, <2>3, TxTypes, PriceAssumption DEF OtherSends
  <2>4. CASE \E p \in OtherPrices : OtherSends(n, p)
    BY Zenon, <2>3, <2>4 DEF Own, EthTypeOK
  <2> QED
    BY Zenon, <1>1, <2>1, <2>2, <2>4
<1>5. EthTypeOK'
  BY Zenon, <1>2, <1>4 DEF EthTypeOK, robustVars
<1>6. OnlyLostLinger' /\ OwnKnown'
  BY Zenon, <1>2, <1>4 DEF robustVars, OnlyLostLinger, OwnKnown, Own
<1>7. MinedInOrder'
  BY <1>4 DEF MinedInOrder, TxNonces
<1> QED
  BY Zenon, <1>2, <1>5, <1>6, <1>7 DEF robustVars, EthAnswerAtEnd

(* Each step of the sender, of the node or a stuttering step keeps the     *)
(* invariant.                                                              *)
LEMMA EthNextKeeps == LeastNumbers /\ EthIInv /\ [EthNext]_ethVars => EthIInv'
<1>1. LeastNumbers /\ EthIInv /\ ethSender => EthIInv'
  BY Zenon, EthSenderKeeps
<1>2. EthIInv /\ node => EthIInv'
  BY Zenon, NodeKeeps
<1>3. EthIInv /\ UNCHANGED ethVars => EthIInv'
  BY Zenon
     DEF ethVars, robustVars, nodeVars, EthIInv, EthTypeOK, OnlyLostLinger, OwnKnown,
         MinedInOrder, EthAnswerAtEnd, Own
<1>4. EthIInv /\ Close => EthIInv'
  BY Zenon
     DEF Close, nodeVars, EthIInv, EthTypeOK, OnlyLostLinger, OwnKnown, MinedInOrder,
         EthAnswerAtEnd, Own
<1> QED
  BY Zenon, <1>1, <1>2, <1>3, <1>4 DEF EthNext, EthDone, OutOfNonces

-----------------------------------------------------------------------------
(* The attempts that took effect are what is mined. *)
LEMMA EthSameEffects == mined' = mined => EthEffects' = EthEffects
  BY Zenon DEF EthEffects

(* Every step of the sender is a step of RemoteCall: giving up a receipt   *)
(* loses track of the nonce, a return answers the caller.                  *)
LEMMA EthSenderRefines ==
  EthIInv /\ ethSender => [EthCall!Next]_(EthCall!vars)
<1> SUFFICES ASSUME EthIInv, ethSender PROVE [EthCall!Next]_(EthCall!vars)
  BY Zenon
<1>1. mined' = mined
  BY Zenon
     DEF ethSender, callContract, promiseWithTimeout, challenge, getPendingCount, refuse,
         reconnect, challengeStarts, challengeRefused, otherError, Disconnect, send,
         receipt, slow, giveUp, nodeVars
<1>2. EthEffects' = EthEffects
  BY Zenon, <1>1, EthSameEffects
<1>3. CASE UNCHANGED <<outOfSight, reply>>
  BY Zenon, <1>2, <1>3 DEF EthCall!vars
<1>4. CASE /\ step # "done" /\ UNCHANGED outOfSight
           /\ \/ reply' = "error"
              \/ /\ reply' = "success" /\ step = "wait"
                 /\ mined[txNonce].own /\ mined[txNonce].ok
  BY Zenon, <1>4, <1>2
     DEF EthIInv, EthAnswerAtEnd, OwnKnown, EthEffects, EthCall!Answer, EthCall!Next
<1>5. CASE \/ getPendingCount \/ challengeStarts \/ challengeRefused \/ refuse \/ send
           \/ otherError
  BY Zenon, <1>3, <1>5
     DEF getPendingCount, challengeStarts, challengeRefused, refuse, send, otherError
<1>6. CASE slow \/ reconnect
  BY Zenon, <1>3, <1>2, <1>6
     DEF slow, reconnect, Disconnect, EthIInv, OwnKnown, EthAnswerAtEnd,
         EthCall!LoseTrack, EthCall!Next
<1> QED
  BY Zenon, <1>5, <1>6, <1>3, <1>4
     DEF ethSender, callContract, promiseWithTimeout, challenge, receipt, giveUp

(* Every step of the node is a step of RemoteCall: a mined transaction is  *)
(* an effect unless it reverts or belongs to another process.              *)
LEMMA NodeRefines ==
  EthIInv /\ EthIInv' /\ node => [EthCall!Next]_(EthCall!vars)
<1> SUFFICES ASSUME EthIInv, EthIInv', node PROVE [EthCall!Next]_(EthCall!vars)
  BY Zenon
<1>1. UNCHANGED <<outOfSight, reply, txNonce>>
  BY Zenon DEF node, Mine, Evict, OtherSends, robustVars
<1>2. CASE EthEffects' = EthEffects
  BY Zenon, <1>1, <1>2 DEF EthCall!vars
<1>3. ASSUME NEW n \in TxNonces, EthEffects' = EthEffects \cup {n}
      PROVE  EthCall!Next
  <2>1. \A m \in EthEffects' : m = txNonce \/ m \in outOfSight
    BY Zenon, <1>1 DEF EthIInv, OnlyLostLinger, EthEffects, TxNonces
  <2>2. \E last \in TxNonces : EthEffects' \subseteq outOfSight \cup {last}
    BY Zenon, <1>3, <2>1 DEF EthEffects
  <2>3. EthCall!TakeEffect(n)
    BY Zenon, <1>1, <1>3, <2>2 DEF EthCall!TakeEffect
  <2> QED
    BY Zenon, <2>3 DEF EthCall!Next
<1>4. ASSUME NEW n \in TxNonces, Mine(n)
      PROVE  EthEffects' \in {EthEffects, EthEffects \cup {n}}
  <2>1. mined \in [TxNonces -> Tx] /\ n \notin EthEffects
    <3>1. mined \in [TxNonces -> Tx] /\ MinedInOrder /\ n = count
      BY Zenon, <1>4 DEF EthIInv, EthTypeOK, Mine
    <3>2. n >= count
      BY <3>1, Bounds DEF TxNonces
    <3> QED
      BY Zenon, <3>1, <3>2 DEF EthEffects, MinedInOrder
  <2>2. PICK t : mined' = [mined EXCEPT ![n] = t]
    BY Zenon, <1>4 DEF Mine
  <2>3. \A m \in TxNonces : m # n => mined'[m] = mined[m]
    BY Zenon, <2>1, <2>2
  <2>4. EthEffects' \ {n} = EthEffects
    BY Zenon, <2>1, <2>3 DEF EthEffects, TxNonces
  <2> QED
    BY Zenon, <2>4
<1>5. ASSUME NEW n \in TxNonces, Evict(n) \/ \E p \in OtherPrices : OtherSends(n, p)
      PROVE  EthEffects' = EthEffects
  BY Zenon, <1>5, EthSameEffects DEF Evict, OtherSends
<1> QED
  BY Zenon, <1>2, <1>3, <1>4, <1>5 DEF node

(* A stuttering step, and every step of the sender and of the node, is one *)
(* of RemoteCall or leaves its variables alone.                            *)
LEMMA EthNextRefines ==
  /\ EthInit => EthCall!Init
  /\ EthIInv /\ EthIInv' /\ [EthNext]_ethVars => [EthCall!Next]_(EthCall!vars)
<1>1. EthInit => EthCall!Init
  BY TxTypes DEF EthInit, EthCall!Init, EthEffects
<1>2. EthIInv /\ EthIInv' /\ [EthNext]_ethVars => [EthCall!Next]_(EthCall!vars)
  BY Zenon, EthSameEffects, EthSenderRefines, NodeRefines
     DEF EthNext, Close, EthDone, OutOfNonces, ethVars, robustVars, nodeVars, EthCall!vars
<1> QED
  BY Zenon, <1>1, <1>2

(* What the invariant says of what a sender leaves behind. *)
LEMMA EthConsequences == EthIInv => EthTypeOK /\ OnlyLostLinger /\ ChallengeExecutesOnce
  BY Zenon DEF ChallengeExecutesOnce, EthIInv, OwnKnown, Own, EthEffects

-----------------------------------------------------------------------------
LOCAL INSTANCE WellFoundedInduction

(* A nonempty set of naturals has a least element. *)
LEMMA Smallest == LeastNumbers
<1> SUFFICES ASSUME NEW T \in SUBSET Nat, T # {} PROVE \E x \in T : \A y \in T : x <= y
  BY Zenon DEF LeastNumbers
<1> DEFINE R == {ss \in Nat \X Nat : ss[1] < ss[2]}
<1>1. IsWellFoundedOn(R, Nat)
  BY Zenon, NatLessThanWellFounded DEF OpToRel
<1>2. PICK x \in T : \A y \in T : ~(<<y, x>> \in R)
  BY Zenon, <1>1, WFMin
<1>3. \A y \in T : x <= y
  <2> SUFFICES ASSUME NEW y \in T, y < x PROVE FALSE
    OBVIOUS
  <2>1. <<y, x>> \in R
    BY Zenon
  <2> QED
    BY Zenon, <1>2, <2>1
<1> QED
  BY Zenon, <1>3

(* The inductive invariant holds in every state of callContract and of the *)
(* watchdog's challenge loop.                                              *)
THEOREM EthInvariance == EthSpec => []EthIInv
  BY Smallest, EthInitIInv, EthNextKeeps, PTL DEF EthSpec

(* The prices, nonces, pending and mined transactions of callContract and  *)
(* of the challenge loop stay in their ranges: even a nonce taken past the *)
(* pending ones is at most one past the bound.                             *)
THEOREM EthTypeCorrect == EthSpec => []EthTypeOK
  BY EthInvariance, EthConsequences, PTL

(* callContract and the challenge loop leave behind only transactions they *)
(* lost sight of, whatever the prices and however often they resend.       *)
THEOREM EthLingering == EthSpec => []OnlyLostLinger
  BY EthInvariance, EthConsequences, PTL

(* One round of the watchdog executes at most one challenge. *)
THEOREM OneChallenge == EthSpec => []ChallengeExecutesOnce
  BY EthInvariance, EthConsequences, PTL

(* callContract and the challenge loop keep the promise of RemoteCall for  *)
(* every price and number of resends: at least one effect behind a         *)
(* success, and at most one beyond the nonces whose receipt was given up.  *)
THEOREM EthRefinement == EthSpec => EthImplementsRemoteCall
  BY EthNextRefines, EthInvariance, PTL DEF EthSpec, EthImplementsRemoteCall, EthCall!Spec
=============================================================================
