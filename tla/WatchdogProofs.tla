--------------------------- MODULE WatchdogProofs ---------------------------
(***************************************************************************)
(* A watchdog that works within the lock duration keeps bad blocks from    *)
(* being confirmed, for any number of accounts, blocks and validators.     *)
(*                                                                         *)
(* A challenge pays half a bond, so the contract must hold it.  The        *)
(* accounting of its ETH counts depositors, so it comes at the end, with   *)
(* the library's facts about finite sets.                                  *)
(***************************************************************************)
EXTENDS Watchdog, NearBridgeProofs
USE SMTT(30)

(* When the pending block was added. *)
Added == lastValidAt - lockDuration

(* The signatures of the pending block are those the loop goes through. *)
PendingSigners ==
  lastValidAt # 0 =>
    /\ Added <= now
    /\ untrusted.signatureSet \subseteq 0 .. epochs[UntrustedEpoch].numBPs - 1

(* No complete round began after a bad block was added, and a round under  *)
(* way that did has a bad signature before it.                             *)
BadAhead ==
  BadPending =>
    /\ lastRound <= Added
    /\ wpc = "check" /\ began > Added =>
         /\ producers = epochs[UntrustedEpoch].numBPs
         /\ \E i \in index .. producers - 1 : BadSignature(i)
    /\ wpc = "challenge" /\ began > Added => BadSignature(index)

(* Nobody but the admin takes the surplus, and the admin does not here. *)
Funded == surplus >= 0 /\ paused \in PauseSettings

(* A bond that is deposited is there, beside the surplus. *)
Backed == \A a \in Accounts : balanceOf[a] # 0 => ethBalance >= lockEthAmount + surplus

Rounds == WatchTypeOK /\ now - lastRound <= RoundBound

WInv == IInv /\ Backed /\ Funded /\ Rounds /\ PendingSigners /\ BadAhead

-----------------------------------------------------------------------------
(* The quantities of the watchdog and of the pending block are numbers. *)
LEMMA Numbers ==
  ASSUME IInv, WatchTypeOK
  PROVE  /\ now \in Nat /\ lastValidAt \in Nat /\ lastRound \in Nat /\ began \in Nat
         /\ lastRound <= began /\ began <= now
         /\ producers \in Nat /\ index \in Nat /\ index <= producers
         /\ lockDuration \in Nat /\ RoundBound \in Nat /\ RoundBound < lockDuration
         /\ epochs[UntrustedEpoch].numBPs \in 0 .. MAX_BLOCK_PRODUCERS
         /\ MAX_BLOCK_PRODUCERS \in Nat
         /\ untrusted.signatureSet \subseteq Producers
  BY ConstructorRequire, ConstantTypes, WatchdogInTime
     DEF IInv, TypeOK, UntrustedEpoch, Slot, EpochType, UntrustedType, WatchTypeOK

(* A bad block is still within its challenge period: the last complete     *)
(* round began no later than it was added, and not long ago.               *)
LEMMA InTime == WInv /\ BadPending => Challengeable
  BY Numbers DEF WInv, Rounds, BadAhead, Added, Challengeable

(* What a challenge takes and pays is there. *)
LEMMA Solvent ==
  ASSUME WInv, Challengeable
  PROVE  balanceOf[lastSubmitter] >= lockEthAmount /\ ethBalance >= Reward
  BY Amounts DEF WInv, Backed, Funded, IInv, TypeOK, BondCoversChallenge, Reward

(* A challenge of a bad signature is accepted. *)
LEMMA BadIsAccepted ==
  ASSUME WInv, BadPending, NEW i, BadSignature(i) PROVE ChallengeAccepted(i)
  BY Zenon, InTime, Solvent, WatchdogInTime
     DEF WInv, Funded, NotPaused, ChallengeAccepted, BadSignature

-----------------------------------------------------------------------------
(* Every step of the watchdog and of the others is a step of the contract. *)
LEMMA WatchedStep == IInv /\ [WatchNext]_allVars => [Next]_vars
<1>1. IInv /\ watchdog => [Next]_vars
  BY Zenon, WatchdogInTime
     DEF watchdog, readBridgeState, checkBlockProducerSignature, sendChallenge,
         challengeFails, viewFails,
         wake, Next, challenge, IInv, TypeOK, UntrustedType
<1> QED
  BY Zenon, <1>1, WatchdogInTime
     DEF WatchNext, WatchedTick, administrator, submitter, Next, allVars

(* The contract beside its watchdog is the contract: whatever holds of     *)
(* NearBridge holds here.                                                  *)
THEOREM WatchedContract == WatchSpec => Spec
<1>1. WatchInit => Init
  BY Zenon DEF WatchInit
<1> QED
  BY <1>1, InitInv, NextInv, WatchedStep, PTL DEF WatchSpec, Spec

(* What a step does to the pending block: nothing; or it removes it, or    *)
(* finds none; or it adds a new one.                                       *)
LEMMA StepKinds ==
  ASSUME IInv, [WatchNext]_allVars
  PROVE  \/ UNCHANGED <<chainVars, pendingVars>> /\ now' \in {now, now + 1}
         \/ lastValidAt' = 0
         \/ /\ \E s \in Accounts, b \in LightClientBlocks : addLightClientBlock(s, b)
            /\ UNCHANGED watchVars
<1>1. CASE watchdog
  BY Zenon, <1>1
     DEF watchdog, readBridgeState, checkBlockProducerSignature, sendChallenge,
         challengeFails, viewFails,
         wake, vars, challenge
<1> QED
  BY Zenon, <1>1, WatchdogInTime
     DEF WatchNext, WatchedTick, Tick, submitter, deposit, withdraw, allVars, vars,
         administrator, initWithValidators, initWithBlock, IInv, HeadInv, pendingVars

(* Whether a signature is bad depends on the chain and the pending block. *)
LEMMA SameBlock ==
  ASSUME UNCHANGED <<chainVars, pendingVars>>
  PROVE  /\ UNCHANGED <<UntrustedEpoch, Added, epochs, untrusted, lastValidAt>>
         /\ \A i : BadSignature(i)' <=> BadSignature(i)
         /\ BadPending' <=> BadPending
  BY Zenon DEF chainVars, pendingVars, UntrustedEpoch, Added, BadSignature, CheckSignatureInHead,
         BadPending

(* The surplus only grows, by the other halves of forfeited bonds. *)
LEMMA FundedKept == IInv /\ Funded /\ [WatchNext]_allVars => Funded'
<1>1. IInv /\ watchdog => paused' = paused /\ (surplus' >= surplus)
  BY Amounts
     DEF watchdog, readBridgeState, checkBlockProducerSignature, sendChallenge,
         challengeFails, viewFails,
         wake, vars, ethVars, challenge, Reward, IInv, TypeOK
<1>2. administrator \/ WatchedTick \/ UNCHANGED allVars \/ (\E s \in Submitters : submitter(s))
        => UNCHANGED <<paused, surplus>>
  BY Zenon DEF administrator, initWithValidators, initWithBlock, WatchedTick, Tick, submitter,
         deposit, withdraw, addLightClientBlock, ethVars, allVars, vars
<1> QED
  BY <1>1, <1>2, WatchedStep, NextInv DEF WatchNext, Funded, IInv, TypeOK

(* The last complete round stays recent, and the loop within its range. *)
LEMMA RoundsKept == IInv /\ Rounds /\ [WatchNext]_allVars => Rounds'
<1> SUFFICES ASSUME IInv, Rounds, [WatchNext]_allVars PROVE Rounds'
  BY Zenon
<1> USE Numbers DEF Rounds, WatchTypeOK
<1>1. CASE readBridgeState
  <2>1. BridgeState.numBlockProducers \in 0 .. MAX_BLOCK_PRODUCERS
    BY DEF BridgeState
  <2> QED
    BY <1>1, <2>1 DEF readBridgeState, vars
<1>2. CASE checkBlockProducerSignature
  BY <1>2 DEF checkBlockProducerSignature, EndRound, vars
<1>3. CASE sendChallenge
  BY <1>3 DEF sendChallenge, challenge, EndRound, vars
<1>4. CASE challengeFails \/ viewFails \/ wake
  BY <1>4, WatchdogInTime DEF challengeFails, viewFails, wake, vars
<1>5. CASE UNCHANGED watchVars
  <2>1. now' = now \/ WatchedTick
    BY Zenon, <1>5 DEF WatchNext, watchdog, readBridgeState, checkBlockProducerSignature,
       sendChallenge, challengeFails, viewFails, wake, administrator, initWithValidators,
       initWithBlock,
       submitter, deposit, withdraw, addLightClientBlock, challenge, allVars, vars
  <2> QED
    BY <1>5, <2>1 DEF watchVars, WatchedTick, Tick
<1> QED
  BY Zenon, <1>1, <1>2, <1>3, <1>4, <1>5 DEF WatchNext, watchdog, allVars

-----------------------------------------------------------------------------
(* A block that is added is signed by producers of its epoch's slot, which *)
(* addLightClientBlock does not overwrite.                                 *)
LEMMA AddedSigners ==
  ASSUME IInv, NEW s \in Accounts, NEW b \in LightClientBlocks, addLightClientBlock(s, b)
  PROVE  /\ now' = now /\ Added' = now
         /\ untrusted'.signatureSet \subseteq 0 .. epochs'[UntrustedEpoch'].numBPs - 1
<1>1. /\ curEpoch' = CommittedEpoch /\ epochs' = NextEpochs(b)
      /\ untrusted'.nextEpoch = FromNextEpoch(b)
      /\ untrusted'.signatureSet = Approving(b, epochs[EpochOf(b)])
  BY Zenon DEF addLightClientBlock, Untrusted
<1>2. now' = now /\ Added' = now
  BY Amounts DEF IInv, TypeOK, addLightClientBlock, Added
<1> QED
  BY <1>1, <1>2, Amounts
     DEF IInv, Approving, UntrustedEpoch, EpochOf, NextEpochs, TypeOK, CommittedEpoch, Slot

(* The loop's bound covers the signatures of every pending block. *)
LEMMA SignersKept == IInv /\ Rounds /\ PendingSigners /\ [WatchNext]_allVars => PendingSigners'
  BY SameBlock, Numbers, AddedSigners, StepKinds DEF PendingSigners, Rounds, Added

(* The watchdog's own steps: readBridgeState sees the bad block, with all  *)
(* its signatures ahead; the loop does not pass a bad signature; and a     *)
(* challenge that reverts was not about one of a block older than the      *)
(* round.                                                                  *)
LEMMA LoopKeeps ==
  ASSUME WInv, watchdog, BadPending, UNCHANGED <<chainVars, pendingVars>>
  PROVE  BadAhead'
<1> USE Numbers, SameBlock DEF WInv, Rounds
<1>1. CASE sendChallenge
  BY <1>1, BadIsAccepted DEF sendChallenge, challenge, BadAhead, Added, EndRound
<1> QED
  BY <1>1, InTime
     DEF watchdog, BadPending, PendingSigners, BadSignature, readBridgeState, BridgeState,
         BadAhead, checkBlockProducerSignature, Added, EndRound, challengeFails, viewFails, wake

(* A block that is added now is newer than the round under way. *)
LEMMA BadAheadKept == WInv /\ [WatchNext]_allVars => BadAhead'
  BY SameBlock, LoopKeeps, AddedSigners, Numbers, StepKinds
     DEF WInv, Rounds, BadAhead, watchVars, WatchNext, allVars, BadPending

-----------------------------------------------------------------------------
(* The ETH of the contract. *)

(* A step deposits a bond, returns or takes one, or moves ETH within the   *)
(* surplus.                                                                *)
LEMMA EthMoves ==
  ASSUME IInv, [Next]_vars
  PROVE  \/ UNCHANGED balanceOf /\ ethBalance' - surplus' = ethBalance - surplus
         \/ \E a \in Accounts :
              /\ balanceOf[a] = 0 /\ balanceOf' = [balanceOf EXCEPT ![a] = lockEthAmount]
              /\ ethBalance' - surplus' = ethBalance - surplus + lockEthAmount
         \/ \E a \in Accounts :
              /\ balanceOf[a] # 0 /\ balanceOf' = [balanceOf EXCEPT ![a] = 0]
              /\ ethBalance' - surplus' = ethBalance - surplus - lockEthAmount
<1>1. ASSUME NEW s \in Accounts, deposit(s)
      PROVE  /\ balanceOf[s] = 0 /\ balanceOf' = [balanceOf EXCEPT ![s] = lockEthAmount]
             /\ ethBalance' - surplus' = ethBalance - surplus + lockEthAmount
  BY <1>1, Amounts, Quantities DEF IInv, deposit
<1>2. ASSUME NEW s \in Accounts, withdraw(s)
      PROVE  /\ balanceOf[s] # 0 /\ balanceOf' = [balanceOf EXCEPT ![s] = 0]
             /\ ethBalance' - surplus' = ethBalance - surplus - lockEthAmount
  BY <1>2, Amounts, Quantities DEF IInv, withdraw
<1>3. ASSUME NEW s \in Accounts, NEW i \in Producers, challenge(s, i)
      PROVE  /\ lastSubmitter \in Accounts /\ balanceOf[lastSubmitter] # 0
             /\ balanceOf' = [balanceOf EXCEPT ![lastSubmitter] = 0]
             /\ ethBalance' - surplus' = ethBalance - surplus - lockEthAmount
  <2>1. /\ lastSubmitter \in Accounts /\ balanceOf[lastSubmitter] # 0
        /\ balanceOf[lastSubmitter] - lockEthAmount = 0
        /\ ethBalance' - surplus' = ethBalance - surplus - lockEthAmount
    BY <1>3, Amounts, Quantities DEF IInv, BondCoversChallenge, challenge, Reward
  <2> QED
    BY Zenon, <1>3, <2>1 DEF challenge, IInv
<1>4. ASSUME NEW s \in Accounts, NEW amount \in AdminAmounts,
             adminSendEth(s, amount) \/ adminReceiveEth(s, amount)
      PROVE  UNCHANGED balanceOf /\ ethBalance' - surplus' = ethBalance - surplus
  BY <1>4, Amounts, Quantities DEF IInv, adminSendEth, adminReceiveEth
<1>5. CASE UNCHANGED ethVars
  BY Zenon, <1>5 DEF ethVars
<1> QED
  BY <1>1, <1>2, <1>3, <1>4, <1>5
     DEF Next, Tick, initWithValidators, initWithBlock, addLightClientBlock, adminPause,
         vars

Size(S) == Cardinality(S)
Finite(S) == IsFiniteSet(S)

(* What FiniteSets defines. *)
LEMMA FiniteSetsDefines ==
  \A S : /\ Size(S) = LET CS[T \in SUBSET S] ==
                            IF T = {} THEN 0 ELSE 1 + CS[T \ {CHOOSE x : x \in T}]
                      IN  CS[S]
         /\ Finite(S) <=> \E seq \in Seq(S) : \A s \in S : \E n \in 1 .. Len(seq) : seq[n] = s
  BY Zenon DEF Size, Finite, Cardinality, IsFiniteSet

(* The library's facts about finite sets come last: nothing above needs    *)
(* them.                                                                   *)
LOCAL INSTANCE FiniteSetTheorems

(* The library's Cardinality is the one the contract's module uses. *)
LEMMA SameFiniteSets == \A S : Size(S) = Cardinality(S) /\ (Finite(S) <=> IsFiniteSet(S))
  BY Zenon, FiniteSetsDefines DEF Cardinality, IsFiniteSet

(* The accounts with a deposit, before and after one deposits or loses it. *)
LEMMA DepositorsCounted ==
  ASSUME TypeOK
  PROVE  /\ Size(Depositors) \in Nat
         /\ \A a \in Accounts : balanceOf[a] # 0 => Size(Depositors) >= 1
         /\ balanceOf' = balanceOf => Size(Depositors') = Size(Depositors)
         /\ \A a \in Accounts :
              /\ balanceOf[a] = 0 /\ balanceOf' = [balanceOf EXCEPT ![a] = lockEthAmount]
                   => Size(Depositors') = Size(Depositors) + 1
              /\ balanceOf[a] # 0 /\ balanceOf' = [balanceOf EXCEPT ![a] = 0]
                   => Size(Depositors') = Size(Depositors) - 1
<1>1. IsFiniteSet(Depositors) /\ Cardinality(Depositors) \in Nat
  BY Zenon, SameFiniteSets, ConstantTypes, FS_Subset, FS_CardinalityType DEF Depositors, Finite
<1>2. ASSUME NEW a \in Accounts, balanceOf[a] # 0
      PROVE  Cardinality(Depositors) >= 1
  BY <1>1, <1>2, FS_EmptySet DEF Depositors
<1>3. ASSUME NEW a \in Accounts, balanceOf[a] = 0,
             balanceOf' = [balanceOf EXCEPT ![a] = lockEthAmount]
      PROVE  Cardinality(Depositors') = Cardinality(Depositors) + 1
  <2>1. Depositors' = Depositors \cup {a} /\ a \notin Depositors
    BY <1>3, Amounts DEF Depositors, TypeOK
  <2> QED
    BY Zenon, <1>1, <2>1, FS_AddElement
<1>4. ASSUME NEW a \in Accounts, balanceOf[a] # 0, balanceOf' = [balanceOf EXCEPT ![a] = 0]
      PROVE  Cardinality(Depositors') = Cardinality(Depositors) - 1
  <2>1. Depositors' = Depositors \ {a} /\ a \in Depositors
    BY Zenon, <1>4 DEF Depositors, TypeOK
  <2> QED
    BY Zenon, <1>1, <2>1, FS_RemoveElement
<1>5. balanceOf' = balanceOf => Depositors' = Depositors
  BY Zenon DEF Depositors
<1> QED
  BY Zenon, <1>1, <1>2, <1>3, <1>4, <1>5, SameFiniteSets

(* What the contract holds is what the depositors own and the surplus. *)
LEMMA EthStep == IInv /\ EthAccounted /\ [Next]_vars => EthAccounted'
<1> SUFFICES ASSUME IInv, EthAccounted, [Next]_vars PROVE EthAccounted'
  BY Zenon
<1>1. /\ Size(Depositors) \in Nat /\ lockEthAmount \in Nat
      /\ ethBalance \in Nat /\ surplus \in Int /\ ethBalance' \in Nat /\ surplus' \in Int
  BY Zenon, NextInv, DepositorsCounted, Amounts DEF IInv, TypeOK
<1>2. PICK owed \in Nat : /\ owed = lockEthAmount * Size(Depositors)
                          /\ lockEthAmount * (Size(Depositors) + 1) = owed + lockEthAmount
                          /\ lockEthAmount * (Size(Depositors) - 1) = owed - lockEthAmount
  BY <1>1
<1> QED
  BY <1>1, EthMoves, DepositorsCounted DEF EthAccounted, Size, IInv

(* At first nobody has deposited and nothing is there. *)
LEMMA EthInit == Init => EthAccounted
<1> SUFFICES ASSUME Init PROVE EthAccounted
  BY Zenon
<1>1. Depositors = {}
  BY Zenon DEF Init, Depositors
<1> QED
  BY <1>1, SameFiniteSets, FS_EmptySet, Amounts DEF Init, EthAccounted, Size

(* The contract's ETH is exactly the bonds owed plus the surplus. *)
THEOREM Accounting == Spec => []EthAccounted
  BY Invariance, EthInit, EthStep, PTL DEF Spec

(* So every single bond is there. *)
LEMMA BondsBacked == IInv /\ EthAccounted => Backed
  BY DepositorsCounted, Amounts, Quantities DEF Backed, IInv, EthAccounted, Size

(* The watchdog starts beside a contract without blocks. *)
LEMMA WatchInitInv == WatchInit => EthAccounted /\ WInv
  BY InitInv, EthInit, BondsBacked, WatchdogInTime, ConstantTypes
     DEF WatchInit, WInv, Init, Funded, Rounds, WatchTypeOK, PendingSigners, BadAhead,
         BadPending

(* The invariant of the contract and its watchdog. *)
THEOREM WatchInvariance == WatchSpec => []WInv
<1>1. EthAccounted /\ WInv /\ [WatchNext]_allVars => (EthAccounted /\ WInv)'
  <2>1. (IInv /\ EthAccounted => Backed)'
    BY BondsBacked, PTL
  <2> QED
    BY Zenon, <2>1, WatchedStep, NextInv, EthStep, FundedKept, RoundsKept, SignersKept,
       BadAheadKept DEF WInv
<1> QED
  BY <1>1, WatchInitInv, PTL DEF WatchSpec

(* The counters of the watchdog's loop stay in range, whatever happens to  *)
(* the contract between its calls.                                         *)
THEOREM WatchTypes == WatchSpec => []WatchTypeOK
<1>1. WInv => WatchTypeOK
  BY Zenon DEF WInv, Rounds
<1> QED
  BY <1>1, WatchInvariance, PTL

(* No block with a bad signature is ever confirmed by NearBridge beside a  *)
(* watchdog whose rounds, from reading bridgeState to the mined challenge, *)
(* are shorter than lockDuration.                                          *)
THEOREM OptimisticSafety == WatchSpec => []BadBlockNeverConfirmed
<1>1. WInv => BadBlockNeverConfirmed
  BY InTime, Numbers DEF BadBlockNeverConfirmed, WInv, Rounds, Challengeable, Matured
<1> QED
  BY <1>1, WatchInvariance, PTL
=============================================================================
