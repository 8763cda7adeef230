-------------------------- MODULE NearBridgeProofs --------------------------
(***************************************************************************)
(* Safety of the NearBridge contract, for any number of accounts, blocks,  *)
(* validators and any durations the constructor accepts.                   *)
(***************************************************************************)
EXTENDS NearBridge, TLAPS
USE SMTT(30)

(* The strengthening.  Stored heights do not exceed curHeight, and a block *)
(* that is pending or matured lies strictly above it.                      *)
HeadInv ==
  /\ ~initialized => /\ lastValidAt = 0
                     /\ curHeight = 0
                     /\ \A h \in Heights : blockHashes_[h] = Zero
                                           /\ blockMerkleRoots_[h] = Zero
  /\ \A h \in Heights :
       blockHashes_[h] # Zero \/ blockMerkleRoots_[h] # Zero => h <= curHeight
  /\ initialized => /\ curHeight \in Heights
                    /\ blockHashes_[curHeight] # Zero
                    /\ blockMerkleRoots_[curHeight] # Zero
  /\ lastValidAt # 0 => /\ untrusted.height \in Heights
                        /\ untrusted.height > curHeight
                        /\ untrusted.hash # Zero
                        /\ untrusted.merkleRoot # Zero

IInv == TypeOK /\ BondCoversChallenge /\ HeadInv

-----------------------------------------------------------------------------
(* The constants that are numbers. *)
LEMMA Amounts ==
  /\ lockEthAmount \in Nat \ {0} /\ MAX_BLOCK_PRODUCERS \in Nat \ {0}
  /\ lockDuration \in Nat /\ Zero \notin Accounts /\ AdminAmounts \subseteq Nat
  BY Zenon, ConstantTypes, ConstructorRequire

(* The variables that are numbers. *)
LEMMA Quantities ==
  TypeOK => /\ now \in Nat \ {0} /\ lastValidAt \in Nat /\ curHeight \in Nat
            /\ ethBalance \in Nat /\ surplus \in Int
            /\ \A a \in Accounts : balanceOf[a] \in {0, lockEthAmount}
  BY Zenon DEF TypeOK

(* setBlockProducers leaves a well-formed Epoch whatever the slot held. *)
LEMMA SetBlockProducersType ==
  ASSUME NEW bps, IsProducerList(bps), Len(bps) <= MAX_BLOCK_PRODUCERS,
         bps \in ProducerLists,
         NEW epoch \in EpochType, NEW id \in EpochIds \cup {Zero}
  PROVE  SetBlockProducers(bps, epoch, id) \in EpochType
<1> DEFINE cnt == Len(bps)
           stake(i) == IF i < cnt THEN bps[i + 1].stake ELSE 0
           ks == [i \in Producers |-> IF i < cnt THEN bps[i + 1].key ELSE epoch.keys[i]]
           ps == [j \in StakeWords |->
                   IF 2 * j < cnt THEN <<stake(2 * j), stake(2 * j + 1)>>
                   ELSE epoch.packedStakes[j]]
           th == (2 * SumFunction(StakeList(bps))) \div 3
<1>1. cnt \in 0 .. MAX_BLOCK_PRODUCERS
  BY Amounts DEF IsProducerList
<1>2. ks \in [Producers -> Keys]
  <2>1. ASSUME NEW i \in Producers, i < cnt
        PROVE  bps[i + 1].key \in Keys
    BY <1>1, <2>1, Amounts DEF Producers, Keys
  <2> QED
    BY Zenon, <2>1 DEF EpochType
<1>3. ps \in [StakeWords -> Nat \X Nat]
  <2>1. ASSUME NEW j \in StakeWords
        PROVE  stake(2 * j) \in Nat /\ stake(2 * j + 1) \in Nat
    BY <1>1, Amounts DEF StakeWords, IsProducerList
  <2> HIDE DEF stake, cnt
  <2> QED
    BY Zenon, <2>1 DEF EpochType
<1>4. th \in Nat
  BY DEF StakeList, IsProducerList, SumFunction
<1>5. SetBlockProducers(bps, epoch, id) =
        [epochId |-> id, numBPs |-> cnt, keys |-> ks, packedStakes |-> ps,
         stakeThreshold |-> th]
  BY Zenon DEF SetBlockProducers
<1> HIDE DEF cnt, ks, ps, th
<1> QED
  BY <1>1, <1>2, <1>3, <1>4, <1>5 DEF EpochType

(* The constructor establishes the invariant. *)
LEMMA InitInv == Init => IInv
<1> SUFFICES ASSUME Init PROVE IInv
  BY Zenon
<1>1. TypeOK
  <2>1. initialized \in BOOLEAN
    BY Zenon DEF Init
  <2> QED
    BY <2>1, ConstantTypes
       DEF TypeOK, Init, EmptyEpoch, EpochType, UntrustedType, Hashes, MerkleRoots,
           NextHashes, Keys, Signatures
<1> QED
  BY <1>1 DEF IInv, Init, BondCoversChallenge, HeadInv, Challengeable

(* Frame lemmas: what a step leaves alone keeps its part of the invariant. *)
LEMMA HeadFrame == HeadInv /\ UNCHANGED <<chainVars, pendingVars>> => HeadInv'
  BY DEF HeadInv, chainVars, pendingVars

(* Operations on bonds: the pending block's submitter stays bonded. *)
LEMMA DepositInv == ASSUME NEW s \in Accounts, IInv, deposit(s) PROVE IInv'
<1> USE DEF IInv, deposit
<1> QED
  BY Amounts, HeadFrame
     DEF TypeOK, chainVars, pendingVars, BondCoversChallenge, Challengeable

(* A withdrawal pays one bond and clears one balance. *)
LEMMA WithdrawInv == ASSUME NEW s \in Accounts, IInv, withdraw(s) PROVE IInv'
<1> USE DEF IInv, withdraw
<1> QED
  BY Amounts, HeadFrame
     DEF TypeOK, chainVars, pendingVars, BondCoversChallenge, Challengeable, MayWithdraw

(* A challenge takes the whole bond and clears the pending block. *)
LEMMA ChallengeInv ==
  ASSUME NEW s \in Accounts, NEW i \in Producers, IInv, challenge(s, i) PROVE IInv'
<1> USE DEF IInv, challenge
<1>1. balanceOf' = [balanceOf EXCEPT ![lastSubmitter] = 0]
  <2>1. lastSubmitter \in Accounts /\ balanceOf[lastSubmitter] - lockEthAmount = 0
    BY Amounts DEF BondCoversChallenge
  <2> QED
    BY Zenon, <2>1 DEF TypeOK
<1>2. balanceOf' \in [Accounts -> {0, lockEthAmount}]
  BY Zenon, <1>1 DEF TypeOK
<1>3. ethBalance' \in Nat /\ surplus' \in Int /\ lastValidAt' \in Nat
  BY Amounts, Quantities DEF Reward
<1>4. TypeOK'
  BY Zenon, <1>2, <1>3 DEF TypeOK, chainVars
<1> QED
  BY <1>4, Quantities DEF HeadInv, chainVars, BondCoversChallenge, Challengeable

(* The first stage of initialisation only writes slot 0 of the ring. *)
LEMMA InitWithValidatorsInv ==
  ASSUME NEW s \in Accounts, NEW v \in InitialValidators, IInv, initWithValidators(s, v)
  PROVE  IInv'
<1> USE DEF IInv, initWithValidators
<1>1. epochs' \in [0 .. 2 -> EpochType]
  <2>1. epochs[0] \in EpochType /\ epochs[0].epochId \in EpochIds \cup {Zero}
    BY DEF TypeOK, EpochType
  <2> QED
    BY Zenon, <2>1, ConstantTypes, SetBlockProducersType DEF TypeOK, ProducerLists
<1> QED
  BY Zenon, <1>1
     DEF TypeOK, pendingVars, ethVars, HeadInv, BondCoversChallenge, Challengeable

(* The two lists a block brings are typed. *)
LEMMA BlockFacts ==
  ASSUME NEW b \in LightClientBlocks
  PROVE  /\ IsBlock(b) /\ b.height \in Heights /\ b.height \in Nat
         /\ b.hash \in Hashes /\ b.merkleRoot \in MerkleRoots
         /\ b.nextHash \in NextHashes
         /\ b.nextBps # Zero => b.nextBps \in ProducerLists /\ IsProducerList(b.nextBps)
  BY Zenon, ConstantTypes DEF Heights, Hashes, MerkleRoots, NextHashes, ProducerLists, IsBlock

(* The initial head is stored with its hash and merkle root. *)
LEMMA InitWithBlockInv ==
  ASSUME NEW s \in Accounts, NEW b \in InitialBlocks, IInv, initWithBlock(s, b)
  PROVE  IInv'
<1> USE DEF IInv, initWithBlock
<1>1. /\ b.height \in Heights /\ b.height \in Nat
      /\ b.hash \in Hashes /\ b.merkleRoot \in MerkleRoots
      /\ b.hash # Zero /\ b.merkleRoot # Zero
      /\ b.epochId \in EpochIds /\ b.nextEpochId \in EpochIds
  BY Zenon, ConstantTypes, BlockFacts DEF IsBlock
<1>2. epochs' \in [0 .. 2 -> EpochType]
  <2>1. epochs[0] \in EpochType /\ epochs[1] \in EpochType
    BY DEF TypeOK
  <2>2. SetBlockProducers(b.nextBps, epochs[1], b.nextEpochId) \in EpochType
    BY Zenon, <1>1, <2>1, ConstantTypes, BlockFacts, SetBlockProducersType
  <2>3. [epochs[0] EXCEPT !.epochId = b.epochId] \in EpochType
    BY Zenon, <1>1, <2>1 DEF EpochType
  <2> QED
    BY Zenon, <2>2, <2>3 DEF TypeOK
<1>3. /\ TypeOK'
      /\ HeadInv'
  BY <1>1, <1>2 DEF TypeOK, pendingVars, ethVars, HeadInv
<1> QED
  BY Zenon, <1>3 DEF BondCoversChallenge, Challengeable, pendingVars, ethVars

(* addLightClientBlock: the commit writes above every stored height, and   *)
(* the new pending block lies above what was just committed.               *)
LEMMA AddBlockTypes ==
  ASSUME NEW s \in Accounts, NEW b \in LightClientBlocks, IInv, addLightClientBlock(s, b)
  PROVE  TypeOK'
<1> USE DEF IInv, addLightClientBlock
<1>1. /\ CommittedEpoch \in 0 .. 2 /\ EpochOf(b) \in 0 .. 2 /\ Slot(CommittedEpoch + 2) \in 0 .. 2
      /\ epochs' \in [0 .. 2 -> EpochType]
  BY BlockFacts, SetBlockProducersType
     DEF TypeOK, CommittedEpoch, EpochOf, Slot, ValidNextBps, IsBlock, NextEpochs
<1> HIDE DEF addLightClientBlock
<1>2. untrusted' \in UntrustedType
  <2> DEFINE signers == Approving(b, epochs[EpochOf(b)])
             sigs == [i \in Producers |-> IF i \in signers THEN b.approvals[i + 1]
                                          ELSE untrusted.signatures[i]]
  <2>1. epochs[EpochOf(b)].numBPs \in 0 .. MAX_BLOCK_PRODUCERS
    BY Zenon, <1>1 DEF TypeOK, EpochType
  <2>2. signers \subseteq Producers
    BY <2>1, Amounts DEF Approving, Producers
  <2>3. sigs \in [Producers -> Signatures]
    <3>1. ASSUME NEW i \in signers PROVE b.approvals[i + 1] \in Signatures
      <4>1. i + 1 \in 1 .. Len(b.approvals)
        BY <3>1, <2>1, BlockFacts DEF Approving, addLightClientBlock, ValidApprovals, IsBlock
      <4> QED
        BY <4>1 DEF Signatures
    <3> QED
      BY Zenon, <3>1 DEF TypeOK, UntrustedType
  <2>4. untrusted' =
          [height |-> b.height, timestamp |-> b.timestamp, nextEpoch |-> FromNextEpoch(b),
           hash |-> b.hash, merkleRoot |-> b.merkleRoot, nextHash |-> b.nextHash,
           signatureSet |-> signers, signatures |-> sigs]
    BY Zenon DEF Untrusted, addLightClientBlock
  <2> HIDE DEF signers, sigs
  <2> QED
    BY Zenon, <2>2, <2>3, <2>4, BlockFacts DEF UntrustedType, FromNextEpoch, IsBlock
<1>3. blockHashes_' \in [Heights -> Hashes] /\ blockMerkleRoots_' \in [Heights -> MerkleRoots]
  <2>1. untrusted.hash \in Hashes /\ untrusted.merkleRoot \in MerkleRoots
    BY Zenon DEF TypeOK, UntrustedType
  <2> QED
    BY Zenon, <2>1 DEF TypeOK, Commit, addLightClientBlock
<1> QED
  BY <1>1, <1>2, <1>3, Amounts, Quantities
     DEF TypeOK, ethVars, CommittedHeight, UntrustedType, addLightClientBlock

(* Committing and replacing keep the head, the bond and the accounts. *)
LEMMA AddBlockInv ==
  ASSUME NEW s \in Accounts, NEW b \in LightClientBlocks, IInv, addLightClientBlock(s, b)
  PROVE  IInv'
<1> USE DEF IInv
<1>1. HeadInv'
  <2>1. /\ curHeight' \in Heights
        /\ blockHashes_'[curHeight'] # Zero /\ blockMerkleRoots_'[curHeight'] # Zero
        /\ \A h \in Heights : blockHashes_'[h] # Zero \/ blockMerkleRoots_'[h] # Zero
                              => h <= curHeight'
    BY BlockFacts
       DEF HeadInv, Matured, CommittedHeight, Commit, Heights, TypeOK, addLightClientBlock
  <2> QED
    BY Zenon, <2>1, BlockFacts DEF HeadInv, addLightClientBlock, Untrusted, ValidHeight, IsBlock
<1> QED
  BY <1>1, Amounts, Quantities, AddBlockTypes
     DEF addLightClientBlock, HasBond, ethVars, BondCoversChallenge

(* The clock and the admin's operations. *)
LEMMA TickInv == IInv /\ Tick => IInv'
  BY Quantities, HeadFrame
     DEF IInv, Tick, TypeOK, chainVars, pendingVars, ethVars, BondCoversChallenge,
         Challengeable

(* The admin moves ETH within the surplus and leaves the rest alone. *)
LEMMA AdminInv ==
  ASSUME NEW s \in Accounts, IInv,
         \/ \E flags \in PauseSettings : adminPause(s, flags)
         \/ \E amount \in AdminAmounts : adminSendEth(s, amount) \/ adminReceiveEth(s, amount)
  PROVE  IInv'
<1> USE DEF IInv
<1>1. ASSUME NEW amount \in AdminAmounts, adminSendEth(s, amount) \/ adminReceiveEth(s, amount)
      PROVE  IInv'
  <2>1. /\ UNCHANGED <<now, paused, chainVars, pendingVars, balanceOf>>
        /\ ethBalance' \in Nat /\ surplus' \in Int
    BY <1>1, Amounts, Quantities DEF adminSendEth, adminReceiveEth
  <2> QED
    BY Zenon, <2>1, HeadFrame
       DEF TypeOK, chainVars, pendingVars, BondCoversChallenge, Challengeable
<1> QED
  BY <1>1, ConstantTypes, HeadFrame
     DEF adminPause, TypeOK, chainVars, pendingVars, ethVars, BondCoversChallenge,
         Challengeable

(* One case per action. *)
LEMMA NextInv == IInv /\ [Next]_vars => IInv'
<1> SUFFICES ASSUME IInv, [Next]_vars PROVE IInv'
  BY Zenon
<1>1. CASE UNCHANGED vars
  BY Zenon, <1>1, HeadFrame
     DEF IInv, TypeOK, vars, chainVars, pendingVars, ethVars, BondCoversChallenge,
         Challengeable
<1> QED
  BY Zenon, <1>1, AdminInv, DepositInv, WithdrawInv, ChallengeInv, InitWithValidatorsInv,
     InitWithBlockInv, AddBlockInv, TickInv DEF Next

(* What the invariant says that is of interest outside this module. *)
LEMMA Consequences == IInv => TypeOK /\ BondCoversChallenge /\ ReportedHeadHasHash
  BY Zenon DEF IInv, HeadInv, TypeOK, ReportedHeadHasHash, currentHeight, blockHashes,
         blockMerkleRoots, Matured

(* The inductive invariant holds in every reachable state. *)
THEOREM Invariance == Spec => []IInv
  BY InitInv, NextInv, PTL DEF Spec

(* The storage keeps its types and bonds stay all or nothing. *)
THEOREM TypeCorrect == Spec => []TypeOK
  BY Invariance, Consequences, PTL

(* A block that can be challenged is bonded: challenge() always slashes. *)
THEOREM Bonded == Spec => []BondCoversChallenge
  BY Invariance, Consequences, PTL

(* The height bridgeState() reports always has a hash and a merkle root. *)
THEOREM ReportedHead == Spec => []ReportedHeadHasHash
  BY Invariance, Consequences, PTL

-----------------------------------------------------------------------------
(* What a step may never do. *)

HashesKept ==
  \A h \in Heights :
    /\ blockHashes(h) # Zero => blockHashes(h)' = blockHashes(h)
    /\ blockMerkleRoots(h) # Zero => blockMerkleRoots(h)' = blockMerkleRoots(h)

HeadKept == curHeight' >= curHeight /\ (initialized => currentHeight' >= currentHeight)

(* The steps other than challenge, initialisation and addLightClientBlock  *)
(* leave the chain alone while time does not go back.                      *)
LEMMA QuietStep ==
  ASSUME IInv, Next,
         ~\E s \in Accounts :
            \/ \E i \in Producers : challenge(s, i)
            \/ \E v \in InitialValidators : initWithValidators(s, v)
            \/ \E b \in InitialBlocks : initWithBlock(s, b)
            \/ \E b \in LightClientBlocks : addLightClientBlock(s, b)
  PROVE  UNCHANGED <<chainVars, pendingVars>> /\ now' \in Nat /\ now' >= now
  BY DEF IInv, TypeOK, Tick, deposit, withdraw, adminPause, adminSendEth, adminReceiveEth,
         Next

(* Time alone turns a pending block into a reported one. *)
LEMMA QuietKeeps ==
  ASSUME IInv, UNCHANGED <<chainVars, pendingVars>>, now' \in Nat, now' >= now
  PROVE  HashesKept /\ HeadKept
  BY DEF IInv, TypeOK, UntrustedType, Matured, pendingVars, HashesKept, blockHashes,
         blockMerkleRoots, chainVars, HeadInv, HeadKept, currentHeight

(* A challenge only drops a block that no view has reported. *)
LEMMA ChallengeKeeps ==
  ASSUME NEW s \in Accounts, NEW i \in Producers, IInv, challenge(s, i)
  PROVE  HashesKept /\ HeadKept
  BY DEF IInv, TypeOK, challenge, Challengeable, Matured, HashesKept, blockHashes,
         blockMerkleRoots, chainVars, HeadKept, currentHeight

(* Initialisation starts from a chain that reports nothing. *)
LEMMA InitialisationKeeps ==
  ASSUME NEW s \in Accounts, IInv,
         \/ \E v \in InitialValidators : initWithValidators(s, v)
         \/ \E b \in InitialBlocks : initWithBlock(s, b)
  PROVE  HashesKept /\ HeadKept
<1>1. /\ ~initialized /\ curHeight' \in Nat
  <2>1. IInv'
    BY Zenon, InitWithValidatorsInv, InitWithBlockInv
  <2> QED
    BY Zenon, <2>1 DEF initWithValidators, initWithBlock, IInv, TypeOK
<1> QED
  BY <1>1 DEF HashesKept, blockHashes, blockMerkleRoots, Matured, IInv, HeadInv, HeadKept

(* A commit stores exactly what the views reported before it. *)
LEMMA AddBlockKeeps ==
  ASSUME NEW s \in Accounts, NEW b \in LightClientBlocks, IInv, addLightClientBlock(s, b)
  PROVE  HashesKept /\ HeadKept
  BY BlockFacts
     DEF addLightClientBlock, Untrusted, ValidHeight, IInv, TypeOK, UntrustedType, Matured,
         HeadInv, Commit, blockHashes, blockMerkleRoots, HashesKept, CommittedHeight,
         currentHeight, HeadKept

(* Every step keeps what the views returned. *)
LEMMA StepKeeps == IInv /\ [Next]_vars => [HashesKept /\ HeadKept]_vars
  BY Zenon, ChallengeKeeps, InitialisationKeeps, AddBlockKeeps, QuietStep, QuietKeeps

(* What blockHashes() and blockMerkleRoots() once returned for a height    *)
(* they return for ever.                                                   *)
THEOREM ConfirmedBlocksAreFinal == Spec => ConfirmedForever
<1>1. [HashesKept /\ HeadKept]_vars =>
        [\A h \in Heights :
          /\ blockHashes(h) # Zero => blockHashes(h)' = blockHashes(h)
          /\ blockMerkleRoots(h) # Zero => blockMerkleRoots(h)' = blockMerkleRoots(h)]_vars
  BY Zenon DEF HashesKept
<1> QED
  BY <1>1, StepKeeps, Invariance, PTL DEF Spec, ConfirmedForever

(* The confirmed height, stored or reported, never goes back. *)
THEOREM HeadIsMonotonic == Spec => HeadNeverRegresses
<1>1. [HashesKept /\ HeadKept]_vars =>
        [curHeight' >= curHeight /\ (initialized => currentHeight' >= currentHeight)]_vars
  BY Zenon DEF HeadKept
<1> QED
  BY <1>1, StepKeeps, Invariance, PTL DEF Spec, HeadNeverRegresses

(* A fresh block can only be replaced by one that claims a timestamp in    *)
(* the future: replaceDuration exceeds lockDuration.                       *)
THEOREM FreshBlocksStay == Spec => FreshBlockNotReplaced
<1>1. IInv => \A s \in Accounts, b \in LightClientBlocks :
        Challengeable /\ addLightClientBlock(s, b) /\ b.timestamp <= now * NanosPerSecond
        => (lastValidAt - lockDuration) * NanosPerSecond - untrusted.timestamp
             > replaceDuration - lockDuration * NanosPerSecond
  <2> SUFFICES ASSUME IInv, NEW s \in Accounts, NEW b \in LightClientBlocks,
                      Challengeable, addLightClientBlock(s, b),
                      b.timestamp <= now * NanosPerSecond
               PROVE  (lastValidAt - lockDuration) * NanosPerSecond - untrusted.timestamp
                        > replaceDuration - lockDuration * NanosPerSecond
    BY Zenon
  <2>1. /\ now \in Nat /\ lastValidAt \in Nat /\ untrusted.timestamp \in Nat
        /\ b.timestamp \in Nat
    BY Zenon, BlockFacts DEF IInv, TypeOK, UntrustedType, IsBlock
  <2>2. b.timestamp >= untrusted.timestamp + replaceDuration /\ now < lastValidAt
    BY Zenon, <2>1 DEF addLightClientBlock, MayReplace, Challengeable
  <2>3. now * NanosPerSecond < lastValidAt * NanosPerSecond
    <3>1. \A m, n \in Nat, k \in Nat \ {0} : m < n => m * k < n * k
      OBVIOUS
    <3> QED
      BY Zenon, <2>1, <2>2, <3>1, ConstructorRequire
  <2>4. /\ (lastValidAt - lockDuration) * NanosPerSecond
             = lastValidAt * NanosPerSecond - lockDuration * NanosPerSecond
        /\ now * NanosPerSecond \in Nat /\ lastValidAt * NanosPerSecond \in Nat
        /\ lockDuration * NanosPerSecond \in Nat
    <3>1. \A m, n \in Nat : m * n \in Nat
      OBVIOUS
    <3> QED
      BY <2>1, <3>1, ConstructorRequire
  <2> QED
    BY <2>1, <2>2, <2>3, <2>4, ConstructorRequire
<1> QED
  BY PTL, <1>1, Invariance DEF FreshBlockNotReplaced


-----------------------------------------------------------------------------
(* The ring of validator sets: which blocks its slots come from, what      *)
(* quorum a pending block has, and why an honest submitter is safe.        *)

AllGenuine ==
  \A h \in Heights : blockHashes_[h] # Zero => GenuineHash(blockHashes_[h])

(* The slot of the current epoch. *)
CurrentSlot ==
  \E l \in ProducerLists :
    /\ Holds(epochs[curEpoch], epochs[curEpoch].epochId, l)
    /\ AllGenuine => l = ValidatorsOf[epochs[curEpoch].epochId]

(* The slot of the next epoch. *)
NextSlot ==
  \E b \in LightClientBlocks :
    /\ b.nextBps # Zero /\ blockHashes_[b.height] = b.hash
    /\ Announced(b, curEpoch)
    /\ AllGenuine => b.nextBps = ValidatorsOf[b.nextEpochId]

(* The pending block and the slot it wrote. *)
PendingSlot ==
  \E b \in LightClientBlocks :
    /\ untrusted.hash = b.hash /\ untrusted.height = b.height
    /\ untrusted.nextEpoch = TRUE =>
         /\ b.nextBps # Zero /\ b.nextBps = b.nextBpHash
         /\ Announced(b, Slot(curEpoch + 1))
    /\ untrusted.nextEpoch = FALSE => b.epochId = epochs[curEpoch].epochId

EpochInv ==
  /\ ~initialized /\ epochs[0].numBPs # 0 =>
       \E v \in InitialValidators : Holds(epochs[0], epochs[0].epochId, v)
  /\ ~initialized => curEpoch = 0
  /\ initialized => CurrentSlot /\ NextSlot
  /\ lastValidAt # 0 => PendingSlot /\ PendingHasQuorum

-----------------------------------------------------------------------------
(* setBlockProducers stores what it was given: unpacking the words gives   *)
(* back the stakes, for odd and even counts.                               *)
LEMMA SetBlockProducersHolds ==
  ASSUME NEW bps, IsProducerList(bps), Len(bps) <= MAX_BLOCK_PRODUCERS, NEW epoch, NEW id
  PROVE  Holds(SetBlockProducers(bps, epoch, id), id, bps)
<1> DEFINE e == SetBlockProducers(bps, epoch, id)
           stake(i) == IF i < Len(bps) THEN bps[i + 1].stake ELSE 0
<1>1. Len(bps) \in Nat
  BY Zenon DEF IsProducerList
<1>2. ASSUME NEW i \in 0 .. Len(bps) - 1
      PROVE  e.keys[i] = bps[i + 1].key
  BY <1>1, ConstantTypes DEF SetBlockProducers, Producers
<1>3. ASSUME NEW i \in 0 .. Len(bps) - 1
      PROVE  StakeOf(e, i) = bps[i + 1].stake
  <2> DEFINE j == i \div 2
  <2>1. j \in StakeWords /\ 2 * j < Len(bps)
    BY <1>1, ConstantTypes DEF StakeWords
  <2>2. e.packedStakes[j] = <<stake(2 * j), stake(2 * j + 1)>>
    BY Zenon, <2>1 DEF SetBlockProducers
  <2>3. \/ i % 2 = 0 /\ i = 2 * j
        \/ i % 2 = 1 /\ i = 2 * j + 1
    BY <1>1
  <2>4. stake(i) = bps[i + 1].stake
    BY <1>1
  <2> HIDE DEF stake, e, j
  <2>5. StakeOf(e, i) = e.packedStakes[j][1 + (i % 2)]
    BY Zenon DEF StakeOf, j
  <2> QED
    BY <2>2, <2>3, <2>4, <2>5
<1> HIDE DEF e
<1> QED
  BY Zenon, <1>2, <1>3 DEF e, Holds, SetBlockProducers

(* Approvals above the floored threshold are more than two thirds. *)
LEMMA QuorumOfHeld ==
  ASSUME NEW bps, IsProducerList(bps), NEW epoch, NEW id, Holds(epoch, id, bps),
         NEW signers \in SUBSET (0 .. epoch.numBPs - 1),
         VotedFor(epoch, signers) > epoch.stakeThreshold
  PROVE  3 * VotedFor(epoch, signers) > 2 * VotedFor(epoch, 0 .. epoch.numBPs - 1)
<1>1. \A S : VotedFor(epoch, S) = SumFunctionOnSet(StakeList(bps), S)
  BY Zenon DEF VotedFor, Holds, StakeList
<1>2. VotedFor(epoch, 0 .. epoch.numBPs - 1) \in Nat /\ VotedFor(epoch, signers) \in Nat
  BY Zenon, <1>1 DEF IsProducerList, Holds
<1> QED
  BY <1>1, <1>2 DEF Holds, SumFunction, StakeList

(* Every list the contract can be given is well formed. *)
LEMMA ListsTyped == \A l \in ProducerLists : IsProducerList(l)
  BY Zenon, BlockFacts, ConstantTypes DEF ProducerLists

(* Steps that leave the chain and the pending block alone. *)
LEMMA EpochFrame ==
  EpochInv /\ UNCHANGED <<chainVars, pendingVars>> => EpochInv'
  BY DEF EpochInv, CurrentSlot, NextSlot, PendingSlot, PendingHasQuorum, AllGenuine,
         GenuineHash, Announced, UntrustedEpoch, chainVars, pendingVars

(* Before initialisation the ring is empty. *)
LEMMA EpochInit == Init => EpochInv
  BY DEF Init, EpochInv, EmptyEpoch

(* A challenge leaves the slot the rejected block wrote, and no pending block. *)
LEMMA EpochChallenge ==
  ASSUME NEW s \in Accounts, NEW i \in Producers, EpochInv, challenge(s, i)
  PROVE  EpochInv'
  BY DEF challenge, EpochInv, CurrentSlot, NextSlot, AllGenuine, GenuineHash, Announced,
         chainVars

(* The first stage fills slot 0. *)
LEMMA EpochInitWithValidators ==
  ASSUME NEW s \in Accounts, NEW v \in InitialValidators, IInv, EpochInv,
         initWithValidators(s, v)
  PROVE  EpochInv'
  BY SetBlockProducersHolds, ConstantTypes
     DEF initWithValidators, pendingVars, IInv, HeadInv, TypeOK, Holds, EpochInv

(* The second stage fills slot 1 and names both epochs. *)
LEMMA EpochInitWithBlock ==
  ASSUME NEW s \in Accounts, NEW b \in InitialBlocks, IInv, EpochInv, initWithBlock(s, b)
  PROVE  EpochInv'
<1>1. /\ b \in LightClientBlocks /\ b.nextBps # Zero /\ Len(b.nextBps) <= MAX_BLOCK_PRODUCERS
      /\ initialized' /\ lastValidAt' = 0 /\ curEpoch' = 0
  BY Zenon, ConstantTypes DEF initWithBlock, pendingVars, IInv, HeadInv, EpochInv
<1>2. /\ epochs'[0] = [epochs[0] EXCEPT !.epochId = b.epochId]
      /\ epochs'[1] = SetBlockProducers(b.nextBps, epochs[1], b.nextEpochId)
      /\ epochs[0] \in EpochType
  BY DEF initWithBlock, IInv, TypeOK
<1>3. Holds(epochs'[1], b.nextEpochId, b.nextBps)
  BY <1>1, <1>2, SetBlockProducersHolds, BlockFacts
<1>4. PICK v \in InitialValidators : Holds(epochs[0], epochs[0].epochId, v)
  BY Zenon DEF EpochInv, initWithBlock
<1>5. Holds(epochs'[0], b.epochId, v) /\ epochs'[0].epochId = b.epochId
  BY <1>2, <1>4 DEF Holds, EpochType, StakeOf
<1>6. NextSlot'
  BY <1>1, <1>3, <1>5, GenuineInitialisation, BlockFacts
     DEF NextSlot, Announced, initWithBlock, IInv, TypeOK, Slot
<1> QED
  BY <1>1, <1>5, <1>6, GenuineInitialisation DEF EpochInv, ProducerLists, CurrentSlot

(* Committing the matured block: the slots of the committed epoch and of   *)
(* the one after it are those of confirmed blocks.                         *)
LEMMA CommitSlots ==
  ASSUME NEW s \in Accounts, NEW b \in LightClientBlocks, IInv, EpochInv,
         addLightClientBlock(s, b)
  PROVE  /\ \E l \in ProducerLists :
              /\ Holds(epochs[CommittedEpoch], epochs[CommittedEpoch].epochId, l)
              /\ AllGenuine' => l = ValidatorsOf[epochs[CommittedEpoch].epochId]
         /\ \E c \in LightClientBlocks :
              /\ c.nextBps # Zero /\ blockHashes_'[c.height] = c.hash
              /\ Announced(c, CommittedEpoch)
              /\ AllGenuine' => c.nextBps = ValidatorsOf[c.nextEpochId]
<1>1. /\ initialized /\ blockHashes_' = Commit(blockHashes_, untrusted.hash)
      /\ blockHashes_ \in [Heights -> Hashes]
      /\ curHeight \in Nat
  BY Zenon DEF addLightClientBlock, IInv, TypeOK
<1>2. ASSUME NEW h \in Heights, blockHashes_[h] # Zero
      PROVE  blockHashes_'[h] = blockHashes_[h]
  BY <1>2, <1>1, BlockFacts DEF IInv, HeadInv, Heights, Matured, Commit
<1>3. AllGenuine' => AllGenuine
  BY <1>2 DEF AllGenuine, GenuineHash
<1>4. CASE CommittedEpoch # curEpoch
  <2>1. Matured /\ untrusted.nextEpoch /\ CommittedEpoch = Slot(curEpoch + 1)
    BY Zenon, <1>4 DEF CommittedEpoch
  <2>2. PICK c \in LightClientBlocks :
          /\ untrusted.hash = c.hash /\ untrusted.height = c.height
          /\ c.nextBps # Zero /\ c.nextBps = c.nextBpHash
          /\ Announced(c, Slot(curEpoch + 1))
    BY Zenon, <2>1 DEF EpochInv, PendingSlot, Matured, IInv, TypeOK, UntrustedType
  <2>3. PICK d \in LightClientBlocks :
          /\ d.nextBps # Zero /\ blockHashes_[d.height] = d.hash
          /\ Announced(d, curEpoch)
          /\ AllGenuine => d.nextBps = ValidatorsOf[d.nextEpochId]
    BY Zenon, <1>1 DEF NextSlot, EpochInv
  <2>4. /\ Holds(epochs[CommittedEpoch], d.nextEpochId, d.nextBps)
        /\ epochs[CommittedEpoch].epochId = d.nextEpochId
        /\ d.nextBps \in ProducerLists
    BY Zenon, <2>1, <2>3, BlockFacts DEF Announced, Holds
  <2>5. c.height \in Heights /\ c.hash # Zero /\ blockHashes_'[c.height] = c.hash
    BY Zenon, <1>1, <2>1, <2>2, BlockFacts DEF Commit, IsBlock
  <2>6. ASSUME AllGenuine' PROVE c.nextBps = ValidatorsOf[c.nextEpochId]
    <3>1. GenuineHash(c.hash)
      BY <2>5, <2>6 DEF AllGenuine
    <3>2. PICK g \in LightClientBlocks :
            g.hash = c.hash /\ g.nextBpHash = ValidatorsOf[g.nextEpochId]
      BY Zenon, <3>1 DEF GenuineHash
    <3>3. SameHeader(g, c)
      BY Zenon, <3>2, ConstantTypes
    <3> QED
      BY Zenon, <2>2, <3>2, <3>3 DEF SameHeader
  <2> QED
    BY Zenon, <1>3, <2>1, <2>2, <2>3, <2>4, <2>5, <2>6
<1> QED
  BY <1>1, <1>3, <1>2, <1>4, BlockFacts DEF CurrentSlot, NextSlot, EpochInv, IsBlock

(* The slot addLightClientBlock writes is neither of those two. *)
LEMMA SlotsApart ==
  ASSUME NEW c \in 0 .. 2
  PROVE  /\ Slot(c + 2) # c /\ Slot(c + 2) # Slot(c + 1) /\ Slot(c + 1) # c
         /\ Slot(c + 1) \in 0 .. 2 /\ Slot(c + 2) \in 0 .. 2
         /\ Slot(Slot(c + 1) + 1) = Slot(c + 2)
  BY DEF Slot

(* A new block writes the one slot that nothing refers to. *)
LEMMA EpochAddBlock ==
  ASSUME NEW s \in Accounts, NEW b \in LightClientBlocks, IInv, EpochInv,
         addLightClientBlock(s, b)
  PROVE  EpochInv'
<1> DEFINE C == CommittedEpoch
<1>1. C \in 0 .. 2
  BY DEF IInv, TypeOK, CommittedEpoch, Slot
<1>2. epochs \in [0 .. 2 -> EpochType] /\ epochs' = NextEpochs(b) /\ curEpoch' = C
  BY Zenon DEF IInv, TypeOK, addLightClientBlock
<1>3. epochs'[C] = epochs[C] /\ epochs'[Slot(C + 1)] = epochs[Slot(C + 1)]
  BY Zenon, <1>1, <1>2, SlotsApart DEF NextEpochs
<1>4. PICK l \in ProducerLists :
        /\ Holds(epochs[C], epochs[C].epochId, l)
        /\ AllGenuine' => l = ValidatorsOf[epochs[C].epochId]
  BY Zenon, CommitSlots
<1>5. PICK c \in LightClientBlocks :
        /\ c.nextBps # Zero /\ blockHashes_'[c.height] = c.hash
        /\ Announced(c, C)
        /\ AllGenuine' => c.nextBps = ValidatorsOf[c.nextEpochId]
  BY Zenon, CommitSlots
<1>6. /\ untrusted'.hash = b.hash /\ untrusted'.height = b.height
      /\ untrusted'.nextEpoch = FromNextEpoch(b)
      /\ untrusted'.signatureSet = Approving(b, epochs[EpochOf(b)])
      /\ b.epochId = epochs[EpochOf(b)].epochId
  BY Zenon DEF addLightClientBlock, Untrusted
<1>7. PendingSlot'
  <2>1. CASE FromNextEpoch(b)
    <3>1. Holds(epochs'[Slot(C + 2)], b.nextEpochId, b.nextBps)
      <4>1. IsProducerList(b.nextBps) /\ Len(b.nextBps) <= MAX_BLOCK_PRODUCERS
        BY Zenon, <2>1, BlockFacts DEF addLightClientBlock, ValidNextBps
      <4>2. epochs'[Slot(C + 2)] =
              SetBlockProducers(b.nextBps, epochs[Slot(C + 2)], b.nextEpochId)
        BY Zenon, <2>1, <1>1, <1>2, SlotsApart DEF NextEpochs
      <4> QED
        BY Zenon, <4>1, <4>2, SetBlockProducersHolds
    <3>2. untrusted'.nextEpoch = TRUE
      BY Zenon, <1>6, <2>1 DEF FromNextEpoch
    <3> QED
      BY <1>2, <1>6, <2>1, <3>1, <1>3, <1>1, <3>2, SlotsApart
         DEF PendingSlot, Announced, addLightClientBlock, ValidNextBps, EpochOf
  <2>2. CASE ~FromNextEpoch(b)
    <3>1. untrusted'.nextEpoch = FALSE
      BY Zenon, <1>6, <2>2 DEF FromNextEpoch
    <3> QED
      BY Zenon, <1>2, <1>3, <1>6, <2>2, <3>1 DEF PendingSlot, EpochOf
  <2> QED
    BY Zenon, <2>1, <2>2
<1>8. PendingHasQuorum'
  <2> DEFINE e == epochs[EpochOf(b)]
             signers == Approving(b, e)
  <2>1. /\ epochs'[EpochOf(b)] = e
        /\ signers \in SUBSET (0 .. e.numBPs - 1) /\ VotedFor(e, signers) > e.stakeThreshold
    BY Zenon, <1>3 DEF EpochOf, Approving, addLightClientBlock, ValidApprovals
  <2>2. 3 * VotedFor(e, signers) > 2 * VotedFor(e, 0 .. e.numBPs - 1)
    BY Zenon, <1>5, <1>4, <2>1, BlockFacts, ListsTyped, QuorumOfHeld DEF Announced, EpochOf
  <2>3. untrusted'.signatureSet = signers /\ UntrustedEpoch' = EpochOf(b)
    BY Zenon, <1>2, <1>6 DEF UntrustedEpoch, EpochOf
  <2> HIDE DEF e, signers
  <2>4. epochs'[UntrustedEpoch'] = e
    BY Zenon, <2>1, <2>3
  <2> QED
    BY Zenon, <2>2, <2>3, <2>4 DEF PendingHasQuorum, VotedFor, StakeOf
<1>9. CurrentSlot'
  BY Zenon, <1>2, <1>3, <1>4 DEF CurrentSlot
<1>10. NextSlot'
  BY Zenon, <1>2, <1>3, <1>5 DEF NextSlot, Announced
<1> QED
  BY Zenon, <1>7, <1>8, <1>9, <1>10 DEF EpochInv, addLightClientBlock

(* One case per action that touches the chain. *)
LEMMA EpochNext == IInv /\ EpochInv /\ [Next]_vars => EpochInv'
  BY Zenon, EpochChallenge, EpochInitWithValidators, EpochInitWithBlock, EpochAddBlock, EpochFrame,
     QuietStep DEF vars

-----------------------------------------------------------------------------
(* The ring invariant holds in every reachable state. *)
THEOREM EpochInvariance == Spec => [](IInv /\ EpochInv)
  BY InitInv, NextInv, EpochInit, EpochNext, PTL DEF Spec

(* The current and next validators were announced by confirmed blocks. *)
THEOREM EpochsConfirmed == Spec => []EpochsFromConfirmed
<1>1. IInv /\ EpochInv => EpochsFromConfirmed
  BY Zenon DEF IInv, TypeOK, UntrustedType, EpochInv, NextSlot, PendingSlot, EpochsFromConfirmed
<1> QED
  BY <1>1, EpochInvariance, PTL

(* A pending block has more than two thirds of its epoch's stake. *)
THEOREM PendingQuorum == Spec => []PendingHasQuorum
<1>1. EpochInv => PendingHasQuorum
  BY Zenon DEF EpochInv, PendingHasQuorum
<1> QED
  BY <1>1, EpochInvariance, PTL

(* The keys of the slot a pending block belongs to are those of the real   *)
(* validators, if only genuine headers were confirmed.                     *)
LEMMA PendingKeys ==
  ASSUME IInv, EpochInv, AllGenuine, Challengeable,
         NEW b \in LightClientBlocks, b.hash = untrusted.hash
  PROVE  LET e == epochs[UntrustedEpoch] IN
         \A i \in 0 .. Len(ValidatorsOf[b.epochId]) - 1 :
           e.keys[i] = ValidatorsOf[b.epochId][i + 1].key
<1>1. initialized /\ lastValidAt # 0
  BY DEF Challengeable, IInv, TypeOK, HeadInv
<1>2. PICK c \in LightClientBlocks :
        /\ untrusted.hash = c.hash /\ untrusted.height = c.height
        /\ untrusted.nextEpoch = TRUE =>
             /\ c.nextBps # Zero /\ c.nextBps = c.nextBpHash
             /\ Announced(c, Slot(curEpoch + 1))
        /\ untrusted.nextEpoch = FALSE => c.epochId = epochs[curEpoch].epochId
  BY Zenon, <1>1 DEF EpochInv, PendingSlot
<1>3. CASE untrusted.nextEpoch = FALSE
  <2>1. Holds(epochs[curEpoch], b.epochId, ValidatorsOf[b.epochId])
    BY <1>1, <1>2, <1>3, ConstantTypes DEF EpochInv, CurrentSlot, SameHeader
  <2> QED
    BY Zenon, <1>3, <2>1 DEF Holds, UntrustedEpoch
<1>4. CASE untrusted.nextEpoch = TRUE
  <2>1. PICK d \in LightClientBlocks :
          Announced(d, curEpoch) /\ d.nextBps = ValidatorsOf[d.nextEpochId]
    BY Zenon, <1>1 DEF EpochInv, NextSlot
  <2>2. b.epochId = c.epochId /\ UntrustedEpoch = Slot(curEpoch + 1)
    BY Zenon, <1>2, <1>4, ConstantTypes DEF UntrustedEpoch, SameHeader
  <2>3. epochs[UntrustedEpoch].epochId = b.epochId
    BY Zenon, <1>2, <1>4, <2>2 DEF Announced
  <2>4. Holds(epochs[UntrustedEpoch], d.nextEpochId, ValidatorsOf[d.nextEpochId])
    BY Zenon, <2>1, <2>2 DEF Announced
  <2>5. d.nextEpochId = b.epochId
    BY Zenon, <2>3, <2>4 DEF Holds
  <2> QED
    BY Zenon, <2>4, <2>5 DEF Holds
<1>5. untrusted.nextEpoch \in BOOLEAN
  BY Zenon DEF IInv, TypeOK, UntrustedType
<1> QED
  BY Zenon, <1>3, <1>4, <1>5

(* A submitter whose block is signed by the real validators of its epoch   *)
(* cannot be challenged successfully.                                      *)
THEOREM HonestSubmitter == Spec => []HonestSubmitterSafe
<1>1. IInv /\ EpochInv => HonestSubmitterSafe
  <2> SUFFICES ASSUME IInv, EpochInv, AllGenuine, NEW b \in LightClientBlocks,
                      Challengeable, b.hash = untrusted.hash,
                      b.nextHash = untrusted.nextHash, SignedByItsEpoch(b),
                      NEW i \in untrusted.signatureSet
               PROVE  CheckSignatureInHead(i)
    BY Zenon DEF HonestSubmitterSafe, AllGenuine
  <2>1. i \in Nat /\ i < Len(ValidatorsOf[b.epochId])
    <3>1. i \in Nat
      BY ConstantTypes DEF Producers, IInv, TypeOK, UntrustedType
    <3> QED
      BY Zenon, <3>1 DEF SignedByItsEpoch
  <2>2. epochs[UntrustedEpoch].keys[i] = ValidatorsOf[b.epochId][i + 1].key
    BY <2>1, BlockFacts, ConstantTypes, PendingKeys DEF IsBlock, IsProducerList
  <2> QED
    BY <2>2, ConstantTypes
       DEF CheckSignatureInHead, SignedByItsEpoch, Message, Challengeable, IInv, TypeOK,
           EpochInv, PendingSlot, SameHeader
<1> QED
  BY PTL, <1>1, EpochInvariance

=============================================================================
