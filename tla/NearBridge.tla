----------------------------- MODULE NearBridge -----------------------------
(***************************************************************************)
(* The optimistic NEAR light client that runs on Ethereum                  *)
(* (contracts/eth/nearbridge/contracts/NearBridge.sol).                    *)
(*                                                                         *)
(* A bonded submitter adds a NEAR block without its signatures being       *)
(* verified; the block is pending for lockDuration seconds, in which       *)
(* anybody may challenge one of its signatures.  A pending block whose     *)
(* period has passed is confirmed, although storage only follows at the    *)
(* next addLightClientBlock.  Validators of three epochs live in a ring.   *)
(*                                                                         *)
(* A transaction is one atomic step; a failed require reverts it, so a     *)
(* require is a conjunct of the guard.                                     *)
(***************************************************************************)
EXTENDS Integers, Sequences, FiniteSets, Functions

CONSTANTS
  Accounts,             \* addresses that call the contract
  Admin,                \* the address set by the constructor
  Zero,                 \* an unset bytes32, signature or address
  LightClientBlocks,    \* decoded LightClientBlock arguments (see BlockType)
  InitialValidators,    \* arguments the admin gives to initWithValidators
  InitialBlocks,        \* arguments the admin gives to initWithBlock
  ValidatorsOf,         \* the block producers NEAR really has, per epoch id
  lockEthAmount, lockDuration, replaceDuration,
  NanosPerSecond,       \* 10^9 in the code
  MAX_BLOCK_PRODUCERS,
  PauseSettings,        \* values the admin gives to adminPause
  AdminAmounts,         \* amounts the admin sends or receives
  MaxTime,              \* bound on block.timestamp
  MaxEth                \* bound on the ETH the contract holds

VARIABLES
  now,                  \* block.timestamp
  paused,               \* set of paused operations
  initialized, curHeight, curEpoch, epochs,
  untrusted,            \* the untrusted* fields
  lastSubmitter, lastValidAt,
  blockHashes_, blockMerkleRoots_,
  balanceOf,
  ethBalance,           \* address(this).balance
  surplus               \* ghost: ETH held beyond what is owed to depositors

chainVars == <<initialized, curHeight, curEpoch, epochs, blockHashes_,
               blockMerkleRoots_>>
pendingVars == <<untrusted, lastSubmitter, lastValidAt>>
ethVars == <<balanceOf, ethBalance, surplus>>
vars == <<now, paused, chainVars, pendingVars, ethVars>>

-----------------------------------------------------------------------------
(* Data. *)

Flags == {"DEPOSIT", "WITHDRAW", "ADD_BLOCK", "CHALLENGE", "VERIFY"}
Producers == 0 .. MAX_BLOCK_PRODUCERS - 1
Heights == {b.height : b \in LightClientBlocks}
EpochIds == DOMAIN ValidatorsOf

(* A decoded block.  Hashes are symbolic: the hash of a list of producers  *)
(* is the list.  approvals[i + 1] is the optional signature of producer i; *)
(* a signature is the key it verifies under and the message it signs: the  *)
(* next block's hash and the height (two higher in the code).              *)
Message(b) == <<b.nextHash, b.height>>

StakeList(bps) == [i \in 0 .. Len(bps) - 1 |-> bps[i + 1].stake]

IsProducerList(bps) ==
  /\ Len(bps) \in Nat
  /\ \A i \in 1 .. Len(bps) : bps[i].stake \in Nat
  /\ \A S \in SUBSET (0 .. Len(bps) - 1) : SumFunctionOnSet(StakeList(bps), S) \in Nat

IsBlock(b) ==
  /\ b.height \in Nat /\ b.timestamp \in Nat
  /\ b.hash # Zero /\ b.merkleRoot # Zero
  /\ b.epochId \in EpochIds /\ b.nextEpochId \in EpochIds
  /\ Len(b.approvals) \in Nat
  /\ b.nextBps # Zero => IsProducerList(b.nextBps)

(* The header hash determines what it covers. *)
SameHeader(b, c) ==
  /\ b.height = c.height /\ b.timestamp = c.timestamp
  /\ b.epochId = c.epochId /\ b.nextEpochId = c.nextEpochId
  /\ b.nextBpHash = c.nextBpHash /\ b.merkleRoot = c.merkleRoot

(* replaceDuration is a difference of NEAR timestamps, in nanoseconds. *)
ASSUME ConstructorRequire ==
  /\ lockDuration \in Nat /\ replaceDuration \in Nat
  /\ NanosPerSecond \in Nat \ {0}
  /\ replaceDuration > lockDuration * NanosPerSecond

ASSUME ConstantTypes ==
  /\ lockEthAmount \in Nat \ {0} /\ MaxTime \in Nat /\ MaxEth \in Nat
  /\ MAX_BLOCK_PRODUCERS \in Nat \ {0}
  /\ IsFiniteSet(Accounts)
  /\ Zero \notin Accounts /\ Zero \notin EpochIds
  /\ PauseSettings \subseteq SUBSET Flags
  /\ AdminAmounts \subseteq Nat
  /\ InitialBlocks \subseteq LightClientBlocks
  /\ \A b \in LightClientBlocks : IsBlock(b)
  /\ \A b, c \in LightClientBlocks : b.hash = c.hash => SameHeader(b, c)
  /\ \A v \in InitialValidators : IsProducerList(v)
  /\ \A id \in EpochIds : IsProducerList(ValidatorsOf[id])

(* The admin initialises the contract with what NEAR really has. *)
ASSUME GenuineInitialisation ==
  \A b \in InitialBlocks :
    /\ \A v \in InitialValidators : v = ValidatorsOf[b.epochId]
    /\ b.nextBps = ValidatorsOf[b.nextEpochId]

Slot(i) == i % 3
StakeWords == 0 .. (MAX_BLOCK_PRODUCERS - 1) \div 2

EmptyEpoch ==
  [epochId |-> Zero, numBPs |-> 0, keys |-> [i \in Producers |-> Zero],
   packedStakes |-> [j \in StakeWords |-> <<0, 0>>],
   stakeThreshold |-> 0]

-----------------------------------------------------------------------------
(* Epochs and approvals. *)

(* setBlockProducers.  Two stakes share a storage word; keys and words     *)
(* beyond the new count keep what an earlier epoch left in them.           *)
SetBlockProducers(bps, epoch, id) ==
  LET cnt == Len(bps)
      stake(i) == IF i < cnt THEN bps[i + 1].stake ELSE 0
  IN  [epochId |-> id,
       numBPs |-> cnt,
       keys |-> [i \in Producers |->
                   IF i < cnt THEN bps[i + 1].key ELSE epoch.keys[i]],
       packedStakes |-> [j \in StakeWords |->
                   IF 2 * j < cnt THEN <<stake(2 * j), stake(2 * j + 1)>>
                   ELSE epoch.packedStakes[j]],
       stakeThreshold |-> (2 * SumFunction(StakeList(bps))) \div 3]

StakeOf(epoch, i) == epoch.packedStakes[i \div 2][1 + (i % 2)]

Approving(b, epoch) ==
  {i \in 0 .. epoch.numBPs - 1 : b.approvals[i + 1] # Zero}

VotedFor(epoch, signers) ==
  SumFunctionOnSet([i \in 0 .. epoch.numBPs - 1 |-> StakeOf(epoch, i)], signers)

(* Variant: the signature is checked against the current epoch's keys. *)
UntrustedEpochIsCurrent == curEpoch

UntrustedEpoch == IF untrusted.nextEpoch THEN Slot(curEpoch + 1) ELSE curEpoch

(* checkBlockProducerSignatureInHead. *)
CheckSignatureInHead(i) ==
  untrusted.signatures[i] =
    [key |-> epochs[UntrustedEpoch].keys[i],
     msg |-> <<untrusted.nextHash, untrusted.height>>]

-----------------------------------------------------------------------------
(* Views.  The VERIFY flag makes blockHashes and blockMerkleRoots fail for  *)
(* others than the admin; it does not change what they answer.             *)

Matured == lastValidAt # 0 /\ now >= lastValidAt
Challengeable == now < lastValidAt

(* Variant: a matured block is only visible once it is stored. *)
StoredHashes(h) == blockHashes_[h]

blockHashes(h) ==
  IF blockHashes_[h] = Zero /\ Matured /\ h = untrusted.height
  THEN untrusted.hash ELSE blockHashes_[h]

blockMerkleRoots(h) ==
  IF blockMerkleRoots_[h] = Zero /\ Matured /\ h = untrusted.height
  THEN untrusted.merkleRoot ELSE blockMerkleRoots_[h]

(* bridgeState().currentHeight *)
currentHeight == IF Matured THEN untrusted.height ELSE curHeight

-----------------------------------------------------------------------------
(* Operations. *)

Init ==
  /\ now = 1
  /\ paused \in PauseSettings
  /\ initialized = FALSE
  /\ curHeight = 0
  /\ curEpoch = 0
  /\ epochs = [i \in 0 .. 2 |-> EmptyEpoch]
  /\ untrusted = [height |-> 0, timestamp |-> 0, nextEpoch |-> FALSE,
                  hash |-> Zero, merkleRoot |-> Zero, nextHash |-> Zero,
                  signatureSet |-> {}, signatures |-> [i \in Producers |-> Zero]]
  /\ lastSubmitter = Zero
  /\ lastValidAt = 0
  /\ blockHashes_ = [h \in Heights |-> Zero]
  /\ blockMerkleRoots_ = [h \in Heights |-> Zero]
  /\ balanceOf = [a \in Accounts |-> 0]
  /\ ethBalance = 0
  /\ surplus = 0

NotPaused(flag, sender) == flag \notin paused \/ sender = Admin

(* Variant: the depositor may already hold a bond. *)
DepositTwice(sender) ==
  /\ NotPaused("DEPOSIT", sender)
  /\ balanceOf' = [balanceOf EXCEPT ![sender] = @ + lockEthAmount]
  /\ ethBalance + lockEthAmount <= MaxEth
  /\ ethBalance' = ethBalance + lockEthAmount
  /\ UNCHANGED <<now, paused, chainVars, pendingVars, surplus>>

deposit(sender) ==
  /\ NotPaused("DEPOSIT", sender)
  /\ balanceOf[sender] = 0
  /\ balanceOf' = [balanceOf EXCEPT ![sender] = lockEthAmount]
  /\ ethBalance + lockEthAmount <= MaxEth
  /\ ethBalance' = ethBalance + lockEthAmount
  /\ UNCHANGED <<now, paused, chainVars, pendingVars, surplus>>

(* Variant: the submitter of a pending block may withdraw. *)
WithdrawAlways(sender) == TRUE

MayWithdraw(sender) == sender # lastSubmitter \/ now >= lastValidAt

(* Variant: the balance is not cleared. *)
WithdrawKeepsBalance(sender) ==
  /\ NotPaused("WITHDRAW", sender)
  /\ MayWithdraw(sender)
  /\ balanceOf[sender] # 0
  /\ ethBalance >= balanceOf[sender]
  /\ ethBalance' = ethBalance - balanceOf[sender]
  /\ UNCHANGED <<now, paused, chainVars, pendingVars, balanceOf, surplus>>

withdraw(sender) ==
  /\ NotPaused("WITHDRAW", sender)
  /\ MayWithdraw(sender)
  /\ balanceOf[sender] # 0
  /\ ethBalance >= balanceOf[sender]
  /\ balanceOf' = [balanceOf EXCEPT ![sender] = 0]
  /\ ethBalance' = ethBalance - balanceOf[sender]
  /\ UNCHANGED <<now, paused, chainVars, pendingVars, surplus>>

Reward == lockEthAmount \div 2

challenge(sender, i) ==
  /\ NotPaused("CHALLENGE", sender)
  /\ Challengeable
  /\ i \in untrusted.signatureSet
  /\ ~CheckSignatureInHead(i)
  /\ balanceOf[lastSubmitter] >= lockEthAmount
  /\ ethBalance >= Reward
  /\ balanceOf' = [balanceOf EXCEPT ![lastSubmitter] = @ - lockEthAmount]
  /\ ethBalance' = ethBalance - Reward
  /\ surplus' = surplus + lockEthAmount - Reward
  /\ lastValidAt' = 0
  /\ UNCHANGED <<now, paused, chainVars, untrusted, lastSubmitter>>

initWithValidators(sender, validators) ==
  /\ sender = Admin
  /\ ~initialized /\ epochs[0].numBPs = 0
  /\ Len(validators) <= MAX_BLOCK_PRODUCERS
  /\ epochs' = [epochs EXCEPT ![0] = SetBlockProducers(validators, @, @.epochId)]
  /\ UNCHANGED <<now, paused, initialized, curHeight, curEpoch, blockHashes_,
                 blockMerkleRoots_, pendingVars, ethVars>>

initWithBlock(sender, b) ==
  /\ sender = Admin
  /\ ~initialized /\ epochs[0].numBPs # 0
  /\ b.nextBps # Zero
  /\ Len(b.nextBps) <= MAX_BLOCK_PRODUCERS
  /\ initialized' = TRUE
  /\ curHeight' = b.height
  /\ epochs' = [epochs EXCEPT
       ![0].epochId = b.epochId,
       ![1] = SetBlockProducers(b.nextBps, @, b.nextEpochId)]
  /\ blockHashes_' = [blockHashes_ EXCEPT ![b.height] = b.hash]
  /\ blockMerkleRoots_' = [blockMerkleRoots_ EXCEPT ![b.height] = b.merkleRoot]
  /\ UNCHANGED <<now, paused, curEpoch, pendingVars, ethVars>>

(* addLightClientBlock: commit a matured block or check that the pending   *)
(* one may be replaced; validate against the state that leaves; store.     *)
(* Variant: any newer block may replace the pending one. *)
ReplaceByAnyNewer(b) == Challengeable => b.timestamp >= untrusted.timestamp

MayReplace(b) == Challengeable => b.timestamp >= untrusted.timestamp + replaceDuration

CommittedHeight == IF Matured THEN untrusted.height ELSE curHeight
CommittedEpoch == IF Matured /\ untrusted.nextEpoch THEN Slot(curEpoch + 1) ELSE curEpoch

FromNextEpoch(b) == b.epochId # epochs[CommittedEpoch].epochId

EpochOf(b) == IF FromNextEpoch(b) THEN Slot(CommittedEpoch + 1) ELSE CommittedEpoch

(* Variants: the height check is off by one, or missing. *)
SameHeightAllowed(b) == b.height >= CommittedHeight
AnyHeight(b) == TRUE

ValidHeight(b) == b.height > CommittedHeight

(* Variant: exactly the threshold is enough. *)
ThresholdReached(b) ==
  LET epoch == epochs[EpochOf(b)] IN
  /\ Len(b.approvals) >= epoch.numBPs
  /\ VotedFor(epoch, Approving(b, epoch)) >= epoch.stakeThreshold

ValidApprovals(b) ==
  LET epoch == epochs[EpochOf(b)] IN
  /\ Len(b.approvals) >= epoch.numBPs
  /\ VotedFor(epoch, Approving(b, epoch)) > epoch.stakeThreshold

ValidNextBps(b) ==
  FromNextEpoch(b) =>
    /\ b.nextBps # Zero
    /\ b.nextBps = b.nextBpHash
    /\ Len(b.nextBps) <= MAX_BLOCK_PRODUCERS

Untrusted(b) ==
  LET signers == Approving(b, epochs[EpochOf(b)]) IN
  [height |-> b.height, timestamp |-> b.timestamp, nextEpoch |-> FromNextEpoch(b),
   hash |-> b.hash, merkleRoot |-> b.merkleRoot, nextHash |-> b.nextHash,
   signatureSet |-> signers,
   signatures |-> [i \in Producers |-> IF i \in signers THEN b.approvals[i + 1]
                                       ELSE untrusted.signatures[i]]]

(* Variant: the slot is computed from the epoch before the commit. *)
NextEpochsBeforeCommit(b) ==
  IF FromNextEpoch(b)
  THEN [epochs EXCEPT ![Slot(curEpoch + 2)] =
          SetBlockProducers(b.nextBps, @, b.nextEpochId)]
  ELSE epochs

NextEpochs(b) ==
  IF FromNextEpoch(b)
  THEN [epochs EXCEPT ![Slot(CommittedEpoch + 2)] =
          SetBlockProducers(b.nextBps, @, b.nextEpochId)]
  ELSE epochs

(* Variant: the matured block is not stored. *)
CommitDropped(stored, value) == stored

Commit(stored, value) ==
  IF Matured THEN [stored EXCEPT ![untrusted.height] = value] ELSE stored

(* Variant: exactly the bond is not enough. *)
MoreThanBond(sender) == balanceOf[sender] > lockEthAmount

HasBond(sender) == balanceOf[sender] >= lockEthAmount

addLightClientBlock(sender, b) ==
  /\ NotPaused("ADD_BLOCK", sender)
  /\ initialized
  /\ HasBond(sender)
  /\ MayReplace(b)
  /\ ValidHeight(b)
  /\ b.epochId = epochs[EpochOf(b)].epochId
  /\ ValidApprovals(b)
  /\ ValidNextBps(b)
  /\ curHeight' = CommittedHeight
  /\ curEpoch' = CommittedEpoch
  /\ blockHashes_' = Commit(blockHashes_, untrusted.hash)
  /\ blockMerkleRoots_' = Commit(blockMerkleRoots_, untrusted.merkleRoot)
  /\ untrusted' = Untrusted(b)
  /\ epochs' = NextEpochs(b)
  /\ lastSubmitter' = sender
  /\ lastValidAt' = now + lockDuration
  /\ UNCHANGED <<now, paused, initialized, ethVars>>

(* AdminControlled.  adminSstore and adminDelegatecall may write anything  *)
(* and are not modelled.                                                   *)
adminPause(sender, flags) ==
  /\ sender = Admin
  /\ paused' = flags
  /\ UNCHANGED <<now, chainVars, pendingVars, ethVars>>

adminSendEth(sender, amount) ==
  /\ sender = Admin
  /\ ethBalance >= amount
  /\ ethBalance' = ethBalance - amount
  /\ surplus' = surplus - amount
  /\ UNCHANGED <<now, paused, chainVars, pendingVars, balanceOf>>

adminReceiveEth(sender, amount) ==
  /\ sender = Admin
  /\ ethBalance + amount <= MaxEth
  /\ ethBalance' = ethBalance + amount
  /\ surplus' = surplus + amount
  /\ UNCHANGED <<now, paused, chainVars, pendingVars, balanceOf>>

Tick ==
  /\ now < MaxTime
  /\ now' = now + 1
  /\ UNCHANGED <<paused, chainVars, pendingVars, ethVars>>

Next ==
  \/ Tick
  \/ \E s \in Accounts :
       \/ deposit(s)
       \/ withdraw(s)
       \/ \E i \in Producers : challenge(s, i)
       \/ \E v \in InitialValidators : initWithValidators(s, v)
       \/ \E b \in InitialBlocks : initWithBlock(s, b)
       \/ \E b \in LightClientBlocks : addLightClientBlock(s, b)
       \/ \E flags \in PauseSettings : adminPause(s, flags)
       \/ \E amount \in AdminAmounts : adminSendEth(s, amount) \/ adminReceiveEth(s, amount)

Spec == Init /\ [][Next]_vars

-----------------------------------------------------------------------------
(* Properties. *)

(* The storage has its declared types; bonds are all or nothing. *)
ProducerLists ==
  InitialValidators
    \cup {b.nextBps : b \in {c \in LightClientBlocks : c.nextBps # Zero}}

Hashes == {Zero} \cup {b.hash : b \in LightClientBlocks}
MerkleRoots == {Zero} \cup {b.merkleRoot : b \in LightClientBlocks}
NextHashes == {Zero} \cup {b.nextHash : b \in LightClientBlocks}
Keys == {Zero} \cup UNION {{l[i].key : i \in 1 .. Len(l)} : l \in ProducerLists}
Signatures ==
  {Zero} \cup
    UNION {{b.approvals[i] : i \in 1 .. Len(b.approvals)} : b \in LightClientBlocks}

EpochType ==
  [epochId : EpochIds \cup {Zero}, numBPs : 0 .. MAX_BLOCK_PRODUCERS,
   keys : [Producers -> Keys], packedStakes : [StakeWords -> Nat \X Nat],
   stakeThreshold : Nat]

UntrustedType ==
  [height : Nat, timestamp : Nat, nextEpoch : BOOLEAN, hash : Hashes,
   merkleRoot : MerkleRoots, nextHash : NextHashes,
   signatureSet : SUBSET Producers, signatures : [Producers -> Signatures]]

TypeOK ==
  /\ now \in Nat \ {0} /\ lastValidAt \in Nat
  /\ paused \subseteq Flags
  /\ initialized \in BOOLEAN
  /\ curHeight \in Nat /\ curEpoch \in 0 .. 2
  /\ epochs \in [0 .. 2 -> EpochType]
  /\ untrusted \in UntrustedType
  /\ lastSubmitter \in Accounts \cup {Zero}
  /\ blockHashes_ \in [Heights -> Hashes]
  /\ blockMerkleRoots_ \in [Heights -> MerkleRoots]
  /\ balanceOf \in [Accounts -> {0, lockEthAmount}]
  /\ ethBalance \in Nat /\ surplus \in Int

(* While a block can be challenged its submitter's bond is in place, so    *)
(* the subtraction in challenge() never underflows and always slashes.     *)
BondCoversChallenge ==
  Challengeable => /\ lastSubmitter \in Accounts
                   /\ balanceOf[lastSubmitter] = lockEthAmount

(* The contract's ETH is the bonds it owes plus the surplus that slashing  *)
(* and the admin left in it: without a deficit every bond can be paid.     *)
Depositors == {a \in Accounts : balanceOf[a] # 0}

EthAccounted == ethBalance = lockEthAmount * Cardinality(Depositors) + surplus

(* The height bridgeState() reports has a hash and a merkle root: a relay  *)
(* that reads the two in one Ethereum block can continue from there.       *)
ReportedHeadHasHash ==
  initialized => /\ blockHashes(currentHeight) # Zero
                 /\ blockMerkleRoots(currentHeight) # Zero

(* What the views once returned for a height they return for ever: neither *)
(* a commit, a replacement nor a challenge changes a confirmed block.      *)
ConfirmedForever ==
  [][\A h \in Heights :
       /\ blockHashes(h) # Zero => blockHashes(h)' = blockHashes(h)
       /\ blockMerkleRoots(h) # Zero => blockMerkleRoots(h)' = blockMerkleRoots(h)]_vars

(* The confirmed height never goes back, in storage or as reported. *)
HeadNeverRegresses ==
  [][curHeight' >= curHeight /\ (initialized => currentHeight' >= currentHeight)]_vars

(* The current and the next slot of the ring always hold the validators    *)
(* announced by a block that is confirmed; what rejected or replaced       *)
(* blocks wrote to the third slot is never promoted.  A pending block of   *)
(* the next epoch finds its own announcement in the third slot.            *)
Holds(epoch, id, bps) ==
  /\ epoch.epochId = id
  /\ epoch.numBPs = Len(bps)
  /\ \A i \in 0 .. Len(bps) - 1 : /\ epoch.keys[i] = bps[i + 1].key
                                 /\ StakeOf(epoch, i) = bps[i + 1].stake
  /\ epoch.stakeThreshold = (2 * SumFunction(StakeList(bps))) \div 3

Announced(b, slot) ==
  /\ epochs[slot].epochId = b.epochId
  /\ Holds(epochs[Slot(slot + 1)], b.nextEpochId, b.nextBps)

EpochsFromConfirmed ==
  /\ initialized =>
       \E b \in LightClientBlocks :
         blockHashes_[b.height] = b.hash /\ Announced(b, curEpoch)
  /\ lastValidAt # 0 /\ untrusted.nextEpoch =>
       \E b \in LightClientBlocks :
         untrusted.hash = b.hash /\ Announced(b, Slot(curEpoch + 1))

(* The pending block carries signatures of more than two thirds of the     *)
(* stake of its epoch, as that epoch is stored now.                        *)
PendingHasQuorum ==
  lastValidAt # 0 =>
    LET epoch == epochs[UntrustedEpoch] IN
    3 * VotedFor(epoch, untrusted.signatureSet)
      > 2 * VotedFor(epoch, 0 .. epoch.numBPs - 1)

(* If only genuine NEAR headers were confirmed, a submitter whose block    *)
(* carries the signatures of its epoch's real validators cannot be slashed:*)
(* the keys the challenge looks up are those validators' keys.             *)
GenuineHash(hash) ==
  \E b \in LightClientBlocks :
    b.hash = hash /\ b.nextBpHash = ValidatorsOf[b.nextEpochId]

SignedByItsEpoch(b) ==
  \A i \in untrusted.signatureSet :
    /\ i < Len(ValidatorsOf[b.epochId])
    /\ untrusted.signatures[i] =
         [key |-> ValidatorsOf[b.epochId][i + 1].key, msg |-> Message(b)]

HonestSubmitterSafe ==
  (\A h \in Heights : blockHashes_[h] # Zero => GenuineHash(blockHashes_[h])) =>
    \A b \in LightClientBlocks :
      Challengeable /\ b.hash = untrusted.hash /\ b.nextHash = untrusted.nextHash
        /\ SignedByItsEpoch(b)
      => \A i \in untrusted.signatureSet : CheckSignatureInHead(i)

(* A block that was fresh when submitted, its age at most the margin of    *)
(* replaceDuration over lockDuration, stays until it is confirmed or       *)
(* challenged: no block with a timestamp up to the present can replace it. *)
FreshBlockNotReplaced ==
  [][\A s \in Accounts, b \in LightClientBlocks :
       Challengeable /\ addLightClientBlock(s, b) /\ b.timestamp <= now * NanosPerSecond
       => (lastValidAt - lockDuration) * NanosPerSecond - untrusted.timestamp
            > replaceDuration - lockDuration * NanosPerSecond]_vars
=============================================================================
