--------------------------- MODULE Near2EthRelay ----------------------------
(***************************************************************************)
(* The relay from NEAR to Ethereum (near2eth/near2eth-block-relay/index.js)*)
(* beside the NearBridge client: initialize, then the loop of runInternal. *)
(*                                                                         *)
(* Every call to a node is a step of its own; between any two of them the  *)
(* NEAR chain grows, time passes, and other accounts act on the client.    *)
(* The process may crash at any step; the process manager starts it again. *)
(*                                                                         *)
(* Time: a step of the relay takes at most StepBound seconds, and a sleep  *)
(* ends when it is due.                                                    *)
(***************************************************************************)
EXTENDS NearBridge

CONSTANTS
  Relay,                \* ethMasterAccount, the account that deployed the client
  Others,               \* other accounts that add and challenge blocks
  NearChain,            \* the final NEAR blocks, in order
  minDelay, maxDelay, errorDelay, submitDelay,
  StepBound,
  NearBound,            \* seconds after its timestamp a NEAR block is final
  MaxFaults             \* bound on crashes and failed calls

ASSUME RelayAssumption ==
  /\ Relay = Admin /\ Relay \in Accounts /\ Others \subseteq Accounts \ {Relay}
  /\ \A k \in DOMAIN NearChain : NearChain[k] \in LightClientBlocks
  /\ {minDelay, maxDelay, errorDelay, submitDelay, StepBound, NearBound,
      MaxFaults} \subseteq Nat

VARIABLES
  rpc,
  nearHead,             \* number of NEAR blocks that are final
  lastFinal,            \* index of the block of lastFinalBlockHash
  state,                \* bridgeState as read in this round
  hash,                 \* currentBlockHash
  block,                \* index of lightClientBlock or lastBlock, 0 if none
  due,                  \* when the next step of the relay is due
  faults

relayVars == <<rpc, lastFinal, state, hash, block, due, faults>>
allVars == <<vars, nearHead, relayVars>>

BridgeState ==
  IF Challengeable
  THEN [currentHeight |-> curHeight, nextTimestamp |-> untrusted.timestamp,
        nextValidAt |-> lastValidAt]
  ELSE [currentHeight |-> currentHeight, nextTimestamp |-> 0, nextValidAt |-> 0]

NoState == [currentHeight |-> 0, nextTimestamp |-> 0, nextValidAt |-> 0]

RelayInit ==
  /\ Init
  /\ rpc = "start" /\ nearHead = 1 /\ lastFinal = 0
  /\ state = NoState /\ hash = Zero /\ block = 0
  /\ due = now /\ faults = 0

(* next_light_client_block: the latest final block the holder of block k   *)
(* can verify, from the same or the next epoch; 0 when there is none.      *)
Verifiable(k, n) ==
  /\ k < n /\ n <= nearHead
  /\ NearChain[n].epochId \in {NearChain[k].epochId, NearChain[k].nextEpochId}

NextLightClientBlock(k) ==
  IF \E n \in DOMAIN NearChain : Verifiable(k, n)
  THEN CHOOSE n \in DOMAIN NearChain :
         /\ Verifiable(k, n)
         /\ \A m \in DOMAIN NearChain : Verifiable(k, m) => m <= n
  ELSE 0

IndexOf(hsh) ==
  IF \E k \in DOMAIN NearChain : NearChain[k].hash = hsh
  THEN CHOOSE k \in DOMAIN NearChain : NearChain[k].hash = hsh
  ELSE 0

-----------------------------------------------------------------------------
(* Control. *)

Go(pc) == rpc' = pc /\ due' = now + StepBound
Sleep(delay) == rpc' = "sleep" /\ due' = now + delay
Error == Sleep(errorDelay)
Exit == Go("exited")

checkInitialized ==
  /\ rpc = "start"
  /\ IF initialized THEN Go("state") ELSE Go("status")
  /\ UNCHANGED <<vars, nearHead, lastFinal, state, hash, block, faults>>

(* The most recent block and from it last_final_block; NEAR goes on after  *)
(* it, so the last block of the bounded chain is never taken.              *)
readLastFinalBlock ==
  /\ rpc = "status"
  /\ lastFinal' = IF nearHead < Len(NearChain) THEN nearHead ELSE nearHead - 1
  /\ Go("wait")
  /\ UNCHANGED <<vars, nearHead, state, hash, block, faults>>

(* The validators are those of lastFinalBlockHash; the block is the next   *)
(* one after it, polled for until there is one.                            *)
waitForLightClientBlock ==
  /\ rpc = "wait"
  /\ block' = NextLightClientBlock(lastFinal)
  /\ IF block' = 0 THEN Go("wait") ELSE Go("initValidators")
  /\ UNCHANGED <<vars, nearHead, lastFinal, state, hash, faults>>

CurrentValidators == ValidatorsOf[NearChain[lastFinal].epochId]

(* An error other than "underpriced" exits. *)
sendInitWithValidators ==
  /\ rpc = "initValidators"
  /\ \/ initWithValidators(Relay, CurrentValidators) /\ Go("initBlock")
     \/ /\ ~ENABLED initWithValidators(Relay, CurrentValidators)
        /\ Exit /\ UNCHANGED vars
  /\ UNCHANGED <<nearHead, lastFinal, state, hash, block, faults>>

sendInitWithBlock ==
  /\ rpc = "initBlock"
  /\ \/ initWithBlock(Relay, NearChain[block]) /\ Go("state")
     \/ /\ ~ENABLED initWithBlock(Relay, NearChain[block])
        /\ Exit /\ UNCHANGED vars
  /\ UNCHANGED <<nearHead, lastFinal, state, hash, block, faults>>

(* Ten refusals as "underpriced" leave the loop without an error, as if    *)
(* the transaction had been mined.                                         *)
underpriced ==
  /\ rpc \in {"initValidators", "initBlock"}
  /\ faults < MaxFaults /\ faults' = faults + 1
  /\ Go(IF rpc = "initValidators" THEN "initBlock" ELSE "state")
  /\ UNCHANGED <<vars, nearHead, lastFinal, state, hash, block>>

initialize ==
  \/ checkInitialized \/ readLastFinalBlock \/ waitForLightClientBlock
  \/ sendInitWithValidators \/ sendInitWithBlock \/ underpriced

-----------------------------------------------------------------------------
(* runInternal. *)

readBridgeState ==
  /\ rpc = "state"
  /\ state' = BridgeState
  /\ Go("hash")
  /\ UNCHANGED <<vars, nearHead, lastFinal, hash, block, faults>>

readBlockHash ==
  /\ rpc = "hash"
  /\ hash' = IF state.currentHeight \in Heights
             THEN blockHashes(state.currentHeight) ELSE Zero
  /\ Go("next")
  /\ UNCHANGED <<vars, nearHead, lastFinal, state, block, faults>>

(* The node knows no block of this hash, or has no later one: the answer   *)
(* has no inner_lite and the round ends with an error.                     *)
getNextBlock ==
  /\ rpc = "next"
  /\ block' = IF IndexOf(hash) = 0 THEN 0 ELSE NextLightClientBlock(IndexOf(hash))
  /\ IF block' = 0 THEN Error ELSE Go("decide")
  /\ UNCHANGED <<vars, nearHead, lastFinal, state, hash, faults>>

MaySubmit ==
  /\ state.currentHeight < NearChain[block].height
  /\ \/ state.nextValidAt = 0
     \/ state.nextTimestamp + replaceDuration - NearChain[block].timestamp <= 0

Delay ==
  LET untilValid == state.nextValidAt - now
      untilReplaced == (state.nextTimestamp + replaceDuration
                          - NearChain[block].timestamp) \div NanosPerSecond
      least(a, b) == IF a < b THEN a ELSE b
      most(a, b) == IF a > b THEN a ELSE b
  IN  most(minDelay, IF state.nextValidAt = 0 THEN maxDelay
                     ELSE least(maxDelay, least(untilValid, untilReplaced)))

decide ==
  /\ rpc = "decide"
  /\ IF MaySubmit THEN Go("bond") ELSE Sleep(Delay)
  /\ UNCHANGED <<vars, nearHead, lastFinal, state, hash, block, faults>>

(* A relay without a bond deposits one. *)
ensureBond ==
  /\ rpc = "bond"
  /\ \/ balanceOf[Relay] # 0 /\ Go("submit") /\ UNCHANGED vars
     \/ deposit(Relay) /\ Go("submit")
     \/ /\ balanceOf[Relay] = 0 /\ ~ENABLED deposit(Relay)
        /\ Error /\ UNCHANGED vars
  /\ UNCHANGED <<nearHead, lastFinal, state, hash, block, faults>>

submitBlock ==
  /\ rpc = "submit"
  /\ \/ addLightClientBlock(Relay, NearChain[block]) /\ Sleep(submitDelay)
     \/ /\ ~ENABLED addLightClientBlock(Relay, NearChain[block])
        /\ Error /\ UNCHANGED vars
  /\ UNCHANGED <<nearHead, lastFinal, state, hash, block, faults>>

callFails ==
  /\ rpc \in {"state", "hash", "next", "decide", "bond", "submit"}
  /\ faults < MaxFaults /\ faults' = faults + 1
  /\ Error
  /\ UNCHANGED <<vars, nearHead, lastFinal, state, hash, block>>

wake ==
  /\ rpc = "sleep" /\ now >= due
  /\ Go("state")
  /\ UNCHANGED <<vars, nearHead, lastFinal, state, hash, block, faults>>

runInternal ==
  \/ readBridgeState \/ readBlockHash \/ getNextBlock \/ decide
  \/ ensureBond \/ submitBlock \/ callFails \/ wake

(* The process manager starts a process that exited. *)
restart ==
  /\ rpc = "exited"
  /\ Go("start")
  /\ lastFinal' = 0 /\ state' = NoState /\ hash' = Zero /\ block' = 0
  /\ UNCHANGED <<vars, nearHead, faults>>

crash ==
  /\ rpc # "exited"
  /\ faults < MaxFaults /\ faults' = faults + 1
  /\ Exit
  /\ UNCHANGED <<vars, nearHead, lastFinal, state, hash, block>>

relay == initialize \/ runInternal \/ restart

-----------------------------------------------------------------------------
(* The others. *)

(* A NEAR block becomes final no earlier than its timestamp. *)
nearAdvance ==
  /\ nearHead < Len(NearChain)
  /\ NearChain[nearHead + 1].timestamp <= now * NanosPerSecond
  /\ nearHead' = nearHead + 1
  /\ UNCHANGED <<vars, relayVars>>

(* Time waits for the relay's step and for an overdue NEAR block. *)
relayTick ==
  /\ now < due
  /\ nearHead < Len(NearChain) =>
       now * NanosPerSecond
         < NearChain[nearHead + 1].timestamp + NearBound * NanosPerSecond
  /\ Tick
  /\ UNCHANGED <<nearHead, relayVars>>

others ==
  /\ \E s \in Others :
       \/ deposit(s) \/ withdraw(s)
       \/ \E i \in Producers : challenge(s, i)
       \/ \E b \in LightClientBlocks : addLightClientBlock(s, b)
  /\ UNCHANGED <<nearHead, relayVars>>

RelayNext == relay \/ crash \/ nearAdvance \/ relayTick \/ others

RelaySpec == RelayInit /\ [][RelayNext]_allVars

(* The process runs and is restarted, time passes, NEAR grows. *)
FairRelaySpec ==
  RelaySpec /\ WF_allVars(relay) /\ WF_allVars(relayTick) /\ WF_allVars(nearAdvance)

-----------------------------------------------------------------------------
(* Properties. *)

RelayTypeOK ==
  /\ rpc \in {"start", "status", "wait", "initValidators", "initBlock",
              "state", "hash", "next", "decide", "bond", "submit", "sleep",
              "exited"}
  /\ nearHead \in DOMAIN NearChain
  /\ lastFinal \in 0 .. Len(NearChain) /\ block \in 0 .. Len(NearChain)
  /\ rpc \in {"initValidators", "initBlock", "decide", "bond", "submit"}
       => block # 0
  /\ hash \in Hashes /\ due \in Nat /\ faults \in 0 .. MaxFaults

(* The client was initialised with the validators of another epoch than    *)
(* its first block's: an epoch ended while the relay waited for a block    *)
(* after last_final_block, whose validators it had asked for.              *)
MixedInitialisation ==
  \E k \in DOMAIN NearChain :
    /\ blockHashes_[NearChain[k].height] = NearChain[k].hash
    /\ \E s \in 0 .. 2 : epochs[s].epochId = NearChain[k].epochId
                         /\ ~Holds(epochs[s], NearChain[k].epochId,
                                   ValidatorsOf[NearChain[k].epochId])

(* The height and the hash are read in different Ethereum blocks.  Even so *)
(* an initialised client always gives the relay the hash of the block at   *)
(* the height it was told: a reported head cannot be taken back.           *)
HashOfReportedHead == rpc = "next" /\ state.currentHeight # 0 => hash # Zero

(* The relay only submits blocks NEAR gave it, so its bond is never        *)
(* slashed, whatever others add and challenge in between - unless its own  *)
(* initialisation mixed two epochs.                                        *)
BondSafe ==
  [][balanceOf'[Relay] < balanceOf[Relay] => MixedInitialisation]_allVars

(* The client ends up with the last NEAR block, through failed calls and   *)
(* crashes and beside others that add, challenge and withdraw.  Three      *)
(* things stop it for good: a crash, or ten refusals, after                *)
(* initWithValidators and before initWithBlock, since the restarted relay  *)
(* repeats the first call and exits when it reverts; ten refusals of each  *)
(* of them, which start the loop beside a client without a block; and a    *)
(* mixed initialisation, after which what the relay adds can be            *)
(* challenged.                                                             *)
HalfInitialized == ~initialized /\ epochs[0].numBPs # 0

BelievedInitialized ==
  ~initialized /\ rpc \in {"state", "hash", "next", "decide", "bond", "submit", "sleep"}

Confirmed == blockHashes(NearChain[Len(NearChain)].height) # Zero

ClientFollows ==
  <>Confirmed \/ <>[](HalfInitialized \/ BelievedInitialized \/ MixedInitialisation)
=============================================================================
