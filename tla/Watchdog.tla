------------------------------ MODULE Watchdog ------------------------------
(***************************************************************************)
(* The watchdog (near2eth/watchdog/index.js) beside the NearBridge client. *)
(*                                                                         *)
(* A round reads bridgeState, then checks the signatures of the pending    *)
(* block one view call at a time, and challenges the first bad one.  Other *)
(* accounts act on the contract between any two of these calls.            *)
(*                                                                         *)
(* Time: the contract is optimistic, so that the watchdog must be quick.   *)
(* RoundBound says how quick: at any moment, the last round in which no    *)
(* call and no challenge failed began at most RoundBound seconds ago.  It  *)
(* stands for watchdogDelay, the time of the calls, failed rounds, and the *)
(* time Ethereum takes to mine a challenge.  Challenges are not paused.    *)
(***************************************************************************)
EXTENDS NearBridge

CONSTANTS
  Guard,                \* the account of the watchdog
  Submitters,           \* accounts that add blocks, honest or not
  RoundBound,
  MaxErrors             \* bound on calls and challenges that fail

ASSUME WatchdogInTime ==
  /\ {Guard, Admin} \subseteq Accounts /\ Submitters \subseteq Accounts
  /\ RoundBound \in Nat /\ MaxErrors \in Nat
  /\ RoundBound < lockDuration
  /\ \A flags \in PauseSettings : "CHALLENGE" \notin flags

VARIABLES
  wpc,
  producers,            \* numBlockProducers as read in this round
  index,                \* i of the loop over signatures
  began,                \* when this round began
  lastRound,            \* when the last round without a failure began
  errors

watchVars == <<wpc, producers, index, began, lastRound, errors>>
allVars == <<vars, watchVars>>

(* bridgeState(): what the client tells of its head. *)
BridgeState ==
  IF Challengeable
  THEN [currentHeight |-> curHeight, nextTimestamp |-> untrusted.timestamp,
        nextValidAt |-> lastValidAt,
        numBlockProducers |-> epochs[UntrustedEpoch].numBPs]
  ELSE [currentHeight |-> currentHeight, nextTimestamp |-> 0,
        nextValidAt |-> 0, numBlockProducers |-> 0]

(* The watchdog starts with the deployment. *)
WatchInit ==
  /\ Init
  /\ wpc = "read" /\ producers = 0 /\ index = 0
  /\ began = now /\ lastRound = now
  /\ errors = 0

-----------------------------------------------------------------------------
(* The loop. *)

EndRound == wpc' = "sleep" /\ lastRound' = began

readBridgeState ==
  /\ wpc = "read"
  /\ producers' = BridgeState.numBlockProducers
  /\ index' = 0
  /\ began' = now
  /\ IF BridgeState.nextValidAt = 0
       THEN wpc' = "sleep" /\ lastRound' = now
       ELSE wpc' = "check" /\ UNCHANGED lastRound
  /\ UNCHANGED <<vars, errors>>

(* Variant: a missing signature ends the round. *)
MissingEndsRound ==
  /\ wpc = "check"
  /\ IF index < producers /\ index \in untrusted.signatureSet
       THEN IF CheckSignatureInHead(index)
            THEN index' = index + 1 /\ UNCHANGED <<wpc, lastRound>>
            ELSE wpc' = "challenge" /\ UNCHANGED <<index, lastRound>>
       ELSE EndRound /\ UNCHANGED index
  /\ UNCHANGED <<vars, producers, began, errors>>

(* Variant: the loop stops one signature short. *)
SkipsLast ==
  /\ wpc = "check"
  /\ IF index < producers - 1
       THEN IF index \in untrusted.signatureSet => CheckSignatureInHead(index)
            THEN index' = index + 1 /\ UNCHANGED <<wpc, lastRound>>
            ELSE wpc' = "challenge" /\ UNCHANGED <<index, lastRound>>
       ELSE EndRound /\ UNCHANGED index
  /\ UNCHANGED <<vars, producers, began, errors>>

(* One view call: a missing or a good signature leads to the next one. *)
checkBlockProducerSignature ==
  /\ wpc = "check"
  /\ IF index < producers
       THEN IF index \in untrusted.signatureSet => CheckSignatureInHead(index)
            THEN index' = index + 1 /\ UNCHANGED <<wpc, lastRound>>
            ELSE wpc' = "challenge" /\ UNCHANGED <<index, lastRound>>
       ELSE EndRound /\ UNCHANGED index
  /\ UNCHANGED <<vars, producers, began, errors>>

(* The requires of challenge(). *)
ChallengeAccepted(i) ==
  /\ NotPaused("CHALLENGE", Guard)
  /\ Challengeable
  /\ i \in untrusted.signatureSet
  /\ ~CheckSignatureInHead(i)
  /\ balanceOf[lastSubmitter] >= lockEthAmount
  /\ ethBalance >= Reward

(* The challenge is mined, or reverts because the block is no longer there *)
(* or another block took its place.                                        *)
sendChallenge ==
  /\ wpc = "challenge"
  /\ \/ challenge(Guard, index)
     \/ ~ChallengeAccepted(index) /\ UNCHANGED vars
  /\ EndRound
  /\ UNCHANGED <<producers, index, began, errors>>

(* The challenge fails for another reason, or its price reaches the cap:   *)
(* the error is caught, and the block is still there.                      *)
challengeFails ==
  /\ wpc = "challenge"
  /\ errors < MaxErrors
  /\ errors' = errors + 1
  /\ wpc' = "sleep"
  /\ UNCHANGED <<vars, producers, index, began, lastRound>>

(* A failed call skips the rest of the round. *)
viewFails ==
  /\ wpc \in {"read", "check"}
  /\ errors < MaxErrors
  /\ errors' = errors + 1
  /\ wpc' = "sleep"
  /\ UNCHANGED <<vars, producers, index, began, lastRound>>

wake ==
  /\ wpc = "sleep"
  /\ wpc' = "read"
  /\ UNCHANGED <<vars, producers, index, began, lastRound, errors>>

watchdog ==
  \/ readBridgeState \/ checkBlockProducerSignature \/ sendChallenge
  \/ challengeFails \/ viewFails \/ wake

-----------------------------------------------------------------------------
(* The others. *)

(* Time does not outrun the watchdog. *)
WatchedTick == Tick /\ now + 1 - lastRound <= RoundBound

administrator ==
  \/ \E v \in InitialValidators : initWithValidators(Admin, v)
  \/ \E b \in InitialBlocks : initWithBlock(Admin, b)

submitter(s) ==
  deposit(s) \/ withdraw(s) \/ \E b \in LightClientBlocks : addLightClientBlock(s, b)

WatchNext ==
  \/ watchdog
  \/ /\ WatchedTick \/ administrator \/ \E s \in Submitters : submitter(s)
     /\ UNCHANGED watchVars

WatchSpec == WatchInit /\ [][WatchNext]_allVars

(* The watchdog is a running loop whose calls and transactions are         *)
(* answered; the bound on errors stands for an RPC node that recovers.     *)
FairWatchSpec == WatchSpec /\ WF_allVars(watchdog)

-----------------------------------------------------------------------------
(* Properties. *)

WatchTypeOK ==
  /\ wpc \in {"read", "check", "challenge", "sleep"}
  /\ producers \in 0 .. MAX_BLOCK_PRODUCERS /\ index \in 0 .. producers
  /\ {lastRound, began} \subseteq Nat /\ lastRound <= began /\ began <= now
  /\ errors \in 0 .. MaxErrors

BadSignature(i) == i \in untrusted.signatureSet /\ ~CheckSignatureInHead(i)
BadPending == lastValidAt # 0 /\ \E i \in Producers : BadSignature(i)

(* No block with a bad signature is ever confirmed: every complete round   *)
(* that begins after a block was added reaches its bad signature and has   *)
(* the challenge mined within the challenge period, also when the block    *)
(* took the place of another one in the middle of a round.                 *)
BadBlockNeverConfirmed == ~(BadPending /\ Matured)

(* A block with a bad signature does not stay: it is challenged, or a      *)
(* newer block replaces it.                                                *)
BadBlockRemoved ==
  \A b \in LightClientBlocks :
    (BadPending /\ untrusted.hash = b.hash)
      ~> ~(BadPending /\ untrusted.hash = b.hash)
=============================================================================
