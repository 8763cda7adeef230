--------------------------- MODULE Eth2NearRelay ----------------------------
(***************************************************************************)
(* The relay from Ethereum to NEAR                                         *)
(* (eth2near/eth2near-block-relay/index.js) beside the EthClient contract. *)
(*                                                                         *)
(* A round reads both heads, searches backwards from the client's head for *)
(* a block of the main chain, fetches the blocks after it and submits them *)
(* in one transaction.  Every read is a step of its own; in between the    *)
(* chain grows or reorganises and other relays submit headers.             *)
(*                                                                         *)
(* The transaction is atomic: while its calls are executed nobody else     *)
(* acts on the client, and a failing call restores what was there before.  *)
(***************************************************************************)
EXTENDS EthClient, Functions

CONSTANTS
  Relay, Others,        \* accounts that submit headers
  totalSubmitBlock,
  SerialBelow,          \* below this number blocks are added one by one (5)
  MaxFaults             \* bound on failed calls

ASSUME RelayAssumption ==
  /\ Relay \in Accounts /\ Others \subseteq Accounts \ {Relay}
  /\ totalSubmitBlock \in Nat \ {0} /\ SerialBelow \in Nat /\ MaxFaults \in Nat

VARIABLES
  tip,                  \* the head of Ethereum
  epc,
  clientBlockNumber, chainBlockNumber,
  previousBlockNumber,  \* None while undefined
  search,               \* the locals of binarySearchWithEstimate
  chainHash,            \* chainBlock.hash of the predicate
  blocks,               \* number -> the block getParseBlock fetched, or None
  queue,                \* last number of the batch that was executed
  saved,                \* client state the transaction started from
  disturbed,            \* ghost: chain or client changed since the search began
  faults

relayVars == <<epc, clientBlockNumber, chainBlockNumber, previousBlockNumber,
               search, chainHash, blocks, queue, saved, faults>>
allVars == <<vars, tip, disturbed, relayVars>>

-----------------------------------------------------------------------------
(* Ethereum. *)

TotalDifficulty ==
  [h \in Hashes |->
     LET known == {k \in 0 .. MaxNumber : Ancestor[h][k] \in Hashes}
     IN  SumFunction([k \in known |-> Header[Ancestor[h][k]].difficulty])]

(* eth_getBlockByNumber: null above the head.  Zero stands for the blocks  *)
(* before the client's first, which it never knows.                        *)
getEthBlock(n) == IF n > Number(tip) THEN None ELSE Ancestor[tip][Number(tip) - n]

(* The head moves to a heavier block: the chain grows or reorganises. *)
ethAdvance ==
  /\ \E h \in Hashes : TotalDifficulty[h] > TotalDifficulty[tip] /\ tip' = h
  /\ disturbed' = TRUE
  /\ UNCHANGED <<vars, relayVars>>

known_hashes(n) == all_header_hashes[n]

-----------------------------------------------------------------------------
(* binarySearchWithEstimate. *)

Lesser(a, b) == IF a < b THEN a ELSE b
Greater(a, b) == IF a > b THEN a ELSE b

NoSearch == [phase |-> "none", lo |-> 0, hi |-> 0, step |-> 0]

Estimate ==
  IF previousBlockNumber = None THEN 0
  ELSE clientBlockNumber - (previousBlockNumber + totalSubmitBlock)

(* Variant: the last step is not halved. *)
CloseDownWhole(s) ==
  LET hi == s.hi - s.step
  IN  [phase |-> "bisect", lo |-> Greater(s.lo, hi - s.step), hi |-> hi, step |-> 0]

(* The doubling steps end; the answer lies in (lo, hi]. *)
CloseDown(s) ==
  LET hi == s.hi - s.step \div 2
  IN  [phase |-> "bisect", lo |-> Greater(s.lo, hi - s.step), hi |-> hi, step |-> 0]

CloseUp(s) ==
  LET lo == s.lo + s.step \div 2
  IN  [phase |-> "bisect", lo |-> lo, hi |-> Lesser(s.hi, lo + s.step), step |-> 0]

(* The conditions of the loops that need no call. *)
Open(s) ==
  IF s.phase = "down" /\ s.hi - s.step <= s.lo THEN CloseDown(s)
  ELSE IF s.phase = "up" /\ s.lo + s.step >= s.hi THEN CloseUp(s)
  ELSE s

Position(s) ==
  CASE s.phase = "estimate" -> Estimate
    [] s.phase = "down" -> s.hi - s.step
    [] s.phase = "up" -> s.lo + s.step
    [] s.phase = "bisect" -> (s.lo + s.hi) \div 2

Answered(s, value) ==
  CASE s.phase = "estimate" /\ value ->
         Open([phase |-> "down", lo |-> s.lo, hi |-> Estimate, step |-> 1])
    [] s.phase = "estimate" /\ ~value ->
         Open([phase |-> "up", lo |-> Estimate, hi |-> s.hi, step |-> 1])
    [] s.phase = "down" ->
         IF value THEN Open([s EXCEPT !.step = 2 * @]) ELSE CloseDown(s)
    [] s.phase = "up" ->
         IF value THEN CloseUp(s) ELSE Open([s EXCEPT !.step = 2 * @])
    [] s.phase = "bisect" ->
         IF value THEN [s EXCEPT !.hi = Position(s)] ELSE [s EXCEPT !.lo = Position(s)]

Found(s) == s.phase = "bisect" /\ s.lo + 1 >= s.hi

-----------------------------------------------------------------------------
(* run. *)

RelayInit ==
  /\ Init
  /\ trusted_signer \in {None, Relay}
  /\ tip = first_header
  /\ epc = "heads"
  /\ clientBlockNumber = 0 /\ chainBlockNumber = 0 /\ previousBlockNumber = None
  /\ search = NoSearch /\ chainHash = None
  /\ blocks = <<>> /\ queue = 0 /\ saved = None
  /\ disturbed = FALSE /\ faults = 0

readClientHead ==
  /\ epc = "heads"
  /\ clientBlockNumber' = last_block_number
  /\ disturbed' = FALSE
  /\ epc' = "chain"
  /\ UNCHANGED <<vars, tip, chainBlockNumber, previousBlockNumber, search,
                 chainHash, blocks, queue, saved, faults>>

readChainHead ==
  /\ epc = "chain"
  /\ chainBlockNumber' = Number(tip)
  /\ search' = [phase |-> "estimate", lo |-> 0, hi |-> clientBlockNumber, step |-> 0]
  /\ epc' = "predicate"
  /\ UNCHANGED <<vars, tip, disturbed, clientBlockNumber, previousBlockNumber,
                 chainHash, blocks, queue, saved, faults>>

(* A block that is not there yet is asked for again. *)
predicateReadsChain ==
  /\ epc = "predicate"
  /\ chainHash' = getEthBlock(clientBlockNumber - Position(search))
  /\ chainHash' # None
  /\ epc' = "known"
  /\ UNCHANGED <<vars, tip, disturbed, clientBlockNumber, chainBlockNumber,
                 previousBlockNumber, search, blocks, queue, saved, faults>>

predicateReadsClient ==
  /\ epc = "known"
  /\ search' = Answered(search,
                 chainHash \in known_hashes(clientBlockNumber - Position(search)))
  /\ epc' = IF Found(search') THEN "found" ELSE "predicate"
  /\ chainHash' = None
  /\ UNCHANGED <<vars, tip, disturbed, clientBlockNumber, chainBlockNumber,
                 previousBlockNumber, blocks, queue, saved, faults>>

predicate == predicateReadsChain \/ predicateReadsClient

(* The predicate catches its errors and starts over; an error while the    *)
(* heads are read starts the round again.                                  *)
readFails ==
  /\ epc \in {"heads", "chain", "predicate", "known"}
  /\ faults < MaxFaults /\ faults' = faults + 1
  /\ epc' = IF epc \in {"heads", "chain"} THEN "heads" ELSE "predicate"
  /\ chainHash' = None
  /\ UNCHANGED <<vars, tip, disturbed, clientBlockNumber, chainBlockNumber,
                 previousBlockNumber, search, blocks, queue, saved>>

(* Variant: the last block is left out. *)
EndBlockExclusive(n) ==
  (IF n < SerialBelow THEN n + 1 ELSE Lesser(n + totalSubmitBlock, chainBlockNumber)) - 1

EndBlock(n) ==
  IF n < SerialBelow THEN n + 1 ELSE Lesser(n + totalSubmitBlock, chainBlockNumber)

(* Past the search: fetch the blocks after the one found, or sleep. *)
applyDelta ==
  /\ epc = "found"
  /\ LET n == clientBlockNumber - search.hi IN
     /\ clientBlockNumber' = n
     /\ previousBlockNumber' = n
     /\ IF n < chainBlockNumber
        THEN epc' = "fetch" /\ blocks' = [i \in n + 1 .. EndBlock(n) |-> None]
        ELSE epc' = "heads" /\ blocks' = <<>>
  /\ search' = NoSearch
  /\ UNCHANGED <<vars, tip, disturbed, chainBlockNumber, chainHash, queue, saved, faults>>

(* The blocks are fetched concurrently.  A block that cannot be fetched    *)
(* or parsed makes submitBlock throw.                                      *)
getParseBlock ==
  /\ epc = "fetch"
  /\ \E i \in DOMAIN blocks :
       /\ blocks[i] = None
       /\ IF getEthBlock(i) # None
          THEN blocks' = [blocks EXCEPT ![i] = getEthBlock(i)] /\ epc' = epc
          ELSE blocks' = <<>> /\ epc' = "heads"
  /\ UNCHANGED <<vars, tip, disturbed, clientBlockNumber, chainBlockNumber,
                 previousBlockNumber, search, chainHash, queue, saved, faults>>

(* The process is started anew (pm2); a transaction that was sent runs on. *)
restart ==
  /\ epc # "execute" /\ previousBlockNumber # None
  /\ faults < MaxFaults /\ faults' = faults + 1
  /\ previousBlockNumber' = None
  /\ search' = NoSearch /\ chainHash' = None /\ blocks' = <<>> /\ epc' = "heads"
  /\ UNCHANGED <<vars, tip, disturbed, clientBlockNumber, chainBlockNumber, queue, saved>>

submitFails ==
  /\ epc = "fetch"
  /\ faults < MaxFaults /\ faults' = faults + 1
  /\ blocks' = <<>> /\ epc' = "heads"
  /\ UNCHANGED <<vars, tip, disturbed, clientBlockNumber, chainBlockNumber,
                 previousBlockNumber, search, chainHash, queue, saved>>

signAndSendTransaction ==
  /\ epc = "fetch"
  /\ \A i \in DOMAIN blocks : blocks[i] # None
  /\ saved' = chainVars
  /\ queue' = clientBlockNumber
  /\ epc' = "execute"
  /\ UNCHANGED <<vars, tip, disturbed, clientBlockNumber, chainBlockNumber,
                 previousBlockNumber, search, chainHash, blocks, faults>>

(* A call panics when one of its assertions fails; a block before the      *)
(* first has no parent there.                                              *)
Panics(h) == h \in Hashes => ~ENABLED add_block_header(Relay, h)

(* One call of the transaction, or its end. *)
submitBlock ==
  /\ epc = "execute"
  /\ IF queue + 1 \in DOMAIN blocks
     THEN \/ /\ ~Panics(blocks[queue + 1]) /\ add_block_header(Relay, blocks[queue + 1])
             /\ queue' = queue + 1
             /\ UNCHANGED <<epc, blocks, saved>>
          \/ /\ Panics(blocks[queue + 1])
             /\ best_header_hash' = saved[1] /\ canonical_header_hashes' = saved[2]
             /\ all_header_hashes' = saved[3] /\ headers' = saved[4] /\ infos' = saved[5]
             /\ UNCHANGED <<trusted_signer, paused>>
             /\ epc' = "heads" /\ queue' = 0 /\ blocks' = <<>> /\ saved' = None
     ELSE /\ epc' = "heads" /\ queue' = 0 /\ blocks' = <<>> /\ saved' = None
          /\ UNCHANGED vars
  /\ disturbed' = TRUE
  /\ UNCHANGED <<tip, clientBlockNumber, chainBlockNumber, previousBlockNumber,
                 search, chainHash, faults>>

run ==
  \/ readClientHead \/ readChainHead \/ predicate \/ applyDelta
  \/ getParseBlock \/ signAndSendTransaction \/ submitBlock

(* Other relays submit headers of either fork. *)
others ==
  /\ epc # "execute"
  /\ \E a \in Others, h \in Hashes : add_block_header(a, h)
  /\ disturbed' = TRUE
  /\ UNCHANGED <<tip, relayVars>>

RelayNext ==
  \/ run \/ readFails \/ submitFails \/ restart
  \/ epc # "execute" /\ ethAdvance
  \/ others

RelaySpec == RelayInit /\ [][RelayNext]_allVars

(* The process runs; a node answers sooner or later. *)
FairRelaySpec == RelaySpec /\ WF_allVars(run)

-----------------------------------------------------------------------------
(* Properties. *)

(* What the predicate answers when nothing moves. *)
OnBothChains(d) == getEthBlock(clientBlockNumber - d) \in known_hashes(clientBlockNumber - d)

(* How far back from its head the client holds headers without a gap: it   *)
(* starts at a late block (first_header) and collects old headers.         *)
Distances ==
  {d \in 0 .. clientBlockNumber - 1 : \A e \in 0 .. d : known_hashes(clientBlockNumber - e) # {}}

(* Of the blocks held, those from some distance on are on the main chain. *)
IsFork(f) == \A d \in Distances : OnBothChains(d) <=> f <= d

Monotonic == \E f \in Distances : IsFork(f)
FirstOnBoth == CHOOSE f \in Distances : IsFork(f)

(* The doubling steps cannot jump over the blocks of both chains: there    *)
(* are as many of them as the steps have to go back, and the limit         *)
(* clientBlockNumber, which is never tested, leaves room for the last step *)
(* or is next to one of them.                                              *)
WithinReach ==
  LET back == FirstOnBoth - Estimate IN
  \E d \in Distances :
    /\ d >= Estimate /\ d - FirstOnBoth >= back - 1
    /\ d = clientBlockNumber - 1 \/ Estimate + 3 * (back - 1) <= clientBlockNumber

(* As long as neither side moved, the search returns the closest block     *)
(* that both chains have, from any estimate from which it is within reach. *)
(* Two answers differ from it: a head that is on the main chain is missed  *)
(* by one when the estimate was further back, because the lower limit      *)
(* itself is never tested; and an estimate above the head may find a       *)
(* header that the client knows of a longer but lighter fork, if that is   *)
(* on the main chain by now.                                               *)
SearchFindsFirst ==
  epc = "found" /\ ~disturbed /\ Monotonic /\ WithinReach =>
    \/ search.hi = FirstOnBoth
    \/ FirstOnBoth = 0 /\ search.hi = 1 /\ Estimate >= 1
    \/ search.hi < 0 /\ Estimate < 0 /\ OnBothChains(search.hi)

(* The last search found nothing and returned the upper limit: the relay   *)
(* submits block 1, which the client refuses, and looks for the next block *)
(* from there.                                                             *)
Missed == previousBlockNumber = 0

(* Once Ethereum stops moving, the client is less than one batch behind it *)
(* for good, whatever failed and whatever the others submitted, or a       *)
(* search missed.  A failed or capped round makes the next estimate ask    *)
(* for the block at the end of a full batch and wait for it; the relay     *)
(* never waits for a later one, and when the block appears a               *)
(* reorganisation it waited through is found.  The batch is counted from   *)
(* the block the last round started from, which is above the head when the *)
(* client has gone to a heavier, shorter fork since.                       *)
ClientCatchesUp ==
  <>[](\/ Number(tip) < last_block_number + totalSubmitBlock
       \/ /\ previousBlockNumber # None /\ last_block_number < previousBlockNumber
          /\ Number(tip) < previousBlockNumber + totalSubmitBlock
       \/ Missed)
=============================================================================
