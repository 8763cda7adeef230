----------------------------- MODULE EventProof ------------------------------
(***************************************************************************)
(* A proof of an Ethereum event on its way to NEAR: EthProofExtractor and  *)
(* the steps of ethToNearFindProof, which read a receipt, a block, the     *)
(* receipts of the block and the block again from a chain that may         *)
(* reorganise between any two reads; waitBlockSafe of the transfer script; *)
(* and EthProver, which asks the client for the hash of the block and      *)
(* compares it in a callback.                                              *)
(*                                                                         *)
(* A block is the sequence of its transactions, and its hash the chain up  *)
(* to it.  What EthClient does to follow the chain is in EthClient and     *)
(* Eth2NearRelay; here it holds the chain of some earlier moment.          *)
(***************************************************************************)
EXTENDS TrieProof

CONSTANTS None,
          Bodies,             \* the blocks that miners may make
          Logs,               \* the logs of each transaction
          Lock,               \* the transaction that locks the tokens
          Skips,              \* the values of skip_bridge_call that callers give
          num_confirmations,  \* what EthClient was initialised with
          MaxLength,          \* bound: blocks of the chain
          MaxDepth,           \* bound: blocks that a reorganisation replaces
          MaxReorgs,          \* bound: reorganisations
          MaxFaults,          \* bound: reads that fail although repeated
          MaxAdmin            \* bound: calls of the owner of the prover

VARIABLES chain,              \* the chain that the Ethereum node answers from
          reorgs,             \* how often it reorganised
          client,             \* the chain that EthClient has
          event,              \* the event that is to be proved
          extractor,          \* what the extractor has read so far
          faults,             \* how many reads failed
          bridge,             \* bridge_smart_contract of the prover
          paused,             \* whether verify_log_entry is paused
          admin,              \* how often the owner made a call
          call,               \* the call of verify_log_entry
          witness             \* history: the client when it answered

extractorVars == <<event, extractor, faults>>
proverVars == <<bridge, paused, admin>>
vars == <<chain, reorgs, client, extractorVars, proverVars, call, witness>>

-----------------------------------------------------------------------------
(* What a node tells of a chain.                                           *)

Transactions(c) == UNION {Range(c[n]) : n \in DOMAIN c}

BlockHash(c, n) == SubSeq(c, 1, n)

\* A receipt counts the gas of the transactions before it in the block.
ReceiptData(body, i) == [tx |-> body[i], before |-> SubSeq(body, 1, i - 1)]

Content(body) ==
  [k \in {Nibbles(encode(i - 1)) : i \in DOMAIN body} |->
     ReceiptData(body, CHOOSE i \in DOMAIN body : Nibbles(encode(i - 1)) = k)]

ReceiptsRoot ==
  [body \in Bodies |-> IF body = <<>> THEN Empty ELSE Hash(Node(Content(body), <<>>))]

Header(c, n) ==
  [number |-> n, receipts_root |-> ReceiptsRoot[c[n]], hash |-> BlockHash(c, n)]

\* How many logs the transactions before the i-th of a block have.
LogsBefore(body, i) == FoldLeft(+, 0, [j \in 1..(i - 1) |-> Len(Logs[body[j]])])

Receipt(c, tx) ==
  IF tx \notin Transactions(c)
  THEN None
  ELSE LET n == CHOOSE m \in DOMAIN c : tx \in Range(c[m])
           i == CHOOSE j \in DOMAIN c[n] : c[n][j] = tx
       IN  [blockNumber |-> n, transactionIndex |-> i - 1,
            data |-> ReceiptData(c[n], i),
            logs |-> [j \in DOMAIN Logs[tx] |->
                        [log |-> Logs[tx][j], logIndex |-> LogsBefore(c[n], i) + j - 1]]]

\* The event Locked, the last log of the transaction.
LockedEvent(c) ==
  LET logs == Receipt(c, Lock).logs
  IN  [transactionHash |-> Lock, log |-> logs[Len(logs)].log,
       logIndex |-> logs[Len(logs)].logIndex]

-----------------------------------------------------------------------------
(* The chain and the client.                                               *)

\* A transaction is in one block only.  The bound on the length leaves room for
\* the confirmations of every transaction.
Fits(c) ==
  /\ \A n \in DOMAIN c, m \in DOMAIN c : n # m => Range(c[n]) \cap Range(c[m]) = {}
  /\ \A n \in DOMAIN c : c[n] # <<>> => n + num_confirmations <= MaxLength

Mined(body) ==
  /\ Len(chain) < MaxLength
  /\ chain' = Append(chain, body)
  /\ Fits(chain')
  /\ UNCHANGED <<reorgs, client, extractorVars, proverVars, call, witness>>

Reorganised(depth, bodies) ==
  /\ reorgs < MaxReorgs
  /\ depth <= Len(chain)
  /\ chain' = SubSeq(chain, 1, Len(chain) - depth) \o bodies
  /\ Fits(chain')
  /\ reorgs' = reorgs + 1
  /\ UNCHANGED <<client, extractorVars, proverVars, call, witness>>

\* The relay has brought the client up to date.
Relayed ==
  /\ client # chain
  /\ client' = chain
  /\ UNCHANGED <<chain, reorgs, extractorVars, proverVars, call, witness>>

\* Variant: the block itself counts as a confirmation.
CountsItself(c, n) ==
  IF n \notin DOMAIN c \/ n + num_confirmations > Len(c) + 1 THEN None ELSE BlockHash(c, n)

block_hash_safe(c, n) ==
  IF n \notin DOMAIN c \/ n + num_confirmations > Len(c) THEN None ELSE BlockHash(c, n)

-----------------------------------------------------------------------------
(* The extractor.                                                          *)

Idle == [pc |-> "idle"]

\* The transaction was mined, and its event is handed to the extractor.
Locked ==
  /\ event = None
  /\ Lock \in Transactions(chain)
  /\ event' = LockedEvent(chain)
  /\ UNCHANGED <<chain, reorgs, client, extractor, faults, proverVars, call, witness>>

Reads == UNCHANGED <<chain, reorgs, client, event, faults, proverVars, call, witness>>

extractReceipt ==
  /\ extractor = Idle
  /\ event # None
  /\ LET receipt == Receipt(chain, event.transactionHash)
     IN  extractor' = IF receipt = None
                      THEN Idle
                      ELSE [pc |-> "block", receipt |-> receipt, since |-> reorgs]
  /\ Reads

\* getBlock is repeated until the node has the block.
extractBlock ==
  /\ extractor.pc = "block"
  /\ LET n == extractor.receipt.blockNumber
     IN  extractor' = [pc |-> "trie", receipt |-> extractor.receipt, since |-> extractor.since,
                       number |-> n, body |-> chain[n], read |-> {}, trie |-> [k \in {} |-> None]]
  /\ Reads

Put(trie, key, data) ==
  [k \in DOMAIN trie \cup {key} |-> IF k = key THEN data ELSE trie[k]]

\* The requests of buildTrie are made at once and are answered in any order, each
\* perhaps from another moment; a receipt that is missing is an error.  Each
\* receipt is put at the index that it tells.
buildTrie ==
  /\ extractor.pc = "trie"
  /\ \E i \in DOMAIN extractor.body \ extractor.read :
       LET receipt == Receipt(chain, extractor.body[i])
       IN  extractor' =
             IF receipt = None
             THEN Idle
             ELSE [extractor EXCEPT
                     !.read = @ \cup {i},
                     !.trie = Put(@, Nibbles(encode(receipt.transactionIndex)), receipt.data)]
  /\ Reads

\* The block is read again, by its number, for the header.
extractProof ==
  /\ extractor.pc = "trie"
  /\ extractor.read = DOMAIN extractor.body
  /\ LET index == extractor.receipt.transactionIndex
     IN  extractor' =
           [pc |-> "log", receipt |-> extractor.receipt, since |-> extractor.since,
            number |-> extractor.number,
            header |-> Header(chain, extractor.number),
            proof |-> IF extractor.body = <<>>
                      THEN <<>>
                      ELSE FindPath(extractor.trie, Nibbles(encode(index)))]
  /\ Reads

\* Variant: the index of the log in the block is given for that in the receipt.
BlockLogIndex(receipt) ==
  [log_index |-> event.logIndex, log_entry_data |-> event.log,
   receipt_index |-> receipt.transactionIndex, receipt_data |-> receipt.data,
   header_data |-> extractor.header, proof |-> extractor.proof]

\* The log with the index of the event, and the proof for it.
proofLocker(receipt) ==
  LET i == CHOOSE j \in DOMAIN receipt.logs : receipt.logs[j].logIndex = event.logIndex
  IN  [log_index |-> i - 1, log_entry_data |-> receipt.logs[i].log,
       receipt_index |-> receipt.transactionIndex, receipt_data |-> receipt.data,
       header_data |-> extractor.header, proof |-> extractor.proof]

FindLog ==
  /\ extractor.pc = "log"
  /\ LET receipt == extractor.receipt
     IN  extractor' =
           IF \E j \in DOMAIN receipt.logs : receipt.logs[j].logIndex = event.logIndex
           THEN [pc |-> "wait", number |-> extractor.number, since |-> extractor.since,
                 out |-> proofLocker(receipt)]
           ELSE Idle
  /\ Reads

\* A read fails, also when it is repeated.
ReadFails ==
  /\ faults < MaxFaults
  /\ extractor.pc \notin {"idle", "deposit"}
  /\ faults' = faults + 1
  /\ extractor' = Idle
  /\ UNCHANGED <<chain, reorgs, client, event, proverVars, call, witness>>

\* waitBlockSafe has seen a safe block of that number; the proof is sent.
waitBlockSafe ==
  /\ extractor.pc = "wait"
  /\ block_hash_safe(client, extractor.number) # None
  /\ extractor' = [pc |-> "deposit", number |-> extractor.number]
  /\ call' = [stage |-> "verify_log_entry", args |-> extractor.out]
  /\ UNCHANGED <<chain, reorgs, client, event, faults, proverVars, witness>>

-----------------------------------------------------------------------------
(* The prover.                                                             *)

Calls == UNCHANGED <<chain, reorgs, client, extractorVars, proverVars>>

Returned(result, skip) ==
  [stage |-> "returned", args |-> call.args, skip |-> skip, result |-> result]

At(stage) == call # None /\ call.stage = stage

\* The log is the one that the receipt has at that place.
LogIncluded(a) ==
  LET logs == Logs[a.receipt_data.tx]
  IN  a.log_index + 1 \in DOMAIN logs /\ logs[a.log_index + 1] = a.log_entry_data

\* What the trie of the header has at the index of the receipt.
Data(a) ==
  verify_trie_proof(a.header_data.receipts_root, encode(a.receipt_index), a.proof)

verify_log_entry(skip_bridge_call) ==
  /\ At("verify_log_entry")
  /\ LET a == call.args
     IN  call' =
           IF paused \/ ~LogIncluded(a) \/ Data(a) = Panic
           THEN Returned("panic", skip_bridge_call)
           ELSE IF Data(a) # Value(a.receipt_data)
           THEN Returned("false", skip_bridge_call)
           ELSE IF skip_bridge_call
           THEN Returned("true", skip_bridge_call)
           ELSE [stage |-> "block_hash_safe", args |-> a, to |-> bridge]
  /\ Calls
  /\ UNCHANGED witness

\* The client executes block_hash_safe, in a later block of NEAR.
ClientAnswers ==
  /\ At("block_hash_safe")
  /\ LET asked == IF call.to = "client" THEN client ELSE <<>>
     IN  /\ call' = [stage |-> "on_block_hash", args |-> call.args,
                     hash |-> block_hash_safe(asked, call.args.header_data.number)]
         /\ witness' = asked
  /\ Calls

\* Variant: any answer of the client will do.
AnyHash(hash, expected_block_hash) == hash # None

Matches(hash, expected_block_hash) == hash # None /\ hash = expected_block_hash

\* The callback, in yet a later block.
on_block_hash ==
  /\ At("on_block_hash")
  /\ call' = Returned(IF Matches(call.hash, call.args.header_data.hash) THEN "true" ELSE "false",
                      FALSE)
  /\ Calls
  /\ UNCHANGED witness

\* A deposit that failed is tried again by hand, from the event that was kept.  (The
\* command itself, run again, opens a new log file and would lock again.)
Retry ==
  /\ At("returned")
  /\ call.result # "true"
  /\ call' = None
  /\ witness' = None
  /\ extractor' = Idle
  /\ UNCHANGED <<chain, reorgs, client, event, faults, proverVars>>

Admin ==
  /\ admin < MaxAdmin
  /\ admin' = admin + 1
  /\ UNCHANGED <<chain, reorgs, client, extractorVars, call, witness>>

set_bridge(b) == Admin /\ b # bridge /\ bridge' = b /\ UNCHANGED paused

set_paused == Admin /\ paused' = ~paused /\ UNCHANGED bridge

-----------------------------------------------------------------------------

Init ==
  /\ chain = <<>>
  /\ reorgs = 0
  /\ client = <<>>
  /\ event = None
  /\ extractor = Idle
  /\ faults = 0
  /\ bridge = "client"
  /\ paused = FALSE
  /\ admin = 0
  /\ call = None
  /\ witness = None

Extractor == extractReceipt \/ extractBlock \/ buildTrie \/ extractProof \/ FindLog

Prover == (\E skip \in Skips : verify_log_entry(skip)) \/ ClientAnswers \/ on_block_hash

Next ==
  \/ \E body \in Bodies : Mined(body)
  \/ \E depth \in 1..MaxDepth : \E bodies \in [1..depth -> Bodies] : Reorganised(depth, bodies)
  \/ Relayed
  \/ Locked
  \/ Extractor
  \/ ReadFails
  \/ waitBlockSafe
  \/ Prover
  \/ Retry
  \/ \E b \in {"client", "other"} : set_bridge(b)
  \/ set_paused

Spec == Init /\ [][Next]_vars

-----------------------------------------------------------------------------
(* Properties.                                                             *)

EventProofTypeOK ==
  /\ Fits(chain) /\ Len(chain) \in 0..MaxLength
  /\ Fits(client) /\ Len(client) \in 0..MaxLength
  /\ extractor.pc \in {"idle", "block", "trie", "log", "wait", "deposit"}
  /\ extractor.pc = "trie" => extractor.read \subseteq DOMAIN extractor.body
  /\ extractor.pc = "deposit" <=> call # None
  /\ extractor.pc \in {"wait", "deposit"} => extractor.number \in DOMAIN chain
  /\ bridge \in {"client", "other"} /\ paused \in BOOLEAN
  /\ reorgs \in 0..MaxReorgs /\ faults \in 0..MaxFaults /\ admin \in 0..MaxAdmin

\* What the arguments of verify_log_entry claim is true of a chain.
HasLog(c, a) ==
  LET n == a.header_data.number
      i == a.receipt_index + 1
  IN  /\ n \in DOMAIN c
      /\ i \in DOMAIN c[n]
      /\ ReceiptData(c[n], i) = a.receipt_data
      /\ LogIncluded(a)

Accepted == At("returned") /\ call.result = "true" /\ ~call.skip

\* When verify_log_entry ends with true, the client had, at the moment it was
\* asked, the log at that place of that receipt under enough confirmations,
\* although the receipt, the trie and the header were read at different moments
\* and the client, the bridge account and the chain may have changed since.
AcceptedWasSafe ==
  Accepted =>
    /\ HasLog(witness, call.args)
    /\ call.args.header_data.number + num_confirmations <= Len(witness)

\* As long as no reorganisation replaces more than num_confirmations blocks, an
\* accepted log is in the chain of Ethereum, then and ever after.
AcceptedStays == Accepted => HasLog(chain, call.args)

\* The proof that the extractor puts together from its four reads is one that
\* verify_log_entry accepts up to the question to the client, if the chain was
\* not reorganised between the first read and the last.
ProofHolds ==
  extractor.pc = "wait" /\ extractor.since = reorgs =>
    LET a == extractor.out
    IN  LogIncluded(a) /\ Data(a) = Value(a.receipt_data) /\ HasLog(chain, a)

=============================================================================
