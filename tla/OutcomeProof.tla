---------------------------- MODULE OutcomeProof -----------------------------
(***************************************************************************)
(* A proof of a NEAR outcome on its way to Ethereum: the steps of the      *)
(* script testing/transfer-eth-erc20/from-near.js after the withdrawal,    *)
(* the encoding of utils/borshify-proof.js, and NearProver, which decodes  *)
(* the proof and checks three merkle paths against a root of NearBridge.   *)
(*                                                                         *)
(* Encoded data is a sequence of fields <<type, value>>; a decoder that is *)
(* out of step with the encoder meets a field of another type, which       *)
(* stands for the garbage it would read.  Hashes are symbolic.  NearBridge *)
(* is reduced to what its users see: the heights that bridgeState has      *)
(* reported keep their merkle roots.                                       *)
(***************************************************************************)
EXTENDS Naturals, Sequences, FiniteSets, SequencesExt

CONSTANTS None,
          Bodies(_),    \* what the shards of a block may have executed
          Withdrawals,  \* outcomes that a withdrawal may have
          MaxHeight     \* bound: blocks of NEAR

VARIABLES withdrawal,   \* the outcome that is to be proved
          processed,    \* the height of the block that processed its receipt
          chain,        \* the final blocks of NEAR
          roots,        \* blockMerkleRoots of NearBridge
          paused,       \* whether proveOutcome is paused
          script        \* where the script is and what it knows

vars == <<withdrawal, processed, chain, roots, paused, script>>

-----------------------------------------------------------------------------
(* Merkle trees.  A path has the sibling of every level and its side.      *)

Sha(x) == <<"sha", x>>

combine(a, b) == <<"pair", a, b>>

\* A level of a tree: neighbours are combined, a node without one stays.
Level(nodes) ==
  [i \in 1..((Len(nodes) + 1) \div 2) |->
     IF 2 * i <= Len(nodes) THEN combine(nodes[2 * i - 1], nodes[2 * i]) ELSE nodes[2 * i - 1]]

RECURSIVE MerkleRoot(_)
MerkleRoot(nodes) ==
  IF nodes = <<>> THEN <<"zero">>
  ELSE IF Len(nodes) = 1 THEN nodes[1]
  ELSE MerkleRoot(Level(nodes))

Item(hash, direction) == [hash |-> hash, direction |-> direction]

RECURSIVE MerklePath(_, _)
MerklePath(nodes, i) ==
  IF Len(nodes) <= 1
  THEN <<>>
  ELSE (IF i % 2 = 0 THEN <<Item(nodes[i - 1], "Left")>>
        ELSE IF i < Len(nodes) THEN <<Item(nodes[i + 1], "Right")>>
        ELSE <<>>)
       \o MerklePath(Level(nodes), (i + 1) \div 2)

-----------------------------------------------------------------------------
(* NEAR.  A block has, for each shard, outcomes of blocks before it.       *)

\* The fields of an outcome that are hashed together.
Partial(outcome) ==
  <<<<"u32", Len(outcome.receipt_ids)>>>>
    \o [i \in DOMAIN outcome.receipt_ids |-> <<"hash", outcome.receipt_ids[i]>>]
    \o <<<<"u64", "gas_burnt">>, <<"u128", "tokens_burnt">>,
         <<"u32", 1>>, <<"raw", "executor_id">>>>
    \o CASE outcome.status = "Unknown" -> <<<<"u8", 0>>>>
         [] outcome.status = "Failure" -> <<<<"u8", 1>>>>
         [] outcome.status = "SuccessValue" ->
              <<<<"u8", 2>>, <<"u32", 1>>, <<"raw", "value">>>>
         [] outcome.status = "SuccessReceiptId" -> <<<<"u8", 3>>, <<"hash", <<"receipt">>>>>>

OutcomeHash(outcome) == <<"outcome", <<outcome.id>>, Partial(outcome), outcome.logs>>

ShardRoots(shards) ==
  [s \in DOMAIN shards |->
     Sha(MerkleRoot([i \in DOMAIN shards[s] |-> OutcomeHash(shards[s][i])]))]

RECURSIVE HeaderHash(_, _)
RECURSIVE InnerLite(_, _)
HeaderHash(c, h) ==
  combine(combine(Sha(InnerLite(c, h)), <<"inner_rest", h>>),
          IF h = 1 THEN <<"zero">> ELSE HeaderHash(c, h - 1))
InnerLite(c, h) ==
  [height |-> h,
   outcome_root |-> MerkleRoot(ShardRoots(c[h])),
   block_merkle_root |-> MerkleRoot([g \in 1..(h - 1) |-> HeaderHash(c, g)])]

\* The answer of a node to light_client_proof: the proof of the withdrawal in
\* the block that holds it, and of that block under the root of the head.
light_client_proof(c, head) ==
  LET h == CHOOSE g \in DOMAIN c : \E s \in DOMAIN c[g] : withdrawal \in Range(c[g][s])
      s == CHOOSE t \in DOMAIN c[h] : withdrawal \in Range(c[h][t])
      i == CHOOSE j \in DOMAIN c[h][s] : c[h][s][j] = withdrawal
  IN  [outcome |-> withdrawal,
       outcome_proof |-> MerklePath([j \in DOMAIN c[h][s] |-> OutcomeHash(c[h][s][j])], i),
       outcome_root_proof |-> MerklePath(ShardRoots(c[h]), s),
       prev_block_hash |-> IF h = 1 THEN <<"zero">> ELSE HeaderHash(c, h - 1),
       inner_rest_hash |-> <<"inner_rest", h>>,
       inner_lite |-> InnerLite(c, h),
       block_proof |-> MerklePath([g \in 1..(head - 1) |-> HeaderHash(c, g)], h)]

\* The height of the block that holds the outcome, or 0.
Holds(c) ==
  LET hs == {h \in DOMAIN c : \E s \in DOMAIN c[h] : withdrawal \in Range(c[h][s])}
  IN  IF hs = {} THEN 0 ELSE CHOOSE h \in hs : TRUE

-----------------------------------------------------------------------------
(* borshifyOutcomeProof.  Of the logs only the number is written, and the  *)
(* path from the shard to the block is written as empty.                   *)

\* Variant: a sibling to the left is written as one to the right.
DirectionSwapped(direction) == IF direction = "Right" THEN 0 ELSE 1

Direction(direction) == IF direction = "Right" THEN 1 ELSE 0

PathFields(path) ==
  <<<<"u32", Len(path)>>>>
    \o FlattenSeq([i \in DOMAIN path |->
                     <<<<"hash", path[i].hash>>, <<"u8", Direction(path[i].direction)>>>>])

Throws(proof) == proof.outcome.status \in {"Unknown", "Failure"}

borshifyOutcomeProof(proof) ==
  PathFields(proof.outcome_proof)
    \o <<<<"hash", <<"block_hash">>>>, <<"hash", <<proof.outcome.id>>>>,
         <<"u32", Len(proof.outcome.logs)>>>>
    \o Partial(proof.outcome)
    \o <<<<"u32", 0>>>>
    \o <<<<"hash", proof.prev_block_hash>>, <<"hash", proof.inner_rest_hash>>,
         <<"inner_lite", proof.inner_lite>>>>
    \o PathFields(proof.block_proof)

-----------------------------------------------------------------------------
(* ProofDecoder.  Each operator yields the position after what it reads,   *)
(* or 0 for a revert.                                                      *)

IsField(d, i, type) == i \in DOMAIN d /\ d[i][1] = type

\* Reads as many groups of fields as the number at i says.
Groups(d, i, types) ==
  IF ~IsField(d, i, "u32") \/ d[i][2] \notin 0..Len(d)
  THEN 0
  ELSE LET n == d[i][2]
           m == Len(types)
       IN  IF \A g \in 0..(n - 1), k \in 1..m : IsField(d, i + m * g + k, types[k])
           THEN i + m * n + 1
           ELSE 0

FixedFields(d, i, types) ==
  IF i # 0 /\ \A k \in DOMAIN types : IsField(d, i + k - 1, types[k]) THEN i + Len(types) ELSE 0

decodeMerklePath(d, i) ==
  LET next == IF i = 0 THEN 0 ELSE Groups(d, i, <<"hash", "u8">>)
  IN  IF next # 0 /\ \A k \in (i + 1)..(next - 1) : (k - i) % 2 = 0 => d[k][2] < 2
      THEN next ELSE 0

PathAt(d, i) ==
  [k \in 1..d[i][2] |-> Item(d[i + 2 * k - 1][2], d[i + 2 * k][2])]

decodeExecutionStatus(d, i) ==
  IF i = 0 \/ ~IsField(d, i, "u8") THEN 0
  ELSE CASE d[i][2] \in {0, 1} -> i + 1
         [] d[i][2] = 2 -> FixedFields(d, i + 1, <<"u32", "raw">>)
         [] d[i][2] = 3 -> FixedFields(d, i + 1, <<"hash">>)
         [] OTHER -> 0

\* The position after an outcome whose hashed part starts at i.
decodeExecutionOutcome(d, i) ==
  decodeExecutionStatus(d,
    FixedFields(d, IF i = 0 THEN 0 ELSE Groups(d, i, <<"hash">>),
                <<"u64", "u128", "u32", "raw">>))

\* The positions of the parts of a proof.
decodeFullOutcomeProof(d) ==
  LET id == FixedFields(d, decodeMerklePath(d, 1), <<"hash", "hash">>)
      partial == IF id = 0 THEN 0 ELSE Groups(d, id, <<"u32", "raw">>)
      root_proof == decodeExecutionOutcome(d, partial)
      header == decodeMerklePath(d, root_proof)
      block_proof == FixedFields(d, header, <<"hash", "hash", "inner_lite">>)
      done == decodeMerklePath(d, block_proof)
  IN  [ok |-> done = Len(d) + 1, logs |-> id, partial |-> partial, root_proof |-> root_proof,
       header |-> header, block_proof |-> block_proof]

-----------------------------------------------------------------------------
(* NearProver.                                                             *)

_computeRoot(node, path) ==
  FoldLeft(LAMBDA hash, item :
             IF item.direction = 0 THEN combine(item.hash, hash) ELSE combine(hash, item.hash),
           node, path)

proveOutcome(d, blockHeight) ==
  LET at == decodeFullOutcomeProof(d)
      outcome == <<"outcome", d[at.logs - 1][2], SubSeq(d, at.partial, at.root_proof - 1),
                   [k \in 1..d[at.logs][2] |-> d[at.logs + 2 * k][2]]>>
      shard == Sha(_computeRoot(outcome, PathAt(d, 1)))
      inner_lite == d[at.header + 2][2]
      header == combine(combine(Sha(inner_lite), d[at.header + 1][2]), d[at.header][2])
  IN  /\ ~paused
      /\ at.ok
      /\ _computeRoot(shard, PathAt(d, at.root_proof)) = inner_lite.outcome_root
      /\ blockHeight \in DOMAIN roots
      /\ _computeRoot(header, PathAt(d, at.block_proof)) = roots[blockHeight]

\* Variant: the sides are mixed up.
RightIsLeft(proof) ==
  FoldLeft(LAMBDA node, step :
             IF step.direction = "Right" THEN combine(step.hash, node) ELSE combine(node, step.hash),
           combine(combine(Sha(proof.inner_lite), proof.inner_rest_hash), proof.prev_block_hash),
           proof.block_proof)

\* utils/utils.js of the prover: the same root from the answer of the node.
computeMerkleRoot(proof) ==
  FoldLeft(LAMBDA node, step :
             IF step.direction = "Left" THEN combine(step.hash, node) ELSE combine(node, step.hash),
           combine(combine(Sha(proof.inner_lite), proof.inner_rest_hash), proof.prev_block_hash),
           proof.block_proof)

-----------------------------------------------------------------------------
(* The chains and the script.                                              *)

Executed == Holds(chain) # 0

\* A block becomes final.  The outcome of the withdrawal is in the block after
\* the one that processed the receipt; with several shards it may come later.
Produced(body) ==
  /\ Len(chain) < MaxHeight
  /\ LET due == processed # None /\ ~Executed
         holds == \E s \in DOMAIN body : withdrawal \in Range(body[s])
     IN  (holds => due) /\ (due /\ Len(body) = 1 => holds)
  /\ chain' = Append(chain, body)
  /\ processed' \in {processed} \cup (IF processed = None THEN {Len(chain')} ELSE {})
  /\ UNCHANGED <<withdrawal, roots, paused, script>>

\* NearBridge has a new head that bridgeState reports.
ClientAdvances(h) ==
  /\ \A g \in DOMAIN roots : g < h
  /\ roots' = [g \in DOMAIN roots \cup {h} |->
                 IF g = h THEN InnerLite(chain, h).block_merkle_root ELSE roots[g]]
  /\ UNCHANGED <<withdrawal, processed, chain, paused, script>>

adminPause ==
  /\ paused' = ~paused
  /\ UNCHANGED <<withdrawal, processed, chain, roots, script>>

Steps == UNCHANGED <<withdrawal, processed, chain, roots, paused>>

\* Waits for a final block above the one that processed the receipt.  Only the
\* heights are compared: with several shards the outcome may not be there yet.  A
\* withdrawal of another form than expected ends the script here.
findWithdrawInBlock ==
  /\ script.pc = "withdrawn"
  /\ processed # None
  /\ Len(chain) > processed
  /\ script' = [pc |-> "find-withdraw", outcomeBlock |-> Len(chain)]
  /\ Steps

Reached(height, outcomeBlock) == height > outcomeBlock

waitBlock ==
  /\ script.pc = "find-withdraw"
  /\ DOMAIN roots # {}
  /\ LET current == CHOOSE h \in DOMAIN roots : \A g \in DOMAIN roots : g <= h
     IN  /\ Reached(current, script.outcomeBlock)
         /\ script' = [pc |-> "wait-block", height |-> current]
  /\ Steps

\* The node has a proof when the outcome is in a block before the head.
Provable(c, head) == Holds(c) \in 1..(head - 1)

\* An error of the node ends the script, which may be tried again.
getProof ==
  /\ script.pc = "wait-block"
  /\ script' = IF Provable(chain, script.height)
               THEN [pc |-> "get-proof", height |-> script.height,
                     proof |-> light_client_proof(chain, script.height)]
               ELSE [pc |-> "withdrawn"]
  /\ Steps

\* The proof is encoded and checked by a call before the tokens are unlocked; any
\* error ends the script, and the proof may be tried again later.
unlock ==
  /\ script.pc = "get-proof"
  /\ IF ~Throws(script.proof) /\ proveOutcome(borshifyOutcomeProof(script.proof), script.height)
     THEN script' = [script EXCEPT !.pc = "unlocked"]
     ELSE script' = [pc |-> "withdrawn"]
  /\ Steps

-----------------------------------------------------------------------------

Init ==
  /\ withdrawal \in Withdrawals
  /\ processed \in {None, 0}
  /\ chain = <<>>
  /\ roots = [h \in {} |-> None]
  /\ paused = FALSE
  /\ script = [pc |-> "withdrawn"]

Next ==
  \/ \E body \in Bodies(withdrawal) : Produced(body)
  \/ \E h \in DOMAIN chain : ClientAdvances(h)
  \/ adminPause
  \/ findWithdrawInBlock
  \/ waitBlock
  \/ getProof
  \/ unlock

Spec == Init /\ [][Next]_vars

-----------------------------------------------------------------------------
(* Properties.                                                             *)

\* What borshifyOutcomeProof can express: an outcome without logs that succeeded,
\* in a block of one shard.
Supported ==
  /\ withdrawal.logs = <<>>
  /\ withdrawal.status \in {"SuccessValue", "SuccessReceiptId"}
  /\ Len(chain[Holds(chain)]) = 1

Proved(proof, height) ==
  ~Throws(proof) /\ proveOutcome(borshifyOutcomeProof(proof), height)

\* The proof that the script has got passes the encoder, the decoder and
\* proveOutcome exactly for the outcomes that the encoder supports, and exactly
\* under the root of the head it was asked for, wherever the outcome is in its
\* shard and the block in the chain.  With one shard the node always has a proof
\* when waitBlock has seen a head that is high enough.
ProvedExactly ==
  /\ script.pc = "get-proof" /\ ~paused =>
       \A h \in DOMAIN roots :
         Proved(script.proof, h) <=> Supported /\ h = script.height
  /\ script.pc = "wait-block" /\ (\A h \in DOMAIN chain : Len(chain[h]) = 1) =>
       Provable(chain, script.height)

\* computeMerkleRoot of the prover's scripts, which takes the answer of the node
\* as it is, finds the root that NearBridge has for the head.
RootsAgree ==
  script.pc = "get-proof" => computeMerkleRoot(script.proof) = roots[script.height]

=============================================================================
