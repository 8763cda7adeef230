------------------------------ MODULE TrieProof ------------------------------
(***************************************************************************)
(* Proofs that a receipt is in the trie of the receipts of a block: the    *)
(* check verify_trie_proof of contracts/near/eth-prover, and the trie and  *)
(* the paths that the package merkle-patricia-tree gives the extractor.    *)
(*                                                                         *)
(* A node is the list of its items, 17 of a branch, two of a leaf or of an *)
(* extension.  Hash(n) stands for the hash of the encoding of n.  The      *)
(* encoding of a receipt is longer than 32 bytes, so every node is hashed  *)
(* and the branch of the check for shorter nodes is never taken.           *)
(***************************************************************************)
EXTENDS Naturals, Sequences, FiniteSets, SequencesExt

Hash(node) == [hash |-> node]

Value(v) == [value |-> v]

Bytes(bs) == [bytes |-> bs]

Empty == [empty |-> TRUE]

\* What a failed assertion, or an index out of range, ends in.
Panic == [panic |-> TRUE]

\* The nibbles of a sequence of bytes.
Nibbles(bs) == FlattenSeq([i \in DOMAIN bs |-> <<bs[i] \div 16, bs[i] % 16>>])

\* encode: the bytes of a transaction index, here below 256.
encode(index) ==
  IF index = 0 THEN <<128>> ELSE IF index < 128 THEN <<index>> ELSE <<129, index>>

-----------------------------------------------------------------------------
(* The trie.  Its content is a function from sequences of nibbles.         *)

\* The path of a leaf or an extension: the first nibble tells which of the two
\* it is, and whether the number of nibbles is odd.
EncodePath(path, isLeaf) ==
  LET odd == Len(path) % 2
      flag == (IF isLeaf THEN 2 ELSE 0) + odd
      all == <<flag>> \o (IF odd = 1 THEN <<>> ELSE <<0>>) \o path
  IN  Bytes([i \in 1..(Len(all) \div 2) |-> 16 * all[2 * i - 1] + all[2 * i]])

KeysBelow(content, at) == {k \in DOMAIN content : IsPrefix(at, k)}

\* The node for the part of the content below a prefix.
RECURSIVE Node(_, _)
Node(content, at) ==
  LET keys == KeysBelow(content, at)
      prefix == LongestCommonPrefix(keys)
      path == SubSeq(prefix, Len(at) + 1, Len(prefix))
      Child(x) == IF KeysBelow(content, Append(at, x)) = {}
                  THEN Empty
                  ELSE Hash(Node(content, Append(at, x)))
  IN  IF Cardinality(keys) = 1
      THEN <<EncodePath(path, TRUE), Value(content[prefix])>>
      ELSE IF path # <<>>
      THEN <<EncodePath(path, FALSE), Hash(Node(content, prefix))>>
      ELSE [i \in 1..17 |->
              IF i <= 16 THEN Child(i - 1)
              ELSE IF at \in keys THEN Value(content[at]) ELSE Empty]

IsBranch(content, at) ==
  /\ Cardinality(KeysBelow(content, at)) > 1
  /\ LongestCommonPrefix(KeysBelow(content, at)) = at

\* The root, every branch and every child of a branch is a node.
IsNode(content, at) ==
  /\ KeysBelow(content, at) # {}
  /\ at = <<>> \/ IsBranch(content, at) \/ IsBranch(content, Front(at))

\* findPath: the nodes on the way to the key, as far as there is a way.
FindPath(content, key) ==
  LET Prefix(n) == SubSeq(key, 1, n - 1)
  IN  FlattenSeq([n \in 1..(Len(key) + 1) |->
                    IF IsNode(content, Prefix(n)) THEN <<Node(content, Prefix(n))>> ELSE <<>>])

-----------------------------------------------------------------------------
(* The check.                                                              *)

\* The path of a node, and whether its first nibble is that of a leaf.  A first
\* nibble above 3 is an error.
PathOf(bs) ==
  LET head == bs[1] \div 16
  IN  (IF head % 2 = 1 THEN <<bs[1] % 16>> ELSE <<>>) \o Nibbles(Tail(bs))

IsLeaf(bs) == bs[1] \div 16 >= 2

IsPath(bs) == bs[1] \div 16 <= 3

\* The nibbles of the key from key_index on start with the path.
Follows(path, key, key_index) ==
  /\ key_index + Len(path) <= Len(key)
  /\ path = SubSeq(key, key_index + 1, key_index + Len(path))

\* key_index counts the nibbles that were used, proof_index the node from 1.
RECURSIVE _verify_trie_proof(_, _, _, _, _)
_verify_trie_proof(expected_root, key, proof, key_index, proof_index) ==
  IF proof_index > Len(proof) \/ Hash(proof[proof_index]) # expected_root
  THEN Panic
  ELSE LET node == proof[proof_index]
           path == PathOf(node[1].bytes)
           last == key_index + Len(path)
       IN  CASE Len(node) = 17 /\ key_index = Len(key) ->
                  IF proof_index = Len(proof) THEN node[17] ELSE Panic
             [] Len(node) = 17 /\ key_index # Len(key) ->
                  _verify_trie_proof(node[key[key_index + 1] + 1], key, proof,
                                     key_index + 1, proof_index + 1)
             [] Len(node) = 2 ->
                  IF ~IsPath(node[1].bytes) \/ ~Follows(path, key, key_index)
                  THEN Panic
                  ELSE IF IsLeaf(node[1].bytes)
                  THEN IF proof_index = Len(proof) /\ last = Len(key) THEN node[2] ELSE Panic
                  ELSE _verify_trie_proof(node[2], key, proof, last, proof_index + 1)

verify_trie_proof(expected_root, key, proof) ==
  _verify_trie_proof(expected_root, Nibbles(key), proof, 0, 1)

=============================================================================
