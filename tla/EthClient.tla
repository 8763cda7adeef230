------------------------------ MODULE EthClient ------------------------------
(***************************************************************************)
(* The Ethereum light client that runs on NEAR                             *)
(* (contracts/near/eth-client/src/lib.rs).                                 *)
(*                                                                         *)
(* Headers arrive one by one, each after its parent.  The client keeps all *)
(* headers of the last finalized_gc_threshold numbers, forks included, and *)
(* one hash per number of the heaviest chain for the last                  *)
(* hashes_gc_threshold numbers.                                            *)
(*                                                                         *)
(* A call is one atomic step; a panic reverts it, so an assertion is a     *)
(* conjunct of the guard.                                                  *)
(***************************************************************************)
EXTENDS Integers, FiniteSets

CONSTANTS
  Hashes,                 \* header hashes; a hash determines its header
  Header,                 \* hash -> [parent_hash, number, difficulty, sound]
  Ancestor,               \* hash -> depth -> the hash the stored parents lead to
  first_header,
  Zero,                   \* H256::default()
  None,                   \* Option::None
  validate_ethash, hashes_gc_threshold, finalized_gc_threshold, num_confirmations,
  Accounts, Self,         \* callers; the account the contract is deployed on
  TrustedHeaders,         \* headers a trusted signer submits
  MaxNumber               \* bound on header numbers

VARIABLES
  best_header_hash,
  canonical_header_hashes,  \* number -> hash, or None
  all_header_hashes,        \* number -> set of hashes
  headers,                  \* hashes with a stored header
  infos,                    \* hash -> HeaderInfo, or None
  trusted_signer, paused

chainVars == <<best_header_hash, canonical_header_hashes, all_header_hashes, headers, infos>>
vars == <<chainVars, trusted_signer, paused>>

-----------------------------------------------------------------------------
Numbers == 0 .. MaxNumber
Number(h) == Header[h].number

(* HeaderInfo.parent_hash: init stores the default for the first header. *)
ParentHash(h) == IF h = first_header THEN Zero ELSE Header[h].parent_hash

IsHeader(r) ==
  /\ r.number \in Numbers /\ r.difficulty \in Nat /\ r.sound \in BOOLEAN
  /\ r.parent_hash \in Hashes \cup {Zero}

HeaderInfo == [total_difficulty : Nat, parent_hash : Hashes \cup {Zero}, number : Numbers]

ASSUME ConstantTypes ==
  /\ MaxNumber \in Nat
  /\ first_header \in Hashes /\ Zero \notin Hashes /\ None \notin Hashes /\ None # Zero
  /\ None \notin HeaderInfo /\ None \notin Accounts /\ Self \in Accounts
  /\ \A h \in Hashes : IsHeader(Header[h])
  /\ validate_ethash \in BOOLEAN /\ num_confirmations \in Nat

(* The deployment keeps a number of headers, and no fewer hashes. *)
ASSUME Thresholds ==
  /\ finalized_gc_threshold \in Nat \ {0}
  /\ hashes_gc_threshold \in Nat
  /\ hashes_gc_threshold >= finalized_gc_threshold

(* A trusted signer relays headers of Ethereum. *)
ASSUME TrustedHeadersNumbered ==
  \A h \in TrustedHeaders : Header[h].parent_hash \in Hashes =>
    Number(h) = Number(Header[h].parent_hash) + 1

(* Depth 0 is the header, one deeper is the parent. *)
ASSUME AncestorTable ==
  \A h \in Hashes :
    /\ Ancestor[h] \in [0 .. MaxNumber -> Hashes \cup {Zero}]
    /\ Ancestor[h][0] = h
    /\ \A k \in 0 .. MaxNumber - 1 :
         LET a == Ancestor[h][k] IN
         Ancestor[h][k + 1] = IF a \in Hashes THEN ParentHash(a) ELSE Zero

Known(h) == h \in Hashes /\ infos[h] # None
BestInfo == infos[best_header_hash]

-----------------------------------------------------------------------------
(* Views. *)

last_block_number == IF BestInfo = None THEN 0 ELSE BestInfo.number

block_hash(index) == canonical_header_hashes[index]

block_hash_safe(index) ==
  IF index + num_confirmations > last_block_number THEN None ELSE block_hash(index)

-----------------------------------------------------------------------------
(* Operations. *)

(* Deployment with init: the first header alone, with no difficulty. *)
Init ==
  /\ best_header_hash = first_header
  /\ canonical_header_hashes =
       [n \in Numbers |-> IF n = Number(first_header) THEN first_header ELSE None]
  /\ all_header_hashes =
       [n \in Numbers |-> IF n = Number(first_header) THEN {first_header} ELSE {}]
  /\ headers = {first_header}
  /\ infos = [h \in Hashes |->
       IF h = first_header
       THEN [total_difficulty |-> 0, parent_hash |-> Zero, number |-> Number(h)]
       ELSE None]
  /\ trusted_signer \in Accounts \cup {None}
  /\ paused = FALSE

(* verify_header.  sound stands for the proof of work and the gas, time    *)
(* and size conditions, which the header and its parent determine.         *)
verify_header(h) ==
  LET prev == Header[Header[h].parent_hash]
      difficulty == Header[h].difficulty
  IN  /\ Header[h].sound
      /\ validate_ethash => /\ difficulty < (prev.difficulty * 101) \div 100
                            /\ difficulty > (prev.difficulty * 99) \div 100
      /\ Number(h) = prev.number + 1

NewInfo(h) ==
  [total_difficulty |-> infos[Header[h].parent_hash].total_difficulty + Header[h].difficulty,
   parent_hash |-> Header[h].parent_hash,
   number |-> Number(h)]

(* Variant: a longer chain wins. *)
NewBestByNumber(h) == Number(h) > BestInfo.number

NewBest(h) ==
  LET td == NewInfo(h).total_difficulty IN
  \/ td > BestInfo.total_difficulty
  \/ td = BestInfo.total_difficulty /\ Header[h].difficulty % 2 = 0

(* Variant: the loop stops one step early. *)
ReplacedOnce(h) == IF Number(h) >= 1 THEN {1} ELSE {}

(* The depths at which the loop of record_header writes an ancestor: up to *)
(* and including the first that was there before or has no info.           *)
Replaced(h) ==
  {k \in 1 .. Number(h) :
     \A j \in 1 .. k - 1 :
       /\ canonical_header_hashes[Number(h) - j] # Ancestor[h][j]
       /\ Known(Ancestor[h][j])}

Canonical(h) ==
  [n \in Numbers |->
     IF n \in Number(h) + 1 .. BestInfo.number THEN None
     ELSE IF n = Number(h) THEN h
     ELSE IF Number(h) - n \in Replaced(h) THEN Ancestor[h][Number(h) - n]
     ELSE canonical_header_hashes[n]]

(* The numbers a gc loop visits: from n down to the first absent one. *)
RunDown(present, n) == {k \in present : k <= n /\ \A j \in k .. n : j \in present}

GcCanonicalEarly(hashes, n) ==
  LET old == RunDown({k \in Numbers : hashes[k] # None}, n - hashes_gc_threshold + 1)
  IN  [k \in Numbers |-> IF k \in old THEN None ELSE hashes[k]]

gc_canonical_chain(hashes, n) ==
  LET old == RunDown({k \in Numbers : hashes[k] # None}, n - hashes_gc_threshold)
  IN  [k \in Numbers |-> IF k \in old THEN None ELSE hashes[k]]

(* Variants: the loop is left after one number, or starts one too high. *)
GcHeadersOnce(all, n) ==
  {k \in Numbers : k = n - finalized_gc_threshold}

GcHeadersEarly(all, n) ==
  RunDown({k \in Numbers : all[k] # {}}, n - finalized_gc_threshold + 1)

(* gc_headers forgets the headers of these numbers. *)
gc_headers(all, n) ==
  RunDown({k \in Numbers : all[k] # {}}, n - finalized_gc_threshold)

(* Variant: the index of hashes by number is not collected. *)
ForgetButIndex(all, old) == all

ForgetNumbers(all, old) == [n \in Numbers |-> IF n \in old THEN {} ELSE all[n]]

record_header(h) ==
  LET n == Number(h)
      all == [all_header_hashes EXCEPT ![n] = @ \cup {h}]
      old == IF NewBest(h) THEN gc_headers(all, n) ELSE {}
      forgotten == UNION {all[k] : k \in old}
  IN  /\ n + finalized_gc_threshold >= BestInfo.number
      /\ Known(Header[h].parent_hash)
      /\ h \notin all_header_hashes[n]
      /\ all_header_hashes' = ForgetNumbers(all, old)
      /\ headers' = (headers \cup {h}) \ forgotten
      /\ infos' = [x \in Hashes |-> IF x \in forgotten THEN None
                                    ELSE IF x = h THEN NewInfo(h) ELSE infos[x]]
      /\ IF NewBest(h)
         THEN /\ best_header_hash' = h
              /\ canonical_header_hashes' = gc_canonical_chain(Canonical(h), n)
         ELSE UNCHANGED <<best_header_hash, canonical_header_hashes>>

is_paused(caller) == paused /\ caller # Self

add_block_header(caller, h) ==
  /\ ~is_paused(caller)
  /\ IF trusted_signer # None
     THEN caller = trusted_signer /\ h \in TrustedHeaders
     ELSE Header[h].parent_hash \in headers /\ verify_header(h)
  /\ record_header(h)
  /\ UNCHANGED <<trusted_signer, paused>>

update_trusted_signer(caller, signer) ==
  /\ caller = Self
  /\ trusted_signer' = signer
  /\ UNCHANGED <<chainVars, paused>>

set_paused(caller, mask) ==
  /\ caller = Self
  /\ paused' = mask
  /\ UNCHANGED <<chainVars, trusted_signer>>

Next ==
  \E a \in Accounts :
    \/ \E h \in Hashes : add_block_header(a, h)
    \/ \E s \in Accounts \cup {None} : update_trusted_signer(a, s)
    \/ \E mask \in BOOLEAN : set_paused(a, mask)

Spec == Init /\ [][Next]_vars

-----------------------------------------------------------------------------
(* Properties. *)

(* The maps have their declared types. *)
TypeOK ==
  /\ best_header_hash \in Hashes
  /\ canonical_header_hashes \in [Numbers -> Hashes \cup {Zero, None}]
  /\ all_header_hashes \in [Numbers -> SUBSET Hashes]
  /\ headers \subseteq Hashes
  /\ infos \in [Hashes -> HeaderInfo \cup {None}]
  /\ trusted_signer \in Accounts \cup {None}
  /\ paused \in BOOLEAN

(* The best header is never collected, and no header the client knows has  *)
(* a higher cumulative difficulty, whatever the order in which forks grew. *)
BestIsHeaviest ==
  /\ Known(best_header_hash)
  /\ \A h \in Hashes : Known(h) => infos[h].total_difficulty <= BestInfo.total_difficulty

(* The canonical chain ends in the best header, and below it every hash    *)
(* whose parent is still known is preceded by that parent: the walk back   *)
(* that stops at the first agreeing number leaves no stale hash above.     *)
CanonicalIsBestChain ==
  LET canonical == canonical_header_hashes IN
  /\ canonical[BestInfo.number] = best_header_hash
  /\ \A n \in Numbers : n > BestInfo.number => canonical[n] = None
  /\ \A n \in Numbers :
       Known(canonical[n]) =>
         /\ infos[canonical[n]].number = n
         /\ Known(infos[canonical[n]].parent_hash)
              => n > 0 /\ canonical[n - 1] = infos[canonical[n]].parent_hash

(* The three maps of headers are collected together: a header is in all of *)
(* them or in none, under its own number.                                  *)
IndexesAgree ==
  /\ headers = {h \in Hashes : Known(h)}
  /\ \A n \in Numbers : all_header_hashes[n] = {h \in headers : infos[h].number = n}

(* The gc loop stops at the first number without headers, yet leaves       *)
(* nothing older behind, also when the head jumps several numbers.         *)
NothingLeftBehind ==
  \A h \in Hashes : Known(h) =>
    infos[h].number + finalized_gc_threshold > BestInfo.number

(* No more than hashes_gc_threshold hashes are kept. *)
CanonicalBounded ==
  Cardinality({n \in Numbers : canonical_header_hashes[n] # None})
    <= hashes_gc_threshold

(* The best chain never becomes lighter. *)
BestNeverLighter ==
  [][infos'[best_header_hash'].total_difficulty >= BestInfo.total_difficulty]_vars

(* A header is only forgotten once the head is finalized_gc_threshold      *)
(* numbers ahead of it.                                                    *)
RecentHeadersKept ==
  [][\A h \in Hashes : Known(h) /\ ~Known(h)' =>
       infos[h].number + finalized_gc_threshold <= BestInfo'.number]_vars

(* While the best chain is only extended, a hash that block_hash_safe      *)
(* returned is returned until it is too old: numbers are reassigned by a   *)
(* switch to another fork only.                                            *)
ExtensionKeepsSafe ==
  [][Header[best_header_hash'].parent_hash = best_header_hash =>
       \A n \in Numbers : block_hash_safe(n) # None =>
         \/ block_hash_safe(n)' = block_hash_safe(n)
         \/ block_hash_safe(n)' = None /\ n + hashes_gc_threshold <= BestInfo'.number]_vars

(* block_hash returns hashes of one chain: each is the parent of the next. *)
CanonicalUnbroken ==
  \A n \in Numbers \ {0} :
    LET hash == canonical_header_hashes[n] IN
    hash \in Hashes /\ canonical_header_hashes[n - 1] # None =>
      canonical_header_hashes[n - 1] = Header[hash].parent_hash
=============================================================================
