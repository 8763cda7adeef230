-------------------------- MODULE EthClientProofs ---------------------------
(***************************************************************************)
(* The Ethereum client keeps the heaviest chain, and its garbage           *)
(* collection never takes what the next header needs.                      *)
(***************************************************************************)
EXTENDS EthClientHeaderProofs
USE SMTT(30)
-----------------------------------------------------------------------------
(* A header that is recorded without becoming the best. *)
LEMMA SideStep ==
  ASSUME NEW a \in Accounts, NEW h \in Hashes, IInv, add_block_header(a, h), ~NewBest(h)
  PROVE  ChainInv'
<1> DEFINE c == canonical_header_hashes
           p == Header[h].parent_hash
<1>1. HeaderInv /\ Known(best_header_hash) /\ best_header_hash \in Hashes
  BY Zenon DEF IInv, HeaderInv, BestIsHeaviest, Known
<1>2. c' = c /\ best_header_hash' = best_header_hash
  BY Zenon DEF add_block_header, record_header
<1>3. \A x \in Hashes : Known(x)' <=> Known(x) \/ x = h
  BY Zenon, <1>1, RecordEffect DEF Recorded, Survives
<1>4. \A x \in Hashes : x # h => infos'[x] = infos[x]
  BY Zenon DEF add_block_header, record_header
<1>5. BestInfo' = BestInfo
  BY <1>1, <1>2, <1>4, Accepted DEF BestInfo
<1>6. /\ p \in Hashes /\ Known(p) /\ ~Known(h) /\ Number(h) = Number(p) + 1
      /\ h # first_header
  BY Zenon, <1>1, Accepted
<1>7. \A x \in Hashes : Known(x) => infos[x].parent_hash # h
  <2> SUFFICES ASSUME NEW x \in Hashes, Known(x), infos[x].parent_hash = h PROVE FALSE
    BY Zenon
  <2>1. Number(x) = Number(h) + 1
    BY Zenon, <1>1, ConstantTypes DEF HeaderInv, Rooted, ParentHash, InfoOfHeader
  <2> HIDE DEF p
  <2> QED
    BY <2>1, <1>1, <1>6, HeaderFacts DEF HeaderInv, OldestOnly, InfoOfHeader
<1>8. headers' = headers \cup {h} /\ headers \subseteq Hashes
  BY <1>1, <1>3, RecordEffect, LinkedNow
<1>9. CanonicalIsBestChain'
  <2>1. Linked(c, headers, best_header_hash)
    BY Zenon, LinkedNow DEF IInv, ChainInv
  <2>2. /\ \A x \in headers : ParentHash(x) # h
        /\ Linked(c, headers', best_header_hash)
    BY <1>1, <1>7, <1>8, <2>1, LinkedNow, NotYetCanonical
       DEF HeaderInv, InfoOfHeader, Linked
  <2> QED
    BY Zenon, <1>1, <1>2, <2>2, HeaderStep, LinkedNext
<1>10. CanonicalWindow'
  <2> QED
    BY <1>2, <1>3, <1>5, <1>1, <1>6, Accepted, HeaderFacts
       DEF IInv, ChainInv, CanonicalWindow, Present, HeaderInfo, Numbers
<1> QED
  BY <1>9, <1>10, <1>2, <1>3, <1>6, HeaderFacts DEF ChainInv, CanonicalEntries, IInv

(* A header that becomes the best. *)
LEMMA SwitchStep ==
  ASSUME LeastNumbers, NEW a \in Accounts, NEW h \in Hashes, IInv, add_block_header(a, h), NewBest(h)
  PROVE  ChainInv'
<1> DEFINE c == canonical_header_hashes
           n == Number(h)
           p == Header[h].parent_hash
           A(k) == Ancestor[h][k]
           f == finalized_gc_threshold
           g == hashes_gc_threshold
<1>1. HeaderInv /\ Linked(c, headers, best_header_hash)
  BY Zenon, LinkedNow DEF IInv, ChainInv
<1>2. /\ n \in Nat /\ n \in Numbers /\ n <= MaxNumber /\ MaxNumber \in Nat
      /\ f \in Nat \ {0} /\ g \in Nat /\ g >= f
      /\ \A m \in Numbers : m \in Nat /\ m <= MaxNumber
  BY HeaderFacts, Thresholds, ConstantTypes DEF Numbers
<1>3. /\ p \in Hashes /\ p \in headers /\ n = Number(p) + 1 /\ ParentHash(h) = p
      /\ h \notin headers /\ h # first_header
  BY Zenon, <1>1, Accepted, LinkedNow
<1>4. headers' = {x \in headers \cup {h} : Number(x) + f > n}
  BY SMTT(30), <1>1, RecordEffect, LinkedNow DEF Recorded, Survives
<1>5. \A m \in Numbers : c'[m] = IF m + g <= n THEN None ELSE Canonical(h)[m]
  BY Zenon, SwitchEffect
<1>6. /\ Canonical(h)[n] = h
      /\ \A m \in Numbers : m > n => Canonical(h)[m] = None
      /\ \A m \in Numbers : m < n =>
           Canonical(h)[m] = IF n - m \in Replaced(h) THEN A(n - m) ELSE c[m]
  BY SMTT(30), WalkEffect
<1>7. /\ best_header_hash' = h
      /\ 1 \in Replaced(h) /\ A(1) = p
      /\ \A k \in Replaced(h) : k \in 1 .. n
      /\ \A k \in Replaced(h) : A(k) \in Hashes => Number(A(k)) = n - k
  BY <1>1, RecordEffect, WalkSteps, WalkNumbers
<1>8. /\ headers \subseteq Hashes /\ headers' \subseteq Hashes
      /\ \A x \in Hashes : Number(x) \in Nat /\ Number(x) \in Numbers
      /\ \A x \in Hashes : (x \in headers \/ x = h) /\ ParentHash(x) \in Hashes =>
           Number(x) = Number(ParentHash(x)) + 1
  BY Zenon, <1>1, <1>4, <1>3, LinkedNow, HeaderFacts, ConstantTypes
     DEF HeaderInv, Rooted, ParentHash
<1>9. ASSUME NEW m \in Numbers, m < n, c'[m] \in headers'
       PROVE  /\ Number(c'[m]) = m
              /\ ParentHash(c'[m]) \in headers' => m > 0 /\ c'[m - 1] = ParentHash(c'[m])
  <2> DEFINE x == c'[m]
             y == ParentHash(x)
  <2>1. /\ x = Canonical(h)[m] /\ x \in Hashes /\ m + g > n
        /\ Number(x) = m
    BY <1>2, <1>5, <1>8, <1>9, <1>6, <1>7, ConstantTypes
       DEF IInv, ChainInv, CanonicalEntries
  <2>2. ASSUME y \in headers'
        PROVE  m > 0 /\ c'[m - 1] = y
    <3>1. /\ m > 0 /\ m - 1 \in Numbers /\ m - 1 < n /\ (m - 1) + g > n
          /\ c'[m - 1] = Canonical(h)[m - 1]
          /\ c[m] = x => c[m - 1] = y
      BY <1>2, <1>8, <1>9, <2>1, <1>5, <1>1, <1>4, <2>2 DEF Linked
    <3>2. CASE n - m \in Replaced(h)
      <4>1. /\ x = A(n - m)
            /\ n - m \in 0 .. MaxNumber - 1 /\ (n - m) + 1 = n - (m - 1) /\ (n - m) + 1 <= n
            /\ A(n - (m - 1)) = y
        BY <1>6, <1>9, <2>1, <3>2, <1>2, <3>1, NextAncestor
      <4>2. CASE n - (m - 1) \notin Replaced(h)
        <5>1. c[n - (n - m)] = A(n - m) \/ ~Known(A(n - m))
          BY Zenon, <1>1, <3>2, <4>1, <4>2, WalkSteps
        <5> QED
          BY <1>6, <3>1, <4>2, <5>1, <1>1, <1>2, <1>4, <1>9, <2>1, LinkedNow
      <4> QED
        BY Zenon, <1>6, <3>1, <4>1, <4>2
    <3> QED
      BY <3>2, <1>1, <1>2, <1>9, <1>6, <3>1, <2>1, WalkSteps
  <2> QED
    BY Zenon, <2>1, <2>2
<1>10. /\ c'[n] = h
       /\ \A m \in Numbers : m > n => c'[m] = None
  BY <1>2, <1>5, <1>6
<1>11. ParentHash(h) \in headers' => n > 0 /\ c'[n - 1] = ParentHash(h)
  <2> SUFFICES ASSUME p \in headers' PROVE n > 0 /\ c'[n - 1] = p
    BY Zenon, <1>3
  <2>1. n > 0 /\ n - 1 \in Numbers /\ (n - 1) + g > n /\ n - (n - 1) = 1
    BY SMTT(30), <1>2, <1>3, <1>4, <1>8
  <2> QED
    BY SMTT(30), <1>2, <1>5, <1>6, <1>7, <2>1
<1>12. CanonicalIsBestChain' /\ BestInfo'.number = n
  BY <1>2, <1>8, <1>10, <1>1, <1>7, <1>9, <1>11, ConstantTypes, HeaderStep, LinkedNext
     DEF Linked
<1>13. CanonicalWindow'
  <2>1. \A m \in Numbers : c'[m] # None <=> m + g > n /\ Canonical(h)[m] # None
    BY <1>2, <1>5
  <2>2. ASSUME NEW x \in Hashes, x \in headers', Number(x) <= n
        PROVE  c'[Number(x)] # None
    <3> DEFINE m == Number(x)
    <3>1. m \in Numbers /\ m + f > n /\ m + g > n /\ m \in Nat
      BY <1>2, <1>4, <1>8, <2>2
    <3>2. CASE m < n
      <4>1. x \in headers
        BY <1>2, <1>4, <2>2, <3>2
      <4>2. CASE n - m \notin Replaced(h)
        <5> QED
          BY <1>6, <2>1, <3>1, <3>2, <4>2, <4>1, Accepted, WalkCoversGap, LinkedNow
             DEF IInv, ChainInv, CanonicalWindow, Present, HeaderInfo, Numbers
      <4> QED
        BY <3>1, <3>2, <2>1, <4>2, WalkEffect, ConstantTypes
    <3> QED
      BY <1>2, <2>2, <3>1, <1>10, <3>2, ConstantTypes
  <2> QED
    BY <1>12, <2>1, <1>2, <2>2, <1>1, RecordEffect, WalkEffect DEF CanonicalWindow, Present
<1>14. CanonicalEntries'
  <2> SUFFICES ASSUME NEW m \in Numbers, c'[m] \in Hashes
               PROVE  /\ Number(c'[m]) = m
                      /\ c'[m] \notin headers' => \A x \in headers' : Number(x) > m
    BY Zenon, <1>1, RecordEffect DEF CanonicalEntries
  <2> DEFINE x == c'[m]
  <2>1. x = Canonical(h)[m] /\ m + g > n /\ m <= n
    BY SMTT(30), <1>2, <1>5, <1>10, ConstantTypes
  <2>2. CASE m < n /\ n - m \in Replaced(h)
    <3>1. x = A(n - m) /\ Number(x) = m
      BY SMTT(30), <1>2, <1>6, <1>7, <2>1, <2>2
    <3>2. ASSUME x \notin headers', NEW z \in headers'
          PROVE  Number(z) > m
      <4>1. Number(z) + f > n /\ Number(z) \in Nat /\ (z \in headers \/ z = h)
        BY Zenon, <1>4, <1>8
      <4>2. CASE x \notin headers /\ z \in headers
        <5>1. ~Known(A(n - m)) /\ n - m # 1
          BY Zenon, <1>1, <1>3, <1>7, <3>1, <4>2, LinkedNow
        <5>2. /\ Known(A((n - m) - 1)) /\ (n - m) - 1 \in Replaced(h)
              /\ A((n - m) - 1) \in Hashes
          BY <1>1, <2>2, <1>2, <5>1, WalkSteps DEF Known
        <5>3. ParentHash(A((n - m) - 1)) = A(n - m)
          BY <1>2, <2>2, <5>1, <5>2, NextAncestor
        <5> QED
          BY <1>2, <4>1, <1>7, <5>2, <1>1, <5>1, <5>3, LinkedNow DEF HeaderInv, OldestOnly
      <4> QED
        BY <4>1, <1>2, <1>4, <3>1, <3>2, <2>2, <4>2
    <3> QED
      BY Zenon, <3>1, <3>2
  <2> QED
    BY <1>2, <2>1, <1>4, <2>2, <1>6, <1>8, LinkedNow DEF IInv, ChainInv, CanonicalEntries
<1> QED
  BY Zenon, <1>12, <1>13, <1>14 DEF ChainInv
-----------------------------------------------------------------------------
(* Recording keeps the types. *)
LEMMA TypeStep ==
  ASSUME LeastNumbers, NEW a \in Accounts, NEW h \in Hashes, IInv, add_block_header(a, h)
  PROVE  TypeOK'
<1>1. HeaderInv /\ TypeOK
  BY Zenon DEF IInv, HeaderInv
<1>2. infos' \in [Hashes -> HeaderInfo \cup {None}]
  <2>1. NewInfo(h) \in HeaderInfo
    BY Zenon, <1>1, Accepted
  <2> QED
    BY Zenon, <1>1, <2>1 DEF add_block_header, record_header, TypeOK
<1>3. all_header_hashes' \in [Numbers -> SUBSET Hashes]
  <2> DEFINE old == IF NewBest(h) THEN gc_headers(HashesWith(h), Number(h)) ELSE {}
  <2> HIDE DEF old
  <2>1. all_header_hashes' = [n \in Numbers |-> all_header_hashes'[n]]
    BY DEF ForgetNumbers, add_block_header, record_header
  <2> QED
    BY <1>1, <2>1, RecordEffect
<1>4. canonical_header_hashes' \in [Numbers -> Hashes \cup {Zero, None}]
  <2>1. CASE NewBest(h)
    <3>1. \A m \in Numbers : canonical_header_hashes'[m] \in Hashes \cup {Zero, None}
      BY <2>1, <1>1, HeaderFacts, WalkEffect, SwitchEffect DEF Numbers, TypeOK
    <3> QED
      BY Zenon, <2>1, <3>1 DEF add_block_header, record_header, gc_canonical_chain
  <2> QED
    BY Zenon, <1>1, <2>1 DEF add_block_header, record_header, TypeOK
<1> QED
  BY Zenon, <1>1, <1>2, <1>3, <1>4, RecordEffect DEF TypeOK, add_block_header

(* One case per action. *)
LEMMA NextInv == LeastNumbers /\ IInv /\ [Next]_vars => IInv'
<1> SUFFICES ASSUME LeastNumbers, IInv, [Next]_vars PROVE IInv'
  BY Zenon
<1>1. ASSUME UNCHANGED chainVars, trusted_signer' \in Accounts \cup {None}, paused' \in BOOLEAN
      PROVE  IInv'
  <2>1. /\ IndexesAgree' /\ BestIsHeaviest' /\ NothingLeftBehind'
        /\ InfoOfHeader' /\ Rooted' /\ Contiguous' /\ OldestOnly'
    BY <1>1
       DEF IInv, HeaderInv, IndexesAgree, BestIsHeaviest, NothingLeftBehind, InfoOfHeader,
           Rooted, Contiguous, OldestOnly, Known, BestInfo, chainVars
  <2>2. ChainInv'
    BY <1>1
       DEF IInv, ChainInv, CanonicalIsBestChain, CanonicalWindow, CanonicalEntries, Present,
           Known, BestInfo, chainVars
  <2> QED
    BY Zenon, <1>1, <2>1, <2>2 DEF IInv, HeaderInv, TypeOK, chainVars
<1>2. trusted_signer \in Accounts \cup {None} /\ paused \in BOOLEAN
  BY Zenon DEF IInv, HeaderInv, TypeOK
<1>3. ASSUME NEW a \in Accounts, NEW s \in Accounts \cup {None}, update_trusted_signer(a, s)
      PROVE  IInv'
  BY Zenon, <1>1, <1>2, <1>3 DEF update_trusted_signer
<1>4. ASSUME NEW a \in Accounts, NEW mask \in BOOLEAN, set_paused(a, mask) PROVE IInv'
  BY Zenon, <1>4, <1>1, <1>2 DEF set_paused
<1>5. CASE UNCHANGED vars
  BY Zenon, <1>1, <1>2, <1>5 DEF vars
<1> QED
  BY Zenon, <1>3, <1>4, <1>5, SideStep, SwitchStep, HeaderStep, TypeStep DEF Next, IInv, HeaderInv

(* A step that records nothing keeps the maps. *)
LEMMA StepKinds ==
  ASSUME Next
  PROVE  UNCHANGED chainVars \/ \E a \in Accounts, h \in Hashes : add_block_header(a, h)
  BY Zenon DEF Next, update_trusted_signer, set_paused

(* A step never makes the best chain lighter. *)
LEMMA BestKept ==
  IInv /\ [Next]_vars =>
    [infos'[best_header_hash'].total_difficulty >= BestInfo.total_difficulty]_vars
<1> SUFFICES ASSUME IInv, Next
             PROVE  infos'[best_header_hash'].total_difficulty >= BestInfo.total_difficulty
  BY Zenon
<1>1. HeaderInv /\ BestInfo.total_difficulty \in Nat /\ Known(best_header_hash)
  BY Zenon DEF IInv, HeaderInv, TypeOK, BestIsHeaviest, Known, BestInfo, HeaderInfo
<1> QED
  BY <1>1, RecordEffect, HeaderStep, Accepted, StepKinds
     DEF chainVars, BestInfo, BestIsHeaviest, Known, NewBest, HeaderInfo

(* A step forgets a header only below the window of the head. *)
LEMMA RecentStep ==
  IInv /\ [Next]_vars =>
    [\A h \in Hashes : Known(h) /\ ~Known(h)' =>
       infos[h].number + finalized_gc_threshold <= BestInfo'.number]_vars
  BY StepKinds, RecordEffect, HeaderFacts, Thresholds, HeaderStep
     DEF IInv, chainVars, Known, Recorded, Survives, InfoOfHeader, BestInfo, HeaderInv

(* A step that extends the best chain keeps what was safe. *)
LEMMA SafeStep ==
  LeastNumbers /\ IInv /\ [Next]_vars =>
    [Header[best_header_hash'].parent_hash = best_header_hash =>
       \A n \in Numbers : block_hash_safe(n) # None =>
         \/ block_hash_safe(n)' = block_hash_safe(n)
         \/ block_hash_safe(n)' = None /\ n + hashes_gc_threshold <= BestInfo'.number]_vars
<1> SUFFICES ASSUME LeastNumbers, IInv, Next, NEW n \in Numbers, block_hash_safe(n) # None,
                    Header[best_header_hash'].parent_hash = best_header_hash
             PROVE  \/ block_hash_safe(n)' = block_hash_safe(n)
                    \/ /\ block_hash_safe(n)' = None
                       /\ n + hashes_gc_threshold <= BestInfo'.number
  BY Zenon
<1>1. HeaderInv /\ Linked(canonical_header_hashes, headers, best_header_hash)
  BY Zenon, LinkedNow DEF IInv, ChainInv
<1>2. /\ BestInfo # None /\ BestInfo.number = Number(best_header_hash)
      /\ best_header_hash \in Hashes
  BY Zenon, <1>1, LinkedNow DEF HeaderInv, BestIsHeaviest, Known, BestInfo
<1>3. ASSUME NEW a \in Accounts, NEW h \in Hashes, add_block_header(a, h), ~NewBest(h)
      PROVE  block_hash_safe(n)' = block_hash_safe(n)
  <2>1. canonical_header_hashes' = canonical_header_hashes /\ best_header_hash' = best_header_hash
    BY Zenon, <1>3 DEF add_block_header, record_header
  <2> QED
    BY Zenon, <1>2, <2>1, <1>1, <1>3, HeaderStep
       DEF block_hash_safe, block_hash, last_block_number, BestIsHeaviest, InfoOfHeader,
           BestInfo, Known
<1>4. ASSUME NEW a \in Accounts, NEW h \in Hashes, add_block_header(a, h), NewBest(h)
      PROVE  \/ block_hash_safe(n)' = block_hash_safe(n)
             \/ /\ block_hash_safe(n)' = None
                /\ n + hashes_gc_threshold <= BestInfo'.number
  <2> DEFINE top == Number(h)
             c == canonical_header_hashes
  <2>1. best_header_hash' = h /\ BestIsHeaviest' /\ InfoOfHeader'
    BY Zenon, <1>1, <1>4, RecordEffect, HeaderStep
  <2>2. /\ top = Number(best_header_hash) + 1 /\ top \in Nat
        /\ Number(best_header_hash) \in Nat /\ n \in Nat /\ num_confirmations \in Nat
    BY <1>1, <1>4, <2>1, <1>2, Accepted, HeaderFacts, ConstantTypes DEF Numbers
  <2>3. /\ n + num_confirmations <= Number(best_header_hash)
        /\ block_hash_safe(n) = c[n] /\ c[n] # None
        /\ c[top - 1] = Ancestor[h][1] /\ 1 \in Replaced(h)
    BY <1>2, <2>2, <1>1, <1>4, <2>1, WalkSteps
       DEF block_hash_safe, block_hash, last_block_number, Linked
  <2>4. /\ \A k \in Replaced(h) : k = 1
        /\ Canonical(h)[n] = c[n]
    BY <1>1, <1>4, <2>3, <2>2, WalkSteps, WalkEffect
  <2> QED
    BY <2>1, <2>3, <2>2, <2>4, <1>4, SwitchEffect
       DEF BestIsHeaviest, InfoOfHeader, BestInfo, Known, block_hash_safe, block_hash,
           last_block_number
<1> QED
  BY Zenon, <1>3, <1>4, StepKinds
     DEF chainVars, block_hash_safe, block_hash, last_block_number, BestInfo

(* What the invariant says that is of interest outside this module. *)
LEMMA Consequences ==
  IInv => /\ TypeOK /\ BestIsHeaviest /\ CanonicalIsBestChain /\ IndexesAgree
          /\ NothingLeftBehind
  BY Zenon DEF IInv, HeaderInv, ChainInv

-----------------------------------------------------------------------------
(* The library's facts about numbers and finite sets come last: nothing    *)
(* above needs them.                                                       *)

Size(S) == Cardinality(S)

(* What FiniteSets defines. *)
LEMMA SizeDef ==
  \A S : Size(S) = LET CS[T \in SUBSET S] ==
                         IF T = {} THEN 0 ELSE 1 + CS[T \ {CHOOSE x : x \in T}]
                   IN  CS[S]
  BY Zenon DEF Size, Cardinality

LOCAL INSTANCE WellFoundedInduction
LOCAL INSTANCE FiniteSetTheorems

(* The library's Cardinality is the one the client's module uses. *)
LEMMA SizeIsCardinality == \A S : Size(S) = Cardinality(S)
  BY Zenon, SizeDef DEF Cardinality

(* A nonempty set of naturals has a least element. *)
LEMMA LeastElement == LeastNumbers
<1> SUFFICES ASSUME NEW T \in SUBSET Nat, T # {} PROVE \E x \in T : \A y \in T : x <= y
  BY Zenon DEF LeastNumbers
<1> DEFINE R == {ss \in Nat \X Nat : ss[1] < ss[2]}
<1>1. IsWellFoundedOn(R, Nat)
  BY Zenon, NatLessThanWellFounded DEF OpToRel
<1>2. PICK x \in T : \A y \in T : ~(<<y, x>> \in R)
  BY Zenon, <1>1, WFMin
<1>3. \A y \in T : x <= y
  <2> SUFFICES ASSUME NEW y \in T, y < x PROVE FALSE
    OBVIOUS
  <2>1. <<y, x>> \in R
    BY Zenon
  <2> QED
    BY Zenon, <1>2, <2>1
<1> QED
  BY Zenon, <1>3

(* The inductive invariant holds in every reachable state. *)
THEOREM Invariance == Spec => []IInv
  BY LeastElement, InitInv, NextInv, PTL DEF Spec

(* The maps keep their types. *)
THEOREM TypeCorrect == Spec => []TypeOK
  BY Invariance, Consequences, PTL

(* The best header is known and no known header is heavier. *)
THEOREM BestHeader == Spec => []BestIsHeaviest
  BY Invariance, Consequences, PTL

(* Wherever parents are known, the canonical hashes are the best header's  *)
(* ancestors.                                                              *)
THEOREM CanonicalChain == Spec => []CanonicalIsBestChain
  BY Invariance, Consequences, PTL

(* The maps of headers never disagree. *)
THEOREM Indexes == Spec => []IndexesAgree
  BY Invariance, Consequences, PTL

(* The gc loops leave nothing behind that is older than the window. *)
THEOREM NoLeftovers == Spec => []NothingLeftBehind
  BY Invariance, Consequences, PTL

(* At most hashes_gc_threshold canonical hashes are stored. *)
THEOREM BoundedHashes == Spec => []CanonicalBounded
<1>1. IInv => CanonicalBounded
  <2> SUFFICES ASSUME IInv PROVE CanonicalBounded
    BY Zenon
  <2> DEFINE top == Number(best_header_hash)
             low == top - hashes_gc_threshold + 1
             S == {n \in Numbers : canonical_header_hashes[n] # None}
  <2>1. top \in Nat /\ low \in Int /\ hashes_gc_threshold \in Nat /\ BestInfo.number = top
    BY SMTT(30), HeaderFacts, Thresholds, LinkedNow DEF IInv
  <2>2. S \subseteq low .. top
    BY SMTT(30), <2>1
       DEF IInv, ChainInv, CanonicalWindow, CanonicalIsBestChain, Present, Numbers
  <2>3. IsFiniteSet(low .. top) /\ Cardinality(low .. top) = hashes_gc_threshold
    BY <2>1, FS_Interval, Thresholds
  <2>4. Cardinality(S) <= Cardinality(low .. top)
    BY Zenon, <2>2, <2>3, FS_Subset
  <2> QED
    BY Zenon, <2>3, <2>4, SizeIsCardinality DEF Size, CanonicalBounded
<1> QED
  BY PTL, <1>1, Invariance

(* The best chain never becomes lighter. *)
THEOREM BestMonotonic == Spec => BestNeverLighter
  BY PTL, BestKept, Invariance DEF Spec, BestNeverLighter

(* A header is forgotten only when the head is a full window ahead. *)
THEOREM RecentKept == Spec => RecentHeadersKept
  BY PTL, RecentStep, Invariance DEF Spec, RecentHeadersKept

(* Extending the best chain reassigns no number that was safe. *)
THEOREM SafeHashes == Spec => ExtensionKeepsSafe
  BY PTL, SafeStep, LeastElement, Invariance DEF Spec, ExtensionKeepsSafe
=============================================================================
