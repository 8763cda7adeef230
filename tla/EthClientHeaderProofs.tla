----------------------- MODULE EthClientHeaderProofs ------------------------
(***************************************************************************)
(* The inductive invariant of the Ethereum client, and the proof that      *)
(* recording a header keeps its part about the known headers.  What the    *)
(* walk from a new best header writes follows.                             *)
(***************************************************************************)
EXTENDS EthClient, TLAPS
USE SMTT(30)

(* What is stored about a header is what the header says. *)
InfoOfHeader ==
  \A h \in Hashes : Known(h) =>
    infos[h].number = Number(h) /\ infos[h].parent_hash = ParentHash(h)

(* Every known header descends from the first one, number by number. *)
Rooted ==
  \A h \in Hashes : Known(h) =>
    /\ Number(h) >= Number(first_header)
    /\ h # first_header =>
         /\ Number(h) > Number(first_header)
         /\ Header[h].parent_hash \in Hashes
         /\ Number(h) = Number(Header[h].parent_hash) + 1

(* The numbers with headers have no gap. *)
Contiguous ==
  \A i, j, k \in Numbers :
    i <= j /\ j <= k /\ all_header_hashes[i] # {} /\ all_header_hashes[k] # {}
      => all_header_hashes[j] # {}

(* Only the headers of the lowest number have lost their parent. *)
OldestOnly ==
  \A h, x \in Hashes :
    Known(h) /\ ~Known(ParentHash(h)) /\ Known(x) => Number(x) >= Number(h)

HeaderInv ==
  /\ TypeOK /\ IndexesAgree /\ BestIsHeaviest /\ NothingLeftBehind
  /\ InfoOfHeader /\ Rooted /\ Contiguous /\ OldestOnly

(* The canonical numbers have no gap either, reach below every known       *)
(* header and stay within hashes_gc_threshold.                             *)
Present(n) == canonical_header_hashes[n] # None

CanonicalWindow ==
  /\ \A i, j \in Numbers : i <= j /\ j <= BestInfo.number /\ Present(i) => Present(j)
  /\ \A h \in Hashes : Known(h) /\ Number(h) <= BestInfo.number => Present(Number(h))
  /\ \A i \in Numbers : Present(i) => i + hashes_gc_threshold > BestInfo.number

(* A canonical hash is filed under its number; those whose header was      *)
(* forgotten lie below all known headers.                                  *)
CanonicalEntries ==
  \A n \in Numbers : canonical_header_hashes[n] \in Hashes =>
    /\ Number(canonical_header_hashes[n]) = n
    /\ ~Known(canonical_header_hashes[n]) => \A x \in Hashes : Known(x) => Number(x) > n

ChainInv == CanonicalIsBestChain /\ CanonicalWindow /\ CanonicalEntries

IInv == HeaderInv /\ ChainInv

-----------------------------------------------------------------------------
(* A nonempty set of naturals has a least element: proved below, and a     *)
(* hypothesis of the lemmas that go along the walk.                        *)
LeastNumbers == \A T \in SUBSET Nat : T # {} => \E x \in T : \A y \in T : x <= y

(* Headers and their infos are well typed. *)
LEMMA HeaderFacts ==
  \A h \in Hashes : /\ Number(h) \in Numbers /\ Number(h) \in Nat
                    /\ Header[h].difficulty \in Nat
                    /\ Header[h].parent_hash \in Hashes \cup {Zero}
                    /\ ParentHash(h) \in Hashes \cup {Zero}
  BY ConstantTypes DEF IsHeader, Number, Numbers, ParentHash

(* The deployed client satisfies the invariant. *)
LEMMA InitInv == Init => IInv
<1> SUFFICES ASSUME Init PROVE IInv
  BY Zenon
<1>1. /\ [total_difficulty |-> 0, parent_hash |-> Zero, number |-> Number(first_header)] \in HeaderInfo
      /\ \A h \in Hashes : Known(h) <=> h = first_header
      /\ BestInfo = [total_difficulty |-> 0, parent_hash |-> Zero, number |-> Number(first_header)]
  BY HeaderFacts, ConstantTypes DEF HeaderInfo, Init, Known, BestInfo
<1>2. paused \in BOOLEAN
  BY Zenon DEF Init
<1>3. /\ TypeOK
      /\ BestIsHeaviest /\ NothingLeftBehind
  BY <1>1, <1>2, ConstantTypes, HeaderFacts, Thresholds
     DEF Init, TypeOK, BestIsHeaviest, NothingLeftBehind
<1>4. InfoOfHeader /\ Rooted /\ Contiguous /\ OldestOnly
  BY <1>1, HeaderFacts
     DEF Init, InfoOfHeader, Rooted, Contiguous, OldestOnly, ParentHash, Numbers
<1>5. CanonicalWindow
  BY <1>1, ConstantTypes, HeaderFacts, Thresholds
     DEF Init, CanonicalWindow, Present, Numbers
<1> QED
  BY <1>3, <1>1, <1>4, <1>5, HeaderFacts, ConstantTypes
     DEF IInv, HeaderInv, ChainInv, Init, IndexesAgree, CanonicalEntries,
         CanonicalIsBestChain, Known

-----------------------------------------------------------------------------
(* What add_block_header has established when it records h. *)
LEMMA Accepted ==
  ASSUME NEW a \in Accounts, NEW h \in Hashes, HeaderInv, add_block_header(a, h)
  PROVE  LET p == Header[h].parent_hash IN
         /\ p \in Hashes /\ Known(p) /\ ~Known(h) /\ h # first_header
         /\ Number(h) = Number(p) + 1 /\ ParentHash(h) = p
         /\ BestInfo \in HeaderInfo /\ infos[p] \in HeaderInfo
         /\ NewInfo(h) \in HeaderInfo
<1> DEFINE p == Header[h].parent_hash
<1>1. record_header(h)
  BY Zenon DEF add_block_header
<1>2. p \in Hashes /\ Known(p)
  BY Zenon, <1>1 DEF record_header, Known
<1>3. Number(h) = Number(p) + 1
  BY Zenon, <1>2, TrustedHeadersNumbered DEF add_block_header, verify_header, Number
<1>4. ~Known(h)
  BY <1>1, HeaderFacts DEF record_header, HeaderInv, IndexesAgree, InfoOfHeader
<1> QED
  BY <1>2, <1>3, <1>4, HeaderFacts
     DEF ParentHash, HeaderInv, Rooted, TypeOK, BestIsHeaviest, Known, BestInfo, HeaderInfo,
         NewInfo

(* The headers known before the collection: the old ones and h. *)
Recorded(h) == {x \in Hashes : Known(x) \/ x = h}
HashesWith(h) == [all_header_hashes EXCEPT ![Number(h)] = @ \cup {h}]

(* all_header_hashes indexes them by number, without a gap. *)
LEMMA RecordedIndex ==
  ASSUME NEW a \in Accounts, NEW h \in Hashes, HeaderInv, add_block_header(a, h)
  PROVE  /\ \A n \in Numbers : HashesWith(h)[n] = {x \in Recorded(h) : Number(x) = n}
         /\ \A i, j, k \in Numbers :
              i <= j /\ j <= k /\ HashesWith(h)[i] # {} /\ HashesWith(h)[k] # {}
                => HashesWith(h)[j] # {}
<1> DEFINE p == Header[h].parent_hash
           n == Number(h)
           all == all_header_hashes
<1>1. /\ p \in Hashes /\ Known(p) /\ n = Number(p) + 1
      /\ n \in Numbers /\ Number(p) \in Numbers /\ Number(p) \in Nat
  BY Zenon, Accepted, HeaderFacts
<1>2. all \in [Numbers -> SUBSET Hashes]
  BY Zenon DEF HeaderInv, TypeOK
<1>3. p \in all[Number(p)]
  BY Zenon, <1>1, <1>2 DEF HeaderInv, IndexesAgree, InfoOfHeader, Recorded, HashesWith
<1>4. /\ \A m \in Numbers : HashesWith(h)[m] # {} <=> all[m] # {} \/ m = n
      /\ \A i, j, k \in Numbers : i <= j /\ j <= k /\ all[i] # {} /\ all[k] # {} => all[j] # {}
  BY Zenon, <1>2 DEF HashesWith, HeaderInv, Contiguous
<1>5. ASSUME NEW i \in Numbers, NEW j \in Numbers, NEW k \in Numbers, i <= j, j <= k,
             HashesWith(h)[i] # {}, HashesWith(h)[k] # {}
      PROVE  HashesWith(h)[j] # {}
  <2> HIDE DEF n, p, all
  <2>1. CASE j = n
    BY Zenon, <1>4, <2>1
  <2>2. CASE j < n
    BY <1>1, <1>3, <1>4, <1>5, <2>2 DEF Numbers
  <2>3. CASE j > n
    BY <1>1, <1>3, <1>4, <1>5, <2>3 DEF Numbers
  <2> QED
    BY <1>1, <2>1, <2>2, <2>3 DEF Numbers
<1> QED
  BY <1>2, <1>5 DEF HeaderInv, IndexesAgree, InfoOfHeader, Recorded, HashesWith

(* The collection forgets exactly the numbers outside the window of the    *)
(* new head.                                                               *)
LEMMA Collected ==
  ASSUME NEW a \in Accounts, NEW h \in Hashes, HeaderInv, add_block_header(a, h)
  PROVE  \A n \in Numbers :
           n \in gc_headers(HashesWith(h), Number(h)) <=>
             HashesWith(h)[n] # {} /\ n + finalized_gc_threshold <= Number(h)
  BY HeaderFacts, RecordedIndex, ConstantTypes, Thresholds
     DEF Recorded, Numbers, gc_headers, RunDown

(* The step, with the loops replaced by what they compute. *)
Survives(h, x) == NewBest(h) => Number(x) + finalized_gc_threshold > Number(h)

(* A known header survives the step unless a new head left it behind. *)
LEMMA RecordEffect ==
  ASSUME NEW a \in Accounts, NEW h \in Hashes, HeaderInv, add_block_header(a, h)
  PROVE  /\ \A x \in Hashes : Known(x)' <=> x \in Recorded(h) /\ Survives(h, x)
         /\ \A x \in Hashes : Known(x)' => infos'[x] = IF x = h THEN NewInfo(h) ELSE infos[x]
         /\ headers' = {x \in Hashes : Known(x)'}
         /\ \A n \in Numbers : all_header_hashes'[n] = {x \in Hashes : Known(x)' /\ Number(x) = n}
         /\ best_header_hash' = IF NewBest(h) THEN h ELSE best_header_hash
<1> DEFINE n == Number(h)
           all == HashesWith(h)
           old == IF NewBest(h) THEN gc_headers(all, n) ELSE {}
           forgotten == UNION {all[k] : k \in old}
<1>1. /\ all_header_hashes' = ForgetNumbers(all, old)
      /\ headers' = (headers \cup {h}) \ forgotten
      /\ infos' = [x \in Hashes |-> IF x \in forgotten THEN None
                                    ELSE IF x = h THEN NewInfo(h) ELSE infos[x]]
      /\ best_header_hash' = IF NewBest(h) THEN h ELSE best_header_hash
  BY Zenon DEF add_block_header, record_header, HashesWith
<1>2. /\ \A k \in Numbers : all[k] = {x \in Recorded(h) : Number(x) = k}
      /\ \A k \in Numbers : k \in old <=>
           NewBest(h) /\ all[k] # {} /\ k + finalized_gc_threshold <= n
  BY Zenon, RecordedIndex, Collected
<1>3. /\ old \subseteq Numbers
      /\ \A x \in Recorded(h) : x \in Hashes /\ Number(x) \in Numbers /\ Number(x) \in Nat
  BY Zenon, HeaderFacts DEF gc_headers, RunDown, Recorded
<1> HIDE DEF old, all, n
<1>4. /\ \A x \in Hashes : x \in forgotten <=>
           x \in Recorded(h) /\ NewBest(h) /\ Number(x) + finalized_gc_threshold <= n
      /\ \A x \in Hashes : Survives(h, x) <=>
           ~(NewBest(h) /\ Number(x) + finalized_gc_threshold <= n)
  BY <1>2, <1>3, HeaderFacts, Thresholds DEF Survives, n
<1> HIDE DEF forgotten
<1> QED
  BY <1>1, <1>4, <1>2, Accepted, ConstantTypes
     DEF HeaderInv, IndexesAgree, Recorded, ForgetNumbers, Known

(* Recording a header keeps what is known about headers consistent. *)
LEMMA HeaderStep ==
  ASSUME NEW a \in Accounts, NEW h \in Hashes, HeaderInv, add_block_header(a, h)
  PROVE  /\ IndexesAgree' /\ BestIsHeaviest' /\ NothingLeftBehind'
         /\ InfoOfHeader' /\ Rooted' /\ Contiguous' /\ OldestOnly'
         /\ BestInfo' \in HeaderInfo
<1> DEFINE p == Header[h].parent_hash
           f == finalized_gc_threshold
<1>1. /\ p \in Hashes /\ Known(p) /\ ~Known(h) /\ h # first_header
      /\ Number(h) = Number(p) + 1 /\ ParentHash(h) = p
      /\ BestInfo \in HeaderInfo /\ NewInfo(h) \in HeaderInfo
  BY Zenon, Accepted
<1>2. \A x \in Hashes : Known(x)' <=> x \in Recorded(h) /\ Survives(h, x)
  BY Zenon, RecordEffect
<1>3. \A x \in Hashes : Known(x)' => infos'[x] = IF x = h THEN NewInfo(h) ELSE infos[x]
  BY Zenon, RecordEffect
<1>4. NewInfo(h).number = Number(h) /\ NewInfo(h).parent_hash = ParentHash(h)
  BY Zenon, <1>1 DEF NewInfo
<1>5. \A x \in Hashes : Known(x)' => x = h \/ Known(x)
  BY Zenon, <1>2 DEF Recorded
<1>6. InfoOfHeader'
  BY Zenon, <1>3, <1>4, <1>5 DEF HeaderInv, InfoOfHeader
<1>7. Rooted'
  BY <1>1, <1>5, HeaderFacts, ConstantTypes DEF HeaderInv, Rooted
<1>8. IndexesAgree'
  BY <1>6, RecordEffect DEF InfoOfHeader, IndexesAgree
<1>9. Known(best_header_hash) /\ best_header_hash \in Hashes /\ BestInfo.number = Number(best_header_hash)
  BY Zenon DEF HeaderInv, BestIsHeaviest, Known, InfoOfHeader, BestInfo
<1>10. CASE NewBest(h)
  <2>1. /\ best_header_hash' = h
        /\ Known(h)'
        /\ BestInfo' = NewInfo(h)
    BY <1>10, <1>2, <1>3, RecordEffect, HeaderFacts, Thresholds
       DEF Recorded, Survives, BestInfo
  <2>2. /\ \A x \in Hashes : Known(x)' => Number(x) + f > Number(h)
        /\ NothingLeftBehind'
    BY Zenon, <1>2, <1>10, <1>4, <1>6, <2>1 DEF Survives, NothingLeftBehind, InfoOfHeader
  <2>3. OldestOnly'
    <3> SUFFICES ASSUME NEW y \in Hashes, NEW x \in Hashes,
                        Known(y)', ~Known(ParentHash(y))', Known(x)'
                 PROVE  Number(x) >= Number(y)
      BY Zenon DEF OldestOnly
    <3>1. CASE ~(ParentHash(y) \in Hashes /\ ParentHash(y) \in Recorded(h))
      BY <1>1, <3>1, <1>5, HeaderFacts DEF Recorded, Known, HeaderInv, OldestOnly
    <3> QED
      BY <1>2, <1>7, <2>2, <3>1, HeaderFacts, Thresholds, ConstantTypes
         DEF Survives, Rooted, ParentHash
  <2>4. Contiguous'
    BY <1>2, <2>2, RecordEffect, RecordedIndex, Thresholds, HeaderFacts
       DEF Contiguous, Numbers, Survives, Recorded
  <2> QED
    BY <1>6, <1>7, <1>8, <2>2, <1>3, <1>10, <2>3, <2>4, <1>1, <2>1
       DEF BestIsHeaviest, HeaderInfo, Known, HeaderInv, TypeOK, NewBest
<1>11. CASE ~NewBest(h)
  <2>1. /\ best_header_hash' = best_header_hash
        /\ \A x \in Hashes : Known(x)' <=> Known(x) \/ x = h
        /\ BestInfo' = BestInfo
    BY Zenon, <1>11, <1>2, <1>1, <1>3, <1>9, RecordEffect DEF Recorded, Survives, BestInfo
  <2>2. /\ BestIsHeaviest'
        /\ OldestOnly'
    BY <1>1, <1>11, <1>3, <1>5, <1>9, <2>1, HeaderFacts
       DEF NewBest, HeaderInfo, HeaderInv, BestIsHeaviest, OldestOnly, Known
  <2>3. Contiguous'
    BY <2>1, RecordEffect, RecordedIndex DEF Recorded, Contiguous
  <2> QED
    BY <1>1, <1>6, <1>7, <1>8, <2>1, <1>9, <2>2, <2>3, HeaderFacts, Thresholds
       DEF HeaderInv, NothingLeftBehind, InfoOfHeader
<1> QED
  BY Zenon, <1>10, <1>11
-----------------------------------------------------------------------------
(* The walk back along the ancestors of a new best header. *)

(* It takes consecutive steps, the first to the parent; a step is the last *)
(* one when the hash was there before or has no info.                      *)
LEMMA WalkSteps ==
  ASSUME NEW a \in Accounts, NEW h \in Hashes, HeaderInv, add_block_header(a, h)
  PROVE  /\ 1 \in Replaced(h) /\ Ancestor[h][1] = Header[h].parent_hash
         /\ \A k \in Replaced(h) : k \in 1 .. Number(h)
         /\ \A k \in Replaced(h) : \A j \in 1 .. k : j \in Replaced(h)
         /\ \A k \in Replaced(h) : k + 1 <= Number(h) =>
              (k + 1 \in Replaced(h) <=>
                 /\ canonical_header_hashes[Number(h) - k] # Ancestor[h][k]
                 /\ Known(Ancestor[h][k]))
         /\ \A k \in Replaced(h) : k > 1 => Known(Ancestor[h][k - 1])
<1> DEFINE Goes(j) == /\ canonical_header_hashes[Number(h) - j] # Ancestor[h][j]
                      /\ Known(Ancestor[h][j])
<1>1. /\ Replaced(h) = {k \in 1 .. Number(h) : \A j \in 1 .. k - 1 : Goes(j)}
      /\ Number(h) \in Nat /\ Number(h) >= 1 /\ Number(h) <= MaxNumber
  BY Accepted, HeaderFacts DEF Replaced, Numbers
<1>2. Ancestor[h][1] = Header[h].parent_hash
  <2> QED
    BY <1>1, ConstantTypes, AncestorTable, Accepted
<1> HIDE DEF Goes
<1>3. 1 \in Replaced(h)
  BY <1>1
<1>4. \A k \in Replaced(h) : k \in 1 .. Number(h)
  BY Zenon, <1>1
<1>5. \A k \in Replaced(h) : \A j \in 1 .. k : j \in Replaced(h)
  BY <1>1
<1>6. \A k \in Replaced(h) : k + 1 <= Number(h) => (k + 1 \in Replaced(h) <=> Goes(k))
  BY <1>1
<1> QED
  BY <1>2, <1>1 DEF Goes

(* The ancestor one deeper is the stored parent. *)
LEMMA NextAncestor ==
  ASSUME NEW h \in Hashes, NEW k \in 0 .. MaxNumber - 1, Ancestor[h][k] \in Hashes
  PROVE  Ancestor[h][k + 1] = ParentHash(Ancestor[h][k])
  BY Zenon, AncestorTable

(* A written ancestor is written under its own number.  By induction along *)
(* the walk: consider the least depth at which it fails.                   *)
LEMMA WalkNumbers ==
  ASSUME LeastNumbers, NEW a \in Accounts, NEW h \in Hashes, HeaderInv, add_block_header(a, h)
  PROVE  \A k \in Replaced(h) : Ancestor[h][k] \in Hashes => Number(Ancestor[h][k]) = Number(h) - k
<1> DEFINE A(k) == Ancestor[h][k]
           Bad == {k \in Replaced(h) : A(k) \in Hashes /\ Number(A(k)) # Number(h) - k}
<1> SUFFICES ASSUME Bad # {} PROVE FALSE
  BY Zenon
<1>1. /\ Number(h) \in Nat /\ Number(h) <= MaxNumber
      /\ Bad \in SUBSET Nat
  BY HeaderFacts, WalkSteps DEF Numbers
<1>2. PICK k \in Bad : \A j \in Bad : k <= j
  BY Zenon, <1>1 DEF LeastNumbers
<1>3. k \in Replaced(h) /\ A(k) \in Hashes /\ Number(A(k)) # Number(h) - k /\ k \in 1 .. Number(h)
  BY Zenon, WalkSteps
<1>4. /\ k - 1 \in Replaced(h) /\ Known(A(k - 1)) /\ A(k - 1) \in Hashes
      /\ k - 1 \in 0 .. MaxNumber - 1
  BY <1>1, <1>3, Accepted, HeaderFacts, WalkSteps, ConstantTypes DEF Known
<1>5. Number(A(k - 1)) = Number(A(k)) + 1
  BY <1>3, <1>4, NextAncestor, ConstantTypes DEF ParentHash, HeaderInv, Rooted
<1> QED
  BY <1>1, <1>2, <1>4, <1>5, HeaderFacts

(* If the walk stops above depth m, it stopped for one of its reasons. *)
LEMMA WalkEnds ==
  ASSUME LeastNumbers, NEW a \in Accounts, NEW h \in Hashes, HeaderInv, add_block_header(a, h),
         NEW m \in 1 .. Number(h), m \notin Replaced(h)
  PROVE  \E k \in Replaced(h) :
           /\ k < m /\ k + 1 \notin Replaced(h)
           /\ \/ canonical_header_hashes[Number(h) - k] = Ancestor[h][k]
              \/ ~Known(Ancestor[h][k])
<1> DEFINE Out == {j \in 1 .. Number(h) : j \notin Replaced(h)}
<1>1. Number(h) \in Nat
  BY Zenon, HeaderFacts
<1>2. PICK j \in Out : \A i \in Out : j <= i
  <2>1. Out \in SUBSET Nat /\ Out # {}
    OBVIOUS
  <2> HIDE DEF Out
  <2> QED
    BY Zenon, <2>1 DEF LeastNumbers
<1>3. \/ canonical_header_hashes[Number(h) - (j - 1)] = Ancestor[h][j - 1]
      \/ ~Known(Ancestor[h][j - 1])
  BY <1>1, <1>2, WalkSteps
<1> QED
  BY <1>1, <1>2, <1>3, WalkSteps

(* A gc loop over numbers without a gap removes all it should. *)
LEMMA RunDownAll ==
  ASSUME NEW present \in SUBSET Numbers, NEW top \in Int,
         \A i \in present, j \in Int : i <= j /\ j <= top => j \in present
  PROVE  \A n \in Numbers : n \in RunDown(present, top) <=> n \in present /\ n <= top
  BY DEF RunDown

(* The new head's number of hashes above the old head are all written. *)
LEMMA WalkCoversGap ==
  ASSUME LeastNumbers, NEW a \in Accounts, NEW h \in Hashes, IInv, add_block_header(a, h),
         NEW j \in Numbers, BestInfo.number < j, j < Number(h)
  PROVE  Number(h) - j \in Replaced(h)
<1> DEFINE n == Number(h)
<1> SUFFICES ASSUME n - j \notin Replaced(h) PROVE FALSE
  BY Zenon
<1>1. /\ HeaderInv /\ n \in Nat /\ j \in Nat /\ n <= MaxNumber
      /\ BestInfo.number = Number(best_header_hash) /\ Known(best_header_hash)
      /\ best_header_hash \in Hashes /\ Number(best_header_hash) \in Nat
  BY HeaderFacts, ConstantTypes
     DEF IInv, HeaderInv, BestIsHeaviest, InfoOfHeader, BestInfo, Known, Numbers
<1>2. PICK k \in Replaced(h) :
        /\ k < n - j
        /\ canonical_header_hashes[n - k] = Ancestor[h][k] \/ ~Known(Ancestor[h][k])
  BY <1>1, WalkEnds
<1>3. k \in 1 .. n /\ n - k \in Numbers /\ n - k > BestInfo.number
  BY <1>1, <1>2, WalkSteps, ConstantTypes DEF Numbers
<1>4. canonical_header_hashes[n - k] = None
  BY Zenon, <1>3 DEF IInv, ChainInv, CanonicalIsBestChain
<1>5. Ancestor[h][k] # None
  <2>1. k \in 0 .. MaxNumber
    BY <1>1, <1>3, ConstantTypes
  <2> QED
    BY <2>1, AncestorTable, ConstantTypes
<1>6. k > 1
  BY <1>1, <1>2, <1>4, <1>5, WalkSteps, Accepted
<1>7. /\ k - 1 \in Replaced(h) /\ Known(Ancestor[h][k - 1]) /\ Ancestor[h][k - 1] \in Hashes
      /\ k - 1 \in 0 .. MaxNumber - 1 /\ (k - 1) + 1 = k
  BY SMTT(30), <1>1, <1>3, <1>6, WalkSteps, ConstantTypes DEF Known
<1>8. Number(best_header_hash) >= Number(Ancestor[h][k - 1])
  BY <1>1, <1>2, <1>4, <1>5, <1>7, NextAncestor DEF HeaderInv, OldestOnly
<1> QED
  BY <1>1, <1>3, <1>7, <1>8, WalkNumbers

(* The hashes after the walk and before the collection. *)
LEMMA WalkEffect ==
  ASSUME LeastNumbers, NEW a \in Accounts, NEW h \in Hashes, IInv, add_block_header(a, h)
  PROVE  LET n == Number(h) IN
         /\ Canonical(h)[n] = h
         /\ \A m \in Numbers : m > n => Canonical(h)[m] = None
         /\ \A m \in Numbers : m < n => Canonical(h)[m] =
              IF n - m \in Replaced(h) THEN Ancestor[h][n - m] ELSE canonical_header_hashes[m]
         /\ \A k \in Replaced(h) : Ancestor[h][k] \in Hashes \cup {Zero}
         /\ \A i, j \in Numbers : i <= j /\ j <= n /\ Canonical(h)[i] # None
              => Canonical(h)[j] # None
<1> DEFINE n == Number(h)
           c == canonical_header_hashes
<1>1. HeaderInv /\ n \in Nat /\ n \in Numbers /\ BestInfo.number \in Nat
  BY HeaderFacts, Accepted DEF IInv, HeaderInfo, Numbers
<1>2. /\ Canonical(h)[n] = h
      /\ \A m \in Numbers : m > n => Canonical(h)[m] = None
      /\ \A m \in Numbers : m < n => Canonical(h)[m] =
           IF n - m \in Replaced(h) THEN Ancestor[h][n - m] ELSE c[m]
  BY <1>1, WalkSteps, ConstantTypes
     DEF Canonical, Numbers, IInv, ChainInv, CanonicalIsBestChain
<1>3. \A k \in Replaced(h) : Ancestor[h][k] \in Hashes \cup {Zero}
  <2> SUFFICES ASSUME NEW k \in Replaced(h) PROVE Ancestor[h][k] \in Hashes \cup {Zero}
    BY Zenon
  <2>1. k \in 0 .. MaxNumber
    BY <1>1, WalkSteps, ConstantTypes DEF Numbers
  <2> QED
    BY Zenon, <2>1, AncestorTable
<1>4. ASSUME NEW i \in Numbers, NEW j \in Numbers, i <= j, j <= n, Canonical(h)[i] # None
      PROVE  Canonical(h)[j] # None
  <2>1. CASE j < n /\ n - j \notin Replaced(h)
    <3>1. i \in Nat /\ j \in Nat /\ i < n
      BY <1>1, <1>4, <2>1, ConstantTypes DEF Numbers
    <3>2. n - j \in 1 .. n - i /\ n - i \notin Replaced(h)
      BY <1>1, <1>4, <2>1, <3>1, WalkSteps
    <3>3. c[i] # None /\ Canonical(h)[j] = c[j] /\ j <= BestInfo.number
      BY <1>1, <1>2, <1>4, <2>1, <3>1, <3>2, WalkCoversGap
    <3> QED
      BY Zenon, <1>4, <3>3 DEF IInv, ChainInv, CanonicalWindow, Present
  <2> QED
    BY <1>1, <1>4, <1>2, <1>3, <2>1, ConstantTypes DEF Numbers
<1> QED
  BY Zenon, <1>2, <1>3, <1>4

(* The canonical hashes after a switch to a new head. *)
LEMMA SwitchEffect ==
  ASSUME LeastNumbers, NEW a \in Accounts, NEW h \in Hashes, IInv, add_block_header(a, h), NewBest(h)
  PROVE  \A m \in Numbers :
           canonical_header_hashes'[m] =
             IF m + hashes_gc_threshold <= Number(h) THEN None ELSE Canonical(h)[m]
<1> DEFINE n == Number(h)
           present == {k \in Numbers : Canonical(h)[k] # None}
           top == n - hashes_gc_threshold
<1>1. /\ n \in Nat /\ n <= MaxNumber /\ hashes_gc_threshold \in Nat /\ MaxNumber \in Nat
      /\ top \in Int /\ present \in SUBSET Numbers
      /\ \A i \in present, j \in Int : i <= j /\ j <= top => j \in present
  BY HeaderFacts, Thresholds, ConstantTypes, WalkEffect DEF Numbers
<1>2. \A m \in Numbers : m \in RunDown(present, top) <=> m \in present /\ m <= top
  <2> HIDE DEF present, top
  <2> QED
    BY Zenon, <1>1, RunDownAll
<1>3. canonical_header_hashes' =
        [k \in Numbers |-> IF k \in RunDown(present, top) THEN None ELSE Canonical(h)[k]]
  BY Zenon DEF add_block_header, record_header, gc_canonical_chain
<1>4. \A m \in Numbers : m <= top <=> m + hashes_gc_threshold <= n
  BY <1>1 DEF Numbers
<1> HIDE DEF top
<1> QED
  BY Zenon, <1>2, <1>3, <1>4

(* The recorded header is not on the canonical chain yet. *)
LEMMA NotYetCanonical ==
  ASSUME NEW a \in Accounts, NEW h \in Hashes, IInv, add_block_header(a, h)
  PROVE  \A m \in Numbers : canonical_header_hashes[m] # h
  BY Accepted, HeaderFacts DEF IInv, ChainInv, CanonicalEntries

(* CanonicalIsBestChain in terms of the sets of known headers. *)
Linked(c, known, best) ==
  /\ c[Number(best)] = best
  /\ \A n \in Numbers : n > Number(best) => c[n] = None
  /\ \A n \in Numbers : c[n] \in known =>
       /\ Number(c[n]) = n
       /\ ParentHash(c[n]) \in known => n > 0 /\ c[n - 1] = ParentHash(c[n])

(* The current maps are linked. *)
LEMMA LinkedNow ==
  ASSUME HeaderInv
  PROVE  /\ CanonicalIsBestChain => Linked(canonical_header_hashes, headers, best_header_hash)
         /\ \A x : Known(x) <=> x \in headers
         /\ BestInfo.number = Number(best_header_hash)
         /\ best_header_hash \in Hashes
         /\ headers \subseteq Hashes
  BY DEF HeaderInv, IndexesAgree, Known, BestIsHeaviest, InfoOfHeader, BestInfo,
         CanonicalIsBestChain, Linked

(* Linked maps after the step give the property after the step. *)
LEMMA LinkedNext ==
  ASSUME IndexesAgree', BestIsHeaviest', InfoOfHeader',
         Linked(canonical_header_hashes', headers', best_header_hash')
  PROVE  /\ CanonicalIsBestChain'
         /\ BestInfo'.number = Number(best_header_hash')
  BY DEF IndexesAgree, Known, BestIsHeaviest, InfoOfHeader, BestInfo, CanonicalIsBestChain,
         Linked

=============================================================================
