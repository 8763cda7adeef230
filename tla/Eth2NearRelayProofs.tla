------------------------- MODULE Eth2NearRelayProofs ------------------------
(***************************************************************************)
(* The relay's search finds the closest block that both chains have if it  *)
(* is within reach, for any chains, batch size and estimate, whatever      *)
(* headers the client has collected and whatever moved before the search.  *)
(***************************************************************************)
EXTENDS Eth2NearRelay, TLAPS
USE SMTT(30)

(* The locals of binarySearchWithEstimate, with estimate e and limits 0    *)
(* and c.                                                                  *)
InBounds(s, e, c) ==
  /\ s = [phase |-> s.phase, lo |-> s.lo, hi |-> s.hi, step |-> s.step]
  /\ s.lo \in Int /\ s.hi \in Int /\ s.step \in Nat
  /\ \/ s.phase = "estimate" /\ s.lo = 0 /\ s.hi = c
     \/ s.phase = "down" /\ s.lo = 0 /\ s.hi = e /\ s.step > 0 /\ s.hi - s.step > 0
     \/ s.phase = "up" /\ s.lo = e /\ s.hi = c /\ s.step > 0 /\ s.lo + s.step < c
     \/ s.phase = "bisect" /\ s.hi <= c

(* A step is 1, or twice the one before. *)
Doubled(n) == n = 1 \/ n = 2 * (n \div 2)

(* What is known of the distances in B, those of blocks on both chains,    *)
(* where f is the first held and d any other: the doubling steps keep the  *)
(* last answer; then hi is in B and lo is above f, but for limits that are *)
(* not tested and for the upper end of a last step, whose middle is in B.  *)
Encloses(s, e, c, B, f, d) ==
  \/ s.phase = "estimate"
  \/ s.phase = "down" /\ Doubled(s.step) /\ s.hi - s.step \div 2 \in B
  \/ /\ s.phase = "up" /\ Doubled(s.step)
     /\ s.lo + s.step \div 2 \notin B /\ s.lo + s.step \div 2 < f
  \/ /\ s.phase = "bisect"
     /\ \/ s.lo = 0 /\ s.hi = e /\ e <= 0 /\ e \in B
        \/ s.lo = 0 /\ 0 < s.hi /\ s.hi <= e /\ s.hi \in B
        \/ /\ s.lo \notin B /\ s.lo < f /\ s.lo < s.hi /\ (e >= 0 => s.lo >= 0)
           /\ \/ s.hi = c /\ d = c - 1
              \/ s.hi \in B /\ s.hi <= d
              \/ (s.lo + s.hi) \div 2 \in B /\ (s.lo + s.hi) \div 2 <= d

(* Up to d the blocks on both chains are those from f on, and the steps    *)
(* from e cannot jump over them.                                           *)
Reaches(B, c, e, f, d) ==
  /\ f \in Nat /\ d \in Nat /\ f <= d /\ d < c /\ e <= d
  /\ \A x \in 0 .. d : x \in B <=> f <= x
  /\ d - f >= f - e - 1
  /\ d = c - 1 \/ e + 3 * (f - e - 1) <= c

Around(s, e, c, B) ==
  \A f, d : Reaches(B, c, e, f, d) => Encloses(s, e, c, B, f, d)

Common == {d \in Int : OnBothChains(d)}

(* While the search runs it is within bounds and, when nothing moved,      *)
(* around the answer; the hash that was read is the chain's.               *)
SearchInv ==
  /\ epc \in {"predicate", "known", "found"} =>
       InBounds(search, Estimate, clientBlockNumber)
  /\ epc \in {"predicate", "known"} => ~Found(search)
  /\ epc = "found" => Found(search)
  /\ epc = "known" /\ ~disturbed =>
       chainHash = getEthBlock(clientBlockNumber - Position(search))
  /\ epc \in {"predicate", "known", "found"} /\ ~disturbed =>
       Around(search, Estimate, clientBlockNumber, Common)

(* What a failed transaction restores. *)
BatchInv ==
  epc = "execute" => /\ saved[1] \in Hashes
                     /\ saved[5] \in [Hashes -> HeaderInfo \cup {None}]

(* The numbers the searches start from. *)
RelayNumbers ==
  /\ best_header_hash \in Hashes /\ infos \in [Hashes -> HeaderInfo \cup {None}]
  /\ clientBlockNumber \in Nat
  /\ previousBlockNumber # None => previousBlockNumber \in Nat

RelayInv == RelayNumbers /\ SearchInv /\ BatchInv

-----------------------------------------------------------------------------
(* Halving. *)
LEMMA Halves ==
  ASSUME NEW n \in Nat
  PROVE  /\ n \div 2 \in Nat /\ 2 * (n \div 2) <= n /\ n <= 2 * (n \div 2) + 1
         /\ (2 * n) \div 2 = n
  OBVIOUS

(* The middle of a gap lies inside it. *)
LEMMA Middle ==
  ASSUME NEW a \in Int, NEW b \in Int, a + 1 < b
  PROVE  (a + b) \div 2 \in Int /\ a < (a + b) \div 2 /\ (a + b) \div 2 < b
  OBVIOUS

(* The estimate lies above the lower end. *)
LEMMA EstimateBound ==
  ASSUME RelayNumbers
  PROVE  /\ Estimate \in Int /\ Estimate <= clientBlockNumber
         /\ clientBlockNumber # 0 => Estimate < clientBlockNumber
  BY RelayAssumption DEF RelayNumbers, Estimate


(* An answer keeps the search between its limits and what is known of      *)
(* them: from the estimate, in a doubling step either way, and in the      *)
(* bisection.                                                              *)
AnswerKeeps(s, value, e, c, B, f, d) ==
  /\ InBounds(Answered(s, value), e, c)
  /\ Reaches(B, c, e, f, d) /\ Encloses(s, e, c, B, f, d) /\ (value <=> Position(s) \in B)
       => Encloses(Answered(s, value), e, c, B, f, d)

(* The first answer, at the estimate. *)
LEMMA AnsweredEstimate ==
  ASSUME NEW e \in Int, NEW c \in Nat, e <= c, c # 0 => e < c, e = Estimate,
         NEW s, InBounds(s, e, c), s.phase = "estimate", NEW B, NEW f, NEW d,
         NEW value \in BOOLEAN
  PROVE  AnswerKeeps(s, value, e, c, B, f, d)
<1>1. s.lo = 0 /\ s.hi = c /\ Position(s) = e /\ 1 \div 2 = 0
  BY DEF InBounds, Position
<1>2. CASE value
  <2>1. Answered(s, value) =
          IF e - 1 <= 0 THEN [phase |-> "bisect", lo |-> 0, hi |-> e, step |-> 0]
          ELSE [phase |-> "down", lo |-> 0, hi |-> e, step |-> 1]
    BY <1>1, <1>2 DEF Answered, Open, CloseDown, Greater
  <2>2. /\ e \in B => Encloses(Answered(s, value), e, c, B, f, d)
        /\ InBounds(Answered(s, value), e, c)
    BY <1>1, <2>1 DEF Encloses, Doubled, InBounds
  <2> QED
    BY Zenon, <1>1, <1>2, <2>2 DEF AnswerKeeps
<1>3. CASE ~value
  <2>1. Answered(s, value) =
          IF e + 1 >= c
          THEN [phase |-> "bisect", lo |-> e, hi |-> IF c < e + 1 THEN c ELSE e + 1, step |-> 0]
          ELSE [phase |-> "up", lo |-> e, hi |-> c, step |-> 1]
    BY <1>1, <1>3 DEF Answered, Open, CloseUp, Lesser
  <2>2. InBounds(Answered(s, value), e, c)
    BY <1>1, <2>1 DEF InBounds
  <2>3. ASSUME Reaches(B, c, e, f, d), e \notin B
        PROVE  Encloses(Answered(s, value), e, c, B, f, d)
    <3>1. e < f /\ e + 1 < c
      BY <2>3 DEF Reaches
    <3> QED
      BY <1>1, <2>1, <2>3, <3>1 DEF Encloses, Doubled
  <2> QED
    BY Zenon, <1>1, <1>3, <2>2, <2>3 DEF AnswerKeeps
<1> QED
  BY Zenon, <1>2, <1>3

(* An answer while the steps double towards the head. *)
LEMMA AnsweredDown ==
  ASSUME NEW e \in Int, NEW c \in Nat, e <= c, c # 0 => e < c, e = Estimate,
         NEW s, InBounds(s, e, c), s.phase = "down", NEW B, NEW f, NEW d,
         NEW value \in BOOLEAN
  PROVE  AnswerKeeps(s, value, e, c, B, f, d)
<1>1. PICK n \in Nat \ {0}, h \in Nat :
        /\ s = [phase |-> "down", lo |-> 0, hi |-> e, step |-> n] /\ e - n > 0
        /\ h = n \div 2 /\ 2 * h <= n /\ (2 * n) \div 2 = n
  BY Halves DEF InBounds
<1>2. Position(s) = e - n
  BY Zenon, <1>1 DEF Position
<1>3. CASE value
  <2>1. Answered(s, value) =
          IF e - 2 * n <= 0 THEN [phase |-> "bisect", lo |-> 0, hi |-> e - n, step |-> 0]
          ELSE [phase |-> "down", lo |-> 0, hi |-> e, step |-> 2 * n]
    BY <1>1, <1>3 DEF Answered, Open, CloseDown, Greater
  <2>2. /\ InBounds(Answered(s, value), e, c)
        /\ e - n \in B => Encloses(Answered(s, value), e, c, B, f, d)
    BY <1>1, <2>1 DEF InBounds, Encloses, Doubled
  <2> QED
    BY Zenon, <1>2, <1>3, <2>2 DEF AnswerKeeps
<1>4. CASE ~value
  <2>1. PICK lo : /\ lo = Greater(0, e - h - n)
                  /\ Answered(s, value) =
                       [phase |-> "bisect", lo |-> lo, hi |-> e - h, step |-> 0]
    BY Zenon, <1>1, <1>4 DEF Answered, CloseDown
  <2>2. lo \in Nat /\ lo < e - h /\ lo <= e - n /\ e - n < c /\ e - h <= c
    BY <1>1, <2>1 DEF Greater
  <2>3. InBounds(Answered(s, value), e, c)
    BY <1>1, <2>1, <2>2 DEF InBounds
  <2>4. ASSUME Reaches(B, c, e, f, d), Encloses(s, e, c, B, f, d), e - n \notin B
        PROVE  Encloses(Answered(s, value), e, c, B, f, d)
    <3>1. e - h \in B
      BY <1>1, <2>4 DEF Encloses
    <3>2. e - n < f /\ lo < f /\ lo \notin B /\ e - h <= d
      BY <1>1, <2>2, <2>4 DEF Reaches
    <3> QED
      BY <2>1, <2>2, <3>1, <3>2 DEF Encloses
  <2> QED
    BY Zenon, <1>2, <1>4, <2>3, <2>4 DEF AnswerKeeps
<1> QED
  BY Zenon, <1>3, <1>4

(* An answer while the steps double away from the head. *)
LEMMA AnsweredUp ==
  ASSUME NEW e \in Int, NEW c \in Nat, e <= c, c # 0 => e < c, e = Estimate,
         NEW s, InBounds(s, e, c), s.phase = "up", NEW B, NEW f, NEW d,
         NEW value \in BOOLEAN
  PROVE  AnswerKeeps(s, value, e, c, B, f, d)
<1>1. PICK n \in Nat \ {0}, h \in Nat :
        /\ s = [phase |-> "up", lo |-> e, hi |-> c, step |-> n] /\ e + n < c
        /\ h = n \div 2 /\ 2 * h <= n /\ n <= 2 * h + 1 /\ (2 * n) \div 2 = n
  BY Halves DEF InBounds
<1>2. Position(s) = e + n
  BY Zenon, <1>1 DEF Position
<1>3. CASE value
  <2>1. PICK hi \in Int :
          /\ hi = IF c < e + h + n THEN c ELSE e + h + n
          /\ Answered(s, value) = [phase |-> "bisect", lo |-> e + h, hi |-> hi, step |-> 0]
    BY <1>1, <1>3 DEF Answered, CloseUp, Lesser
  <2>2. e + h < hi /\ hi <= c /\ (e >= 0 => e + h >= 0)
    BY <1>1, <2>1
  <2>3. InBounds(Answered(s, value), e, c)
    BY <1>1, <2>1, <2>2 DEF InBounds
  <2>4. ASSUME Reaches(B, c, e, f, d), Encloses(s, e, c, B, f, d), e + n \in B
        PROVE  Encloses(Answered(s, value), e, c, B, f, d)
    <3>1. (n = 1 \/ n = 2 * h) /\ e + h \notin B /\ e + h < f
      BY <1>1, <2>4 DEF Encloses, Doubled
    <3>2. e + n <= d /\ (d = c - 1 \/ e + h + n <= c)
      BY <1>1, <2>4, <3>1 DEF Reaches
    <3>3. \/ hi = c /\ d = c - 1
          \/ hi = e + n
          \/ (e + h + hi) \div 2 = e + n
      BY <1>1, <2>1, <3>1, <3>2
    <3> QED
      BY <2>1, <2>2, <2>4, <3>1, <3>2, <3>3 DEF Encloses
  <2> QED
    BY Zenon, <1>2, <1>3, <2>3, <2>4 DEF AnswerKeeps
<1>4. CASE ~value
  <2>1. Answered(s, value) =
          IF e + 2 * n >= c THEN [phase |-> "bisect", lo |-> e + n, hi |-> c, step |-> 0]
          ELSE [phase |-> "up", lo |-> e, hi |-> c, step |-> 2 * n]
    BY <1>1, <1>4 DEF Answered, Open, CloseUp, Lesser
  <2>2. InBounds(Answered(s, value), e, c)
    BY <1>1, <2>1 DEF InBounds
  <2>3. ASSUME Reaches(B, c, e, f, d), Encloses(s, e, c, B, f, d), e + n \notin B
        PROVE  Encloses(Answered(s, value), e, c, B, f, d)
    <3>1. (n = 1 \/ n = 2 * h) /\ e + h < f
      BY <1>1, <2>3 DEF Encloses, Doubled
    <3>2. e + n <= d
      BY <1>1, <2>3, <3>1 DEF Reaches
    <3>3. e + n < f
      BY <1>1, <2>3, <3>2 DEF Reaches
    <3>4. e + 2 * n < c
      BY <1>1, <2>3, <3>3 DEF Reaches
    <3> QED
      BY <1>1, <2>1, <2>3, <3>3, <3>4 DEF Encloses, Doubled
  <2> QED
    BY Zenon, <1>2, <1>4, <2>2, <2>3 DEF AnswerKeeps
<1> QED
  BY Zenon, <1>3, <1>4

(* An answer in the middle. *)
LEMMA AnsweredBisect ==
  ASSUME NEW e \in Int, NEW c \in Nat, NEW s, InBounds(s, e, c), s.phase = "bisect",
         ~Found(s), NEW B, NEW f, NEW d,
         NEW value \in BOOLEAN
  PROVE  AnswerKeeps(s, value, e, c, B, f, d)
<1>1. PICK lo \in Int, hi \in Int, n \in Nat :
        /\ s = [phase |-> "bisect", lo |-> lo, hi |-> hi, step |-> n]
        /\ hi <= c /\ lo + 1 < hi
  BY DEF InBounds, Found
<1>2. PICK m \in Int : m = (lo + hi) \div 2 /\ lo < m /\ m < hi
  BY Zenon, <1>1, Middle
<1>3. Position(s) = m
  BY Zenon, <1>1, <1>2 DEF Position
<1>4. CASE value
  <2>1. Answered(s, value) = [phase |-> "bisect", lo |-> lo, hi |-> m, step |-> n]
    BY Zenon, <1>1, <1>3, <1>4 DEF Answered
  <2>2. InBounds(Answered(s, value), e, c)
    BY <1>1, <1>2, <2>1 DEF InBounds
  <2>3. ASSUME Reaches(B, c, e, f, d), Encloses(s, e, c, B, f, d), m \in B
        PROVE  Encloses(Answered(s, value), e, c, B, f, d)
    BY <1>1, <1>2, <2>1, <2>3 DEF Encloses, Reaches
  <2> QED
    BY Zenon, <1>3, <1>4, <2>2, <2>3 DEF AnswerKeeps
<1>5. CASE ~value
  <2>1. Answered(s, value) = [phase |-> "bisect", lo |-> m, hi |-> hi, step |-> n]
    BY Zenon, <1>1, <1>3, <1>5 DEF Answered
  <2>2. InBounds(Answered(s, value), e, c)
    BY <1>1, <1>2, <2>1 DEF InBounds
  <2>3. ASSUME Reaches(B, c, e, f, d), Encloses(s, e, c, B, f, d), m \notin B
        PROVE  Encloses(Answered(s, value), e, c, B, f, d)
    BY <1>1, <1>2, <2>1, <2>3 DEF Encloses, Reaches
  <2> QED
    BY Zenon, <1>3, <1>5, <2>2, <2>3 DEF AnswerKeeps
<1> QED
  BY Zenon, <1>4, <1>5

(* Within reach, in the terms of the proof. *)
LEMMA ReachesFirst ==
  ASSUME RelayNumbers, Monotonic, WithinReach
  PROVE  \E d : Reaches(Common, clientBlockNumber, Estimate, FirstOnBoth, d)
<1>1. PICK f \in Distances : f = FirstOnBoth /\ IsFork(f)
  BY Zenon DEF Monotonic, FirstOnBoth
<1>2. PICK d \in Distances :
        /\ d >= Estimate /\ d - f >= f - Estimate - 1
        /\ d = clientBlockNumber - 1 \/ Estimate + 3 * (f - Estimate - 1) <= clientBlockNumber
  BY <1>1 DEF WithinReach
<1>3. clientBlockNumber \in Nat /\ Estimate \in Int
  BY Zenon, EstimateBound DEF RelayNumbers
<1>4. f \in Nat /\ d \in Nat /\ f <= d /\ d < clientBlockNumber
  BY <1>2, <1>3 DEF Distances
<1>5. \A x \in 0 .. d : x \in Distances
  BY <1>3, <1>4 DEF Distances
<1>6. \A x \in 0 .. d : x \in Common <=> f <= x
  BY <1>1, <1>5 DEF IsFork, Common
<1> QED
  BY Zenon, <1>1, <1>2, <1>4, <1>6 DEF Reaches

(* A bisection that has ended is at the first block of both chains, but    *)
(* for its two exceptions.                                                 *)
LEMMA FoundLeast ==
  ASSUME NEW e \in Int, NEW c \in Nat, NEW s, NEW B, NEW f, NEW d, Found(s),
         InBounds(s, e, c), Encloses(s, e, c, B, f, d), Reaches(B, c, e, f, d)
  PROVE  \/ s.hi = f
         \/ f = 0 /\ s.hi = 1 /\ e >= 1
         \/ s.hi < 0 /\ e < 0 /\ s.hi \in B
<1>1. PICK lo \in Int, hi \in Int : lo = s.lo /\ hi = s.hi /\ lo + 1 >= hi /\ hi <= c
  BY DEF InBounds, Found
<1>2. \/ hi = e /\ e <= 0 /\ e \in B
      \/ lo = 0 /\ 0 < hi /\ hi <= e /\ hi \in B
      \/ /\ lo \notin B /\ lo < f /\ lo < hi /\ (e >= 0 => lo >= 0)
         /\ \/ hi = c /\ d = c - 1
            \/ hi \in B /\ hi <= d
            \/ (lo + hi) \div 2 \in B
  BY Zenon, <1>1 DEF Found, Encloses
<1>3. f \in Nat /\ d \in Nat /\ f <= d /\ e <= d /\ \A x \in 0 .. d : x \in B <=> f <= x
  BY Zenon DEF Reaches
<1>4. CASE hi = e /\ e <= 0 /\ e \in B
  BY <1>1, <1>3, <1>4
<1>5. CASE lo = 0 /\ 0 < hi /\ hi <= e /\ hi \in B
  BY <1>1, <1>3, <1>5
<1>6. CASE /\ lo \notin B /\ lo < f /\ lo < hi /\ (e >= 0 => lo >= 0)
           /\ \/ hi = c /\ d = c - 1
              \/ hi \in B /\ hi <= d
              \/ (lo + hi) \div 2 \in B
  <2>1. hi = lo + 1 /\ (lo + hi) \div 2 = lo
    BY <1>1, <1>6
  <2>2. hi <= f /\ hi # d + 1 /\ (hi < 0 => e < 0)
    <3>1. lo < f /\ (e >= 0 => lo >= 0) /\ hi = lo + 1
      BY Zenon, <1>6, <2>1
    <3> QED
      BY <1>1, <1>3, <3>1
  <2>3. hi \in B /\ hi <= d
    <3>1. (hi = c /\ d = c - 1) \/ (hi \in B /\ hi <= d)
      BY Zenon, <1>6, <2>1
    <3> QED
      BY <1>1, <2>2, <3>1
  <2>4. hi >= 0 => hi = f
    BY <1>3, <2>2, <2>3
  <2> QED
    BY <1>1, <2>2, <2>3, <2>4
<1> QED
  BY Zenon, <1>2, <1>4, <1>5, <1>6

(* So is the search of the relay. *)
LEMMA FoundIsFirst ==
  ASSUME RelayNumbers, Found(search), Monotonic, WithinReach,
         InBounds(search, Estimate, clientBlockNumber),
         Around(search, Estimate, clientBlockNumber, Common)
  PROVE  \/ search.hi = FirstOnBoth
         \/ FirstOnBoth = 0 /\ search.hi = 1 /\ Estimate >= 1
         \/ search.hi < 0 /\ Estimate < 0 /\ OnBothChains(search.hi)
<1>1. PICK d : Reaches(Common, clientBlockNumber, Estimate, FirstOnBoth, d)
  BY Zenon, ReachesFirst
<1>2. Encloses(search, Estimate, clientBlockNumber, Common, FirstOnBoth, d)
  BY Zenon, <1>1 DEF Around
<1>3. clientBlockNumber \in Nat /\ Estimate \in Int
  BY Zenon, EstimateBound DEF RelayNumbers
<1>4. \/ search.hi = FirstOnBoth
      \/ FirstOnBoth = 0 /\ search.hi = 1 /\ Estimate >= 1
      \/ search.hi < 0 /\ Estimate < 0 /\ search.hi \in Common
  BY <1>1, <1>2, <1>3, FoundLeast
<1> QED
  BY Zenon, <1>4 DEF Common

-----------------------------------------------------------------------------
(* While nothing moves the questions keep their answers. *)
LEMMA NothingMoved ==
  ASSUME UNCHANGED <<tip, all_header_hashes, clientBlockNumber, previousBlockNumber>>
  PROVE  /\ Estimate' = Estimate /\ Common' = Common
         /\ \A n : getEthBlock(n)' = getEthBlock(n)
         /\ \A s : Position(s)' = Position(s)
  BY DEF Estimate, getEthBlock, OnBothChains, known_hashes, Common, Position

(* A header the client records keeps the types of its maps. *)
LEMMA AddedHeaderTyped ==
  ASSUME RelayNumbers, NEW a, NEW h \in Hashes, add_block_header(a, h)
  PROVE  best_header_hash' \in Hashes /\ infos' \in [Hashes -> HeaderInfo \cup {None}]
  BY ConstantTypes
     DEF add_block_header, record_header, RelayNumbers, Known, HeaderInfo, NewInfo,
         IsHeader, Number

(* Nothing is searched or sent at first. *)
LEMMA RelayInvInit == RelayInit => RelayInv
  BY ConstantTypes
     DEF RelayInit, Init, HeaderInfo, IsHeader, Number, RelayNumbers, RelayInv, SearchInv,
         BatchInv

(* A call of the transaction is add_block_header, or its end. *)
LEMMA SubmitBlockSteps ==
  ASSUME submitBlock
  PROVE  /\ epc = "execute" /\ disturbed' = TRUE
         /\ UNCHANGED <<tip, clientBlockNumber, chainBlockNumber, previousBlockNumber,
                        search, chainHash, faults>>
         /\ \/ /\ \E h \in Hashes : add_block_header(Relay, h)
               /\ UNCHANGED <<epc, blocks, saved>>
            \/ best_header_hash' = saved[1] /\ infos' = saved[5] /\ epc' = "heads"
            \/ UNCHANGED vars /\ epc' = "heads"
<1>1. ~Panics(blocks[queue + 1]) => blocks[queue + 1] \in Hashes
  BY Zenon DEF Panics
<1> QED
  BY Zenon, <1>1 DEF submitBlock

(* Where the search runs on, it keeps what it knows while nothing moves. *)
LEMMA SearchKept ==
  ASSUME SearchInv,
         UNCHANGED <<epc, search, chainHash, clientBlockNumber, previousBlockNumber>>,
         \/ disturbed' = TRUE
         \/ UNCHANGED <<tip, all_header_hashes, disturbed>>
  PROVE  SearchInv'
  BY Zenon, NothingMoved DEF Estimate, Found, SearchInv

(* The question asked lies within the bounds. *)
LEMMA PositionInt ==
  ASSUME RelayNumbers, InBounds(search, Estimate, clientBlockNumber), ~Found(search)
  PROVE  Position(search) \in Int
  BY EstimateBound, Middle DEF InBounds, Found, Position

(* An answer of the client continues the search. *)
LEMMA predicateReadsClientInv ==
  ASSUME RelayInv, predicateReadsClient
  PROVE  SearchInv'
<1> DEFINE p == Position(search)
           value == chainHash \in known_hashes(clientBlockNumber - p)
<1>1. /\ RelayNumbers /\ SearchInv /\ epc = "known"
      /\ InBounds(search, Estimate, clientBlockNumber) /\ ~Found(search)
      /\ search' = Answered(search, value)
      /\ epc' = IF Found(search') THEN "found" ELSE "predicate"
      /\ UNCHANGED <<tip, all_header_hashes, clientBlockNumber, previousBlockNumber, disturbed>>
      /\ value \in BOOLEAN
      /\ ~disturbed => (value <=> p \in Common)
  BY PositionInt
     DEF RelayInv, SearchInv, predicateReadsClient, vars, chainVars, Common, OnBothChains
<1> HIDE DEF value
<1>2. ASSUME NEW f, NEW d
      PROVE  AnswerKeeps(search, value, Estimate, clientBlockNumber, Common, f, d)
  BY <1>1, EstimateBound, AnsweredEstimate, AnsweredDown, AnsweredUp, AnsweredBisect
     DEF InBounds, RelayNumbers
<1> QED
  BY Zenon, <1>1, <1>2, EstimateBound, NothingMoved
     DEF SearchInv, Around, AnswerKeeps, RelayNumbers, Found

(* The relay's numbers are those of the client or of blocks below its head. *)
LEMMA NumbersKept == RelayInv /\ [RelayNext]_allVars => RelayNumbers'
<1> SUFFICES ASSUME RelayInv, [RelayNext]_allVars PROVE RelayNumbers'
  BY Zenon
<1>1. RelayNumbers /\ SearchInv /\ BatchInv
  BY Zenon DEF RelayInv
<1>2. CASE UNCHANGED <<vars, clientBlockNumber, previousBlockNumber>>
  BY Zenon, <1>1, <1>2 DEF RelayNumbers, vars, chainVars
<1>3. CASE readClientHead
  BY <1>1, <1>3
     DEF readClientHead, RelayNumbers, last_block_number, BestInfo, HeaderInfo, Numbers,
         vars, chainVars
<1>4. CASE applyDelta
  BY <1>1, <1>4, EstimateBound
     DEF applyDelta, RelayNumbers, SearchInv, InBounds, vars, chainVars
<1>5. CASE submitBlock
  BY Zenon, <1>5, <1>1, <1>2, AddedHeaderTyped, SubmitBlockSteps DEF BatchInv, RelayNumbers
<1>6. CASE others
  BY Zenon, <1>1, <1>6, AddedHeaderTyped DEF others, relayVars, RelayNumbers
<1>7. CASE restart
  BY Zenon, <1>1, <1>7 DEF restart, RelayNumbers, vars, chainVars
<1> QED
  BY Zenon, <1>2, <1>3, <1>4, <1>5, <1>6, <1>7
     DEF RelayNext, run, readChainHead, predicate, predicateReadsChain,
         predicateReadsClient, readFails, getParseBlock, submitFails,
         signAndSendTransaction, ethAdvance, relayVars, allVars

(* The search: what the steps of a round and of the others do to it. *)
LEMMA SearchStepsKeep == RelayInv /\ [RelayNext]_allVars => SearchInv'
<1> SUFFICES ASSUME RelayInv, [RelayNext]_allVars PROVE SearchInv'
  BY Zenon
<1>1. RelayNumbers /\ SearchInv
  BY Zenon DEF RelayInv
<1>2. CASE readChainHead
  BY <1>1, <1>2 DEF readChainHead, RelayNumbers, SearchInv, InBounds, Around, Encloses, Found
<1>3. CASE predicateReadsChain \/ (readFails /\ epc' = "predicate")
  <2>1. /\ UNCHANGED <<tip, all_header_hashes, clientBlockNumber, previousBlockNumber,
                       disturbed, search>>
        /\ epc \in {"predicate", "known"}
        /\ \/ epc' = "predicate"
           \/ epc' = "known" /\ chainHash' = getEthBlock(clientBlockNumber - Position(search))
    BY Zenon, <1>3 DEF predicateReadsChain, readFails, vars, chainVars
  <2>2. (Found(search)' <=> Found(search)) /\ Position(search)' = Position(search)
    BY Zenon, <2>1 DEF Found, Position, Estimate
  <2> QED
    BY Zenon, <1>1, <2>1, <2>2, NothingMoved DEF SearchInv
<1>4. CASE ethAdvance \/ others \/ UNCHANGED allVars
  <2>1. /\ UNCHANGED relayVars
        /\ disturbed' = TRUE \/ UNCHANGED <<tip, all_header_hashes, disturbed>>
        /\ UNCHANGED <<epc, search, chainHash, clientBlockNumber, previousBlockNumber>>
    BY Zenon, <1>4 DEF ethAdvance, others, allVars, vars, chainVars, relayVars
  <2> QED
    BY Zenon, <1>1, <2>1, SearchKept
<1>5. CASE submitBlock
  BY Zenon, <1>5, SubmitBlockSteps DEF SearchInv
<1> QED
  BY Zenon, <1>2, <1>3, <1>4, <1>5, predicateReadsClientInv
     DEF RelayNext, run, predicate, readClientHead, readFails, applyDelta, getParseBlock,
         submitFails, restart, signAndSendTransaction, SearchInv

(* The batch: what the client held is saved when it is sent. *)
LEMMA BatchStepsKeep == RelayInv /\ [RelayNext]_allVars => BatchInv'
<1> SUFFICES ASSUME RelayInv, [RelayNext]_allVars PROVE BatchInv'
  BY Zenon
<1>1. RelayNumbers /\ BatchInv
  BY Zenon DEF RelayInv
<1>2. CASE epc' \notin {"fetch", "execute"}
  BY Zenon, <1>2 DEF BatchInv
<1>3. CASE UNCHANGED <<epc, blocks, saved>>
  BY Zenon, <1>1, <1>3 DEF BatchInv
<1>4. CASE applyDelta
  <2>1. epc' = "heads" \/ epc' = "fetch"
    BY Zenon, <1>4 DEF applyDelta
  <2> QED
    BY Zenon, <2>1 DEF BatchInv
<1>5. CASE getParseBlock
  BY Zenon, <1>1, <1>5 DEF getParseBlock, BatchInv
<1>6. CASE signAndSendTransaction
  BY Zenon, <1>6, <1>1 DEF signAndSendTransaction, chainVars, BatchInv, RelayNumbers
<1>7. CASE submitBlock
  BY Zenon, <1>2, <1>3, <1>7, SubmitBlockSteps
<1> QED
  BY Zenon, <1>2, <1>3, <1>4, <1>5, <1>6, <1>7
     DEF RelayNext, run, predicate, readClientHead, readChainHead, predicateReadsChain,
         predicateReadsClient, readFails, submitFails, restart, ethAdvance, others, relayVars,
         allVars

(* The search returns the closest block of both chains or one of its two   *)
(* other answers (binarySearchWithEstimate), for every chain and estimate, *)
(* when what the client holds of the main chain is within reach.           *)
THEOREM SearchFindsFirstAlways == RelaySpec => []SearchFindsFirst
<1>1. RelayInv /\ [RelayNext]_allVars => RelayInv'
  BY NumbersKept, SearchStepsKeep, BatchStepsKeep, Zenon DEF RelayInv
<1>2. RelayInv => SearchFindsFirst
  BY Zenon, FoundIsFirst DEF RelayInv, SearchInv, SearchFindsFirst
<1> QED
  BY <1>1, <1>2, RelayInvInit, PTL DEF RelaySpec
=============================================================================
