---------------------------- MODULE MCEthClient -----------------------------
(* A small tree of Ethereum headers for the EthClient model. *)
EXTENDS EthClient

Hd(parent, n, d) == [parent_hash |-> parent, number |-> n, difficulty |-> d, sound |-> TRUE]

(* Three forks: a, the main chain; b, which leaves it at once, grows       *)
(* lighter and overtakes late; c, short and heavy.  The others are         *)
(* refused by verify_header.                                               *)
ForkTree ==
  [h \in {"g1", "a2", "a3", "a4", "a5", "a6", "a7", "b2", "b3", "b4", "b5",
          "b6", "b7", "c3", "c4", "c5", "skip", "weak"} |->
     CASE h = "g1" -> Hd(Zero, 1, 2)
       [] h = "a2" -> Hd("g1", 2, 2) [] h = "a3" -> Hd("a2", 3, 2)
       [] h = "a4" -> Hd("a3", 4, 2) [] h = "a5" -> Hd("a4", 5, 2)
       [] h = "a6" -> Hd("a5", 6, 3) [] h = "a7" -> Hd("a6", 7, 2)
       [] h = "b2" -> Hd("g1", 2, 1) [] h = "b3" -> Hd("b2", 3, 1)
       [] h = "b4" -> Hd("b3", 4, 1) [] h = "b5" -> Hd("b4", 5, 1)
       [] h = "b6" -> Hd("b5", 6, 8) [] h = "b7" -> Hd("b6", 7, 1)
       [] h = "c3" -> Hd("a2", 3, 6) [] h = "c4" -> Hd("c3", 4, 2) [] h = "c5" -> Hd("c4", 5, 3)
       [] h = "skip" -> Hd("a2", 4, 3)
       [] h = "weak" -> [Hd("a2", 3, 4) EXCEPT !.sound = FALSE]]

(* Mainnet difficulties: neighbours differ by less than a hundredth.  Two  *)
(* forks grow side by side and b overtakes a at number 7.                  *)
MainnetTree ==
  [h \in {"g1", "a2", "a3", "a4", "a5", "a6", "a7", "b2", "b3", "b4", "b5", "b6", "b7",
          "low", "high"} |->
     CASE h = "g1" -> Hd(Zero, 1, 300)
       [] h = "a2" -> Hd("g1", 2, 300) [] h = "a3" -> Hd("a2", 3, 301)
       [] h = "a4" -> Hd("a3", 4, 300) [] h = "a5" -> Hd("a4", 5, 300)
       [] h = "a6" -> Hd("a5", 6, 300) [] h = "a7" -> Hd("a6", 7, 300)
       [] h = "b2" -> Hd("g1", 2, 299) [] h = "b3" -> Hd("b2", 3, 299)
       [] h = "b4" -> Hd("b3", 4, 300) [] h = "b5" -> Hd("b4", 5, 301)
       [] h = "b6" -> Hd("b5", 6, 301) [] h = "b7" -> Hd("b6", 7, 302)
       [] h = "low" -> Hd("a2", 3, 297) [] h = "high" -> Hd("a2", 3, 303)]

MCHashes == DOMAIN Header
MCTrustedHeaders == MCHashes \ {"skip"}

(* The ancestor table of the tree. *)
MCAncestor ==
  LET up[k \in 0 .. MaxNumber] ==
        IF k = 0 THEN [h \in MCHashes |-> h]
        ELSE [h \in MCHashes |->
                LET a == up[k - 1][h] IN IF a \in MCHashes THEN ParentHash(a) ELSE Zero]
  IN  [h \in MCHashes |-> [k \in 0 .. MaxNumber |-> up[k][h]]]
=============================================================================
