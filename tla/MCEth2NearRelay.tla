-------------------------- MODULE MCEth2NearRelay ---------------------------
(* Small chains for the Eth2NearRelay model. *)
EXTENDS Eth2NearRelay

Hd(parent, n, d) == [parent_hash |-> parent, number |-> n, difficulty |-> d, sound |-> TRUE]

(* The client starts at g3.  Of the two forks after g4, b is longer and    *)
(* lighter than a5 with b6, and heavier than a6 with b7.                   *)
ReorgTree ==
  [h \in {"g3", "g4", "a5", "a6", "b5", "b6", "b7"} |->
     CASE h = "g3" -> Hd(Zero, 3, 2) [] h = "g4" -> Hd("g3", 4, 2)
       [] h = "a5" -> Hd("g4", 5, 4) [] h = "a6" -> Hd("a5", 6, 2)
       [] h = "b5" -> Hd("g4", 5, 1) [] h = "b6" -> Hd("b5", 6, 2) [] h = "b7" -> Hd("b6", 7, 4)]

AncestorIn(tree) ==
  LET up[k \in 0 .. MaxNumber] ==
        IF k = 0 THEN [h \in DOMAIN tree |-> h]
        ELSE [h \in DOMAIN tree |->
                LET a == up[k - 1][h] IN IF a \in DOMAIN tree THEN tree[a].parent_hash ELSE Zero]
  IN  [h \in DOMAIN tree |-> [k \in 0 .. MaxNumber |-> up[k][h]]]

(* TLC evaluates a definition once, but a definition that stands for a     *)
(* constant at every use: the constants stand for the MC names.            *)
ReorgHashes == DOMAIN ReorgTree
ReorgAncestor == AncestorIn(ReorgTree)
MCHeader == ReorgTree
MCHashes == ReorgHashes
MCAncestor == ReorgAncestor
=============================================================================
