---------------------------- MODULE MCNearBridge ----------------------------
(* Small NEAR chains for the NearBridge model. *)
EXTENDS NearBridge, TLC

BP(k, s) == [key |-> k, stake |-> s]

V0 == <<BP("k1", 2), BP("k2", 1), BP("k3", 1)>>   \* odd count, threshold 2
V1 == <<BP("k2", 1), BP("k1", 2)>>                \* even count, threshold 2
V2 == <<BP("k3", 1)>>
Forged == <<BP("kx", 1)>>

MCValidatorsOf ==
  [e \in {"e0", "e1", "e2", "e3", "x2"} |->
     CASE e = "e0" -> V0 [] e = "e1" -> V1 [] e = "e2" -> V2
       [] e = "e3" -> V0 [] e = "x2" -> <<>>]

(* signers is a sequence of "good" keys, Zero (no approval) or "bad".      *)
Sig(k, nextHash, h) ==
  IF k = Zero THEN Zero
  ELSE IF k = "bad" THEN [key |-> "none", msg |-> <<nextHash, h>>]
  ELSE [key |-> k, msg |-> <<nextHash, h>>]

Blk(h, ts, hash, e, ne, bpHash, bps, signers) ==
  [height |-> h, timestamp |-> ts, hash |-> hash, merkleRoot |-> hash \o "r",
   nextHash |-> hash \o "n", epochId |-> e, nextEpochId |-> ne,
   nextBpHash |-> bpHash, nextBps |-> bps,
   approvals |-> [i \in 1 .. Len(signers) |-> Sig(signers[i], hash \o "n", h)]]

G1   == Blk(1, 1, "g1", "e0", "e1", V1, V1, <<>>)
B2   == Blk(2, 2, "b2", "e0", "e1", V1, Zero, <<"k1", "k2", Zero>>)
B2x  == Blk(2, 2, "b2", "e0", "e1", V1, Zero, <<"k1", Zero, "bad">>)
B2w  == Blk(2, 2, "b2", "e0", "e1", V1, Zero, <<"k1", Zero, Zero>>)
B3   == Blk(3, 4, "b3", "e1", "e2", V2, V2, <<"k2", "k1">>)
B3h  == Blk(3, 4, "b3", "e1", "e2", V2, Forged, <<"k2", "k1">>)
F3   == Blk(3, 4, "f3", "e1", "x2", Forged, Forged, <<"bad", "bad">>)
F3e  == Blk(3, 1, "x3", "e0", "x2", Forged, Zero, <<"bad", "bad", "bad">>)
B4   == Blk(4, 5, "b4", "e2", "e3", V0, V0, <<"k3">>)
F4   == Blk(4, 6, "f4", "x2", "e3", V0, V0, <<"kx">>)
B5   == Blk(5, 7, "b5", "e1", "e2", V2, V2, <<"k2", "k1", "k3">>)

ChainBlocks == {G1, B2, B2x, B2w, B3, B3h, F3, F3e, B4, F4, B5}
MCInitialBlocks == {G1}
MCInitialValidators == {V0}
Submitters == Permutations(Accounts \ {Admin})
SomePause == {{}, {"ADD_BLOCK", "DEPOSIT"}, {"WITHDRAW", "CHALLENGE"}}
=============================================================================
