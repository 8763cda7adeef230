-------------------------- MODULE MCNear2EthRelay ---------------------------
(* Small NEAR chains for the Near2EthRelay model. *)
EXTENDS Near2EthRelay

BP(k, s) == [key |-> k, stake |-> s]

V0 == <<BP("k1", 2), BP("k2", 1)>>
V1 == <<BP("k2", 2), BP("k1", 1)>>
V2 == <<BP("k3", 1)>>

MCValidatorsOf ==
  [e \in {"e0", "e1", "e2"} |->
     CASE e = "e0" -> V0 [] e = "e1" -> V1 [] e = "e2" -> V2]

Blk(h, ts, id, e, ne, bps, signers) ==
  [height |-> h, timestamp |-> ts, hash |-> id, merkleRoot |-> id \o "r",
   nextHash |-> id \o "n", epochId |-> e, nextEpochId |-> ne,
   nextBpHash |-> bps, nextBps |-> bps,
   approvals |-> [i \in 1 .. Len(signers) |->
                    [key |-> signers[i], msg |-> <<id \o "n", h>>]]]

G1 == Blk(1, 1, "g1", "e0", "e1", V1, <<"k1", "k2">>)
B2 == Blk(2, 2, "b2", "e0", "e1", V1, <<"k1", "k2">>)
B3 == Blk(3, 3, "b3", "e1", "e2", V2, <<"k2", "k1">>)
(* The last block comes well after the others. *)
B4 == Blk(4, 8, "b4", "e1", "e2", V2, <<"k2", "k1">>)

MCNearChain == <<G1, B2, B3, B4>>
MCBlocks == Range(MCNearChain)

MCInitialBlocks == {G1}
MCInitialValidators == {V0}
NoPause == {{}}
=============================================================================
