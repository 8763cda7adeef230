----------------------------- MODULE MCWatchdog -----------------------------
(* Small NEAR chains for the Watchdog model. *)
EXTENDS Watchdog

BP(k, s) == [key |-> k, stake |-> s]

V0 == <<BP("k1", 2), BP("k2", 1), BP("k3", 1)>>
V1 == <<BP("k2", 1), BP("k1", 2)>>
V2 == <<BP("k3", 1)>>

MCValidatorsOf ==
  [e \in {"e0", "e1", "e2"} |->
     CASE e = "e0" -> V0 [] e = "e1" -> V1 [] e = "e2" -> V2]

Sig(k, nextHash, h) ==
  IF k = Zero THEN Zero ELSE [key |-> k, msg |-> <<nextHash, h>>]

Blk(h, ts, hash, e, ne, bps, signers) ==
  [height |-> h, timestamp |-> ts, hash |-> hash, merkleRoot |-> hash \o "r",
   nextHash |-> hash \o "n", epochId |-> e, nextEpochId |-> ne,
   nextBpHash |-> bps, nextBps |-> bps,
   approvals |-> [i \in 1 .. Len(signers) |-> Sig(signers[i], hash \o "n", h)]]

(* B2x lacks the second signature and has a bad third one; F3 is a bad     *)
(* block of the next epoch, which has fewer producers.                     *)
G1   == Blk(1, 1, "g1", "e0", "e1", V1, <<>>)
B2   == Blk(2, 2, "b2", "e0", "e1", V1, <<"k1", "k2", Zero>>)
B2x  == Blk(2, 2, "b2", "e0", "e1", V1, <<"k1", Zero, "none">>)
F3   == Blk(3, 6, "f3", "e1", "e2", V2, <<"k2", "none">>)
F4   == Blk(4, 10, "f4", "e0", "e1", V1, <<"k1", "k2", "none">>)

MCBlocks == {G1, B2, B2x, F3, F4}
MCInitialBlocks == {G1}
MCInitialValidators == {V0}
NoPause == {{}}
=============================================================================
