------------------------- MODULE MCNearTransaction --------------------------
(* Small instances of NearTransaction. *)
EXTENDS NearTransaction

MCModes == AllModes
=============================================================================
