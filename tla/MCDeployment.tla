---------------------------- MODULE MCDeployment -----------------------------
(***************************************************************************)
(* Instances of Deployment.                                                *)
(***************************************************************************)
EXTENDS Deployment

TwoClients == {"client", "client2"}

TwoKeys == {"master", "other"}
=============================================================================
