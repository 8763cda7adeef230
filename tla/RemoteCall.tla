----------------------------- MODULE RemoteCall -----------------------------
(***************************************************************************)
(* What a caller of the retrying senders of utils/robust.js is promised    *)
(* about one call to a contract on another chain.                          *)
(*                                                                         *)
(* A call is carried by attempts (signed transactions).  An attempt takes  *)
(* effect when the chain executes it.  The sender may lose track of an     *)
(* attempt - the network swallowed the answer to its broadcast, or the     *)
(* wait for its receipt timed out - and only such attempts may take effect *)
(* besides the one the answer is about: the call is at most once as long   *)
(* as no attempt went out of sight, and at least once when it answers      *)
(* "success".  A call that answers "error" promises nothing.               *)
(***************************************************************************)
CONSTANT Attempts

VARIABLES
  effects,        \* attempts that took effect
  outOfSight,     \* attempts the sender lost track of
  answer          \* what the caller was told

vars == <<effects, outOfSight, answer>>

Init == effects = {} /\ outOfSight = {} /\ answer = "none"

LoseTrack(n) ==
  /\ answer = "none"
  /\ outOfSight' = outOfSight \cup {n}
  /\ UNCHANGED <<effects, answer>>

(* An attempt may still take effect after the caller was told of an error. *)
TakeEffect(n) ==
  /\ effects' = effects \cup {n}
  /\ \E last \in Attempts : effects' \subseteq outOfSight \cup {last}
  /\ UNCHANGED <<outOfSight, answer>>

Answer(a) ==
  /\ answer = "none"
  /\ a = "success" => effects # {}
  /\ answer' = a
  /\ UNCHANGED <<effects, outOfSight>>

Next ==
  \/ \E n \in Attempts : LoseTrack(n) \/ TakeEffect(n)
  \/ \E a \in {"success", "error"} : Answer(a)

Spec == Init /\ [][Next]_vars
=============================================================================
