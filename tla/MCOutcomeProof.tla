--------------------------- MODULE MCOutcomeProof ----------------------------
(***************************************************************************)
(* Instances of OutcomeProof: the withdrawal alone, or with other outcomes *)
(* around it, in blocks of one shard and of two.                           *)
(***************************************************************************)
EXTENDS OutcomeProof

Outcome(id, logs, status) ==
  [id |-> id, receipt_ids |-> <<<<"receipt">>>>, logs |-> logs, status |-> status]

SomeWithdrawals ==
  {Outcome("withdrawal", <<>>, "SuccessValue"), Outcome("withdrawal", <<>>, "SuccessReceiptId"),
   Outcome("withdrawal", <<"log">>, "SuccessValue"), Outcome("withdrawal", <<>>, "Failure")}

Other(id) == Outcome(id, <<"log">>, "Failure")

\* Blocks of one shard, then of two.
BlocksWith(w) ==
  {<<<<Other("a")>>>>, <<<<w>>>>, <<<<Other("a"), w>>>>,
   <<<<w, Other("a"), Other("b")>>>>, <<<<Other("a"), Other("b"), w>>>>,
   <<<<>>, <<Other("a")>>>>, <<<<w>>, <<Other("a")>>>>, <<<<>>, <<Other("a"), w>>>>}

=============================================================================
