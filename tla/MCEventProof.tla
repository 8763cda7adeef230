---------------------------- MODULE MCEventProof -----------------------------
(***************************************************************************)
(* Instances of EventProof: the transaction of interest has two logs, and  *)
(* another one, with a single log, comes before it, after it or not at     *)
(* all.                                                                    *)
(***************************************************************************)
EXTENDS EventProof

TwoTransactions == {<<>>, <<"lock">>, <<"other">>, <<"other", "lock">>, <<"lock", "other">>}

TheirLogs == [lock |-> <<"Transfer", "Locked">>, other |-> <<"Other">>]

=============================================================================
