---------------------- MODULE MCDepositReconciliation ----------------------
(* One wallet whose first gap is longer than a page, and two workers: the   *)
(* oldest and the newest transactions are deposits.                        *)
EXTENDS DepositReconciliation, TLC

CONSTANTS w1, p1, p2

MCKind == w1 :> <<"deposit", "failed", "deposit">>

=============================================================================
