------------------------- MODULE MCRecipientPolicy -------------------------
(* Small instances of RecipientPolicy for TLC.                             *)
EXTENDS RecipientPolicy, TLC

CONSTANT Paid  \* the address the grants pay

Allowlists == [g \in Grants |-> {Paid}]

\* What an apply and the probes compute, over small records.
Probes == INSTANCE PolicyProbes
ASSUME PolicyClaims == Probes!CompositionClaims /\ Probes!ProbeClaims

\* Requests are interchangeable; not used where liveness is checked.
Symmetry == Permutations(Requests)
=============================================================================
