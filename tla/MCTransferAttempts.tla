------------------------- MODULE MCTransferAttempts -------------------------
(* Small instances of TransferAttempts for TLC.                            *)
EXTENDS TransferAttempts, TLC

\* What a broadcast's answers, the wait for finality and the signer tell.
Provider == INSTANCE SolanaProvider
ASSUME ProviderClaims == Provider!ProviderClaims /\ Provider!SidecarClaims

\* Attempts, processes and slots are interchangeable (CHOOSE only picks the
\* one active attempt); not used where liveness is checked.
Symmetry ==
  Permutations(Attempts) \cup Permutations(Procs) \cup Permutations(Slots)
=============================================================================
