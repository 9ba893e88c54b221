------------------------- MODULE MCWalletEnrollment -------------------------
EXTENDS WalletEnrollment, TLC

CONSTANTS r1, r2, w1, w2

MCRequests == {r1, r2}
MCWallets == {w1, w2}

\* What is read of the wallet once it is enrolled, and how an amount is told.
Reads == INSTANCE WalletReads
Amount == INSTANCE Amounts
ASSUME ReadingClaims == Reads!ReadClaims /\ Amount!AmountClaims

Symmetry == Permutations(MCRequests) \cup Permutations(MCWallets)
=============================================================================
