SPECIFICATION Spec
CONSTANTS
  r1 = r1
  r2 = r2
  w1 = w1
  w2 = w2
  Nobody = Nobody
  NoWallet = NoWallet
  Requests <- MCRequests
  Wallets <- MCWallets
  MaxRevision = 2
  MaxGrants = 2
  MaxChanges = 2
  MaxRequests = 5
SYMMETRY Symmetry
CHECK_DEADLOCK FALSE
INVARIANTS ReadyWasListed ActiveWasProven
PROPERTIES SyncsCommitInOrder RevokedStaysRevoked
