CONSTANTS
  Slots = {s1, s2}
  Grants <- GrantIds
  Keys = {k1, k2}
  Contacts = {c1, c2}
  None = None
  AmountOf <- Amounts
  PerTransfer <- TransferCaps
  Cumulative <- CumulativeCaps
  Expiry <- Expiries
  Window = 2
  Pool = 2
  Attempts = 2
  Starts = {"claim", "revoke", "sync", "enroll", "remove", "edit", "contact", "apply", "invalidate", "lost"}
  MaxJobs = 2
  MaxTime = 2
  MaxWait = 1
SPECIFICATION Spec
SYMMETRY Symmetry
CHECK_DEADLOCK FALSE
INVARIANTS
  OnlyThePoolDeadlocks
  SpendsWithinCap
  ReservationsAccountedFor
PROPERTIES
  FreshSpendIsCovered
