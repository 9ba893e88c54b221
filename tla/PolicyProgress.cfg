CONSTANTS
  Requests = {r1}
  Loops = {l1, l2}
  Contacts = {c1}
  Addresses = {a1, a2}
  Grants = {}
  Baseline = {a1}
  Paid = a1
  AllowlistOf <- Allowlists
  None = None
  EmptyProven = FALSE
  UnionProven = FALSE
  Ops = {"mutate"}
  Faults = {"lost", "crash"}
  MaxRevision = 2
  Cap = 2
  MaxCrashes = 1
SPECIFICATION FairSpec
CHECK_DEADLOCK FALSE
INVARIANTS
  GateMatchesRemote
PROPERTIES
  IntentSettles
  StatusResolves
