CONSTANTS
  Requests = {r1}
  Loops = {l1}
  Contacts = {c1}
  Addresses = {a1, a2}
  Grants = {g1}
  Baseline = {}
  Paid = a1
  AllowlistOf <- Allowlists
  None = None
  EmptyProven = FALSE
  UnionProven = TRUE
  Ops = {"mutate", "rename", "enroll", "retry", "grant", "refuse"}
  Faults = {"lost", "reject", "expire"}
  MaxRevision = 2
  Cap = 2
  MaxCrashes = 0
SPECIFICATION Spec
INVARIANTS
  BoundNeedsProof
  OpenGateIsEnforced
PROPERTIES
  KeepsRevisionPromise
