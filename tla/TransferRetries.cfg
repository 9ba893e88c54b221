CONSTANTS
  Attempts = {a1, a2}
  Procs = {p1}
  Slots = {s1}
  Grants = {g1}
  None = None
  Texts = {"yes", "no", "other"}
  Outcomes = {"confirmed", "reverted", "receipt_invalid"}
  Faults = {"drain"}
  MaxClaims = 2
SPECIFICATION FairSpec
INVARIANTS
  AtMostOneBroadcast
PROPERTIES
  SubmittedResolves
