CONSTANTS
  Attempts = {a1, a2}
  Procs = {p1, p2}
  Slots = {s1}
  Grants = {g1}
  None = None
  Texts = {"yes", "other"}
  Outcomes = {"confirmed", "reverted"}
  Faults = {"crash", "throw"}
  MaxClaims = 1
SPECIFICATION Spec
SYMMETRY Symmetry
INVARIANTS
  GrantSpendReserved
  OutboxTellsTheStory
  StatusTellsTheMoney
PROPERTIES
  KeepsPromise
  OnlyOwnTaskResolves
