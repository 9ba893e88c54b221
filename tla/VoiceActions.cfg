CONSTANTS
  Calls = {c1, c2}
  MaxRows = 2
  MaxPreviews = 2
  MaxCalls = 4
SPECIFICATION Spec
SYMMETRY Symmetry
INVARIANTS
  GateAgreesWithArbiter
  WindowHasCard
  OneVersionApplied
PROPERTIES
  DecidedBySpeech
