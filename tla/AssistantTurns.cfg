CONSTANTS
  a1 = a1
  a2 = a2
  n1 = n1
  None = None
  Addresses = {a1, a2}
  Names = {n1}
  Requests = {q1, q2}
  Turns = {t1, t2}
  Saved <- MCSaved
  MaxContacts = 2
  MaxVersion = 2
  MaxMoves = 1
  MaxInputs = 3
  MaxTools = 2
SPECIFICATION Spec
SYMMETRY Symmetry
CHECK_DEADLOCK FALSE
INVARIANTS
  ProvenanceDescribesItsRow
  PinTellsTheAddress
  ConfirmedPaysTheReviewedContact
PROPERTIES
  SavesWhatWasSent
