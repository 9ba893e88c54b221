SPECIFICATION Spec
CONSTANTS
  j1 = j1
  j2 = j2
  NoJob = NoJob
  Jobs <- MCJobs
  MaxRevision = 3
CHECK_DEADLOCK FALSE
INVARIANTS ShownIsCurrent
PROPERTIES LeaseIsItsHolders EndsTheSessionSeen EndIsAcknowledged HeardIsShown
