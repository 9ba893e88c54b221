CONSTANTS
  Attempts = {t1}
  Servers = {s1, s2}
  Batch = 2
  Latest = 1
  Faults = {"refuse", "lose", "crash", "page"}
  MaxFaults = 1
  MaxReads = 1
SPECIFICATION FairSpec
CHECK_DEADLOCK FALSE
INVARIANTS
  StoryInOrder
  CompletedIsNotified
PROPERTIES
  ToldIsShown
