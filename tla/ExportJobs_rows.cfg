SPECIFICATION FairSpec
CONSTANTS
  j1 = j1
  j2 = j2
  d1 = d1
  d2 = d2
  Jobs = {j1, j2}
  Deletes = {d1}
  NoJob = NoJob
  Overtaking = FALSE
  MaxRestarts = 2
  MaxFaults = 1
INVARIANTS
  PurgeOnlySettled
  OutputsTracked
PROPERTIES
  DoneIsPurged
CHECK_DEADLOCK FALSE
