SPECIFICATION FairSpec
CONSTANTS
  j1 = j1
  j2 = j2
  Jobs = {j1, j2}
  NoJob = NoJob
  MissLimit = 2
  MaxRestarts = 1
  MaxFaults = 2
INVARIANTS
  TypeOK
  OneWatcher
  RunningIsHeld
  DoneMeansRan
PROPERTIES
  SeenIsClosed
CHECK_DEADLOCK FALSE
