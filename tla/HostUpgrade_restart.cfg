SPECIFICATION Spec
CONSTANTS
  n1 = n1
  n2 = n2
  g1 = g1
  g2 = g2
  g3 = g3
  Jobs = {j1}
  Copies = {1}
  Requests = {q1}
  Nodes = {n1, n2}
  Guests = {g1, g2}
  HaGuests = {g2}
  Home <- MCHome
  CephCluster = TRUE
  JobOptions <- Back
  Faults = {"stale", "late", "lostreply"}
  MaxRestarts = 1
  NoNode = NoNode
  NoJob = NoJob
INVARIANTS
  LabelHonest
PROPERTIES
  RowsAdvance
CHECK_DEADLOCK FALSE
