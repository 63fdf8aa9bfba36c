SPECIFICATION Spec
CONSTANTS
  n1 = n1
  n2 = n2
  g1 = g1
  g2 = g2
  g3 = g3
  Jobs = {j1, j2}
  Copies = {1}
  Requests = {q1, q2}
  Nodes = {n1, n2}
  Guests = {g1, g3}
  HaGuests = {}
  Home <- MCHome
  CephCluster = FALSE
  JobOptions <- Two
  Faults = {}
  MaxRestarts = 1
  NoNode = NoNode
  NoJob = NoJob
INVARIANTS
  OneSweepPerCluster
PROPERTIES
  OneHostAtATime
CHECK_DEADLOCK FALSE
