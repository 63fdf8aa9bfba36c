SPECIFICATION Spec
CONSTANTS
  p1 = p1
  p2 = p2
  p3 = p3
  Puts = {p1, p2, p3}
  Boot = Boot
  Nobody = Nobody
  MaxRows = 4
  QueueSize = 2
SYMMETRY PutSymmetry
INVARIANTS
  ForwarderMatches
  InOrder
CHECK_DEADLOCK FALSE
