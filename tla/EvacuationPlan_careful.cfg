SPECIFICATION Spec
CONSTANTS
  n1 = n1
  n2 = n2
  n3 = n3
  g1 = g1
  g2 = g2
  g3 = g3
  Nodes = {n1, n2, n3}
  Guests = {g1, g2, g3}
  Mem <- MCMem
  Home <- MCHome
  Size <- MCSize
  Reserve <- MCReserve
  Used0 <- MCUsed0
  Legal <- MCLegal
  Options <- Careful
  NoNode = NoNode
INVARIANTS
  TallyCoversCache
  RoomKept
PROPERTIES
  NeverOvercommit
CHECK_DEADLOCK FALSE
