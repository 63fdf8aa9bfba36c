SPECIFICATION RosterFairSpec
CONSTANTS
  c1 = c1
  c2 = c2
  c3 = c3
  r1 = r1
  r2 = r2
  r3 = r3
  Clusters = {c1, c2}
  Esxi = {c2}
  Requests = {r1, r2}
  FirstLoad = FirstLoad
  NoLoad = NoLoad
  All = All
INVARIANTS
  RosterMatches
PROPERTIES
  
  AllPolled
CHECK_DEADLOCK FALSE
