SPECIFICATION Spec
CONSTANTS
  j1 = j1
  j2 = j2
  c1 = c1
  c2 = c2
  NoJob = NoJob
  Jobs = {j1, j2}
  Calls = {c1, c2}
  MaxRestarts = 1
  MaxScrubs = 1
INVARIANTS
  TypeOK
  
  

  
SYMMETRY Interchangeable
CHECK_DEADLOCK FALSE
