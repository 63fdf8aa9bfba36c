SPECIFICATION FairSpec
CONSTANTS
  t1 = t1
  t2 = t2
  Tasks = {t1, t2}
  MaxWatchers = 1
  MaxMisses = 2
  Remembers = TRUE
  Unlucky = {t2}
  MaxRestarts = 1
INVARIANTS
  
  TruthInOrder
  

  
CHECK_DEADLOCK FALSE
