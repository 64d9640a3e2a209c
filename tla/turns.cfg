SPECIFICATION FairSpec
CONSTANTS
  t1 = t1
  t2 = t2
  t3 = t3
  Turns = {t1, t2, t3}
  Surfaces <- Separate
  Locks = {l1, l2}
  None = None
  MaxRounds = 1
  MaxErrors = 1
  MaxCrashes = 1
INVARIANTS TypeOK SerialView OneTurnPerSurface 
  
CHECK_DEADLOCK FALSE
