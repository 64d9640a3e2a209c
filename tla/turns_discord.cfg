SPECIFICATION Spec
CONSTANTS
  t1 = t1
  t2 = t2
  t3 = t3
  Turns = {t1, t2, t3}
  Surfaces <- ThreeDiscord
  Locks = {l1, l2, l3}
  None = None
  MaxRounds = 1
  MaxErrors = 0
  MaxCrashes = 0
INVARIANTS OneTurnPerSurface
SYMMETRY TurnSymmetry
CHECK_DEADLOCK FALSE
