SPECIFICATION Spec
CONSTANTS
  Names = {n1}
  Objs = {o1, o2}
  NoObj = NoObj
  Codes = {c1}
  NoCode = NoCode
  Secrets = {}
  Sources = {"tick", "manual"}
  NoDoc = NoDoc
  Period = 1
  MaxClock = 1
  MaxOps = 4
  MaxCrashes = 1
  MaxErrors = 1
INVARIANTS OnlyReviewedRuns StoreAgrees
SYMMETRY ObjSymmetry
CHECK_DEADLOCK FALSE
