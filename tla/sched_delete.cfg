SPECIFICATION Spec
CONSTANTS
  Names = {n1}
  Objs = {o1, o2}
  NoObj = NoObj
  Codes = {c1}
  NoCode = NoCode
  Secrets = {}
  Sources = {"tick"}
  NoDoc = NoDoc
  Period = 1
  MaxClock = 2
  MaxOps = 3
  MaxCrashes = 1
  MaxErrors = 1
PROPERTIES OnlyCreateMakesDocuments
CHECK_DEADLOCK FALSE
