SPECIFICATION FairSpec
CONSTANTS
  Names = {n1, n2}
  Objs = {o1, o2}
  NoObj = NoObj
  Codes = {c1}
  NoCode = NoCode
  Secrets = {}
  Sources = {"tick"}
  NoDoc = NoDoc
  Period = 1
  MaxClock = 1
  MaxOps = 3
  MaxCrashes = 0
  MaxErrors = 0
PROPERTIES ThirdStrikeDisables 
CHECK_DEADLOCK FALSE
