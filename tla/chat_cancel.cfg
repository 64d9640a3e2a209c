CONSTANTS
  Old = Old
  Inserted = Inserted
  a = a
  b = b
  Turns = {a, b}
  Webs <- SomeWeb
  Pasts <- Histories
  PageSize = 2
  None = None
  Abandoned = Abandoned
  MaxRounds = 1
  MaxErrors = 1
  MaxCrashes = 1
SPECIFICATION Spec
PROPERTY
  NoNestedTransaction
CHECK_DEADLOCK FALSE
