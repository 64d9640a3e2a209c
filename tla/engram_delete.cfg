CONSTANTS
  a = a
  b = b
  Clients = {a, b}
  Sync = Sync
  None = None
  Fields = {"content"}
  Pasts <- OneRecord
  MaxConsecutiveFailures = 2
  MaxEvents = 2
  MaxTroubles = 0
SPECIFICATION Spec
PROPERTIES
  DeletesWait
