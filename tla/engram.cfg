CONSTANTS
  a = a
  b = b
  Clients = {a, b}
  Sync = Sync
  None = None
  Fields = {"content"}
  Pasts <- OneRecord
  MaxConsecutiveFailures = 2
  MaxEvents = 3
  MaxTroubles = 3
SPECIFICATION FairSpec
INVARIANTS
  RecordsKept
  RecordsFollow
PROPERTIES
  StraysHaveReasons
  Settles
