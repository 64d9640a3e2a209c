SPECIFICATION MCSpec
CONSTANTS
  Tools = {"a.b", "a_b"}
  Names = {"a_b"}
  Sanitize <- OneName
  Versions = {1, 2}
  Documents <- Kept
  Requests = {r1}
  Calls = {c1}
  Monitor = Monitor
  Boot = Boot
  MaxRequests = 3
  MaxCalls = 1
  MaxFaults = 1
  Codes = {k1, k2}
  Secrets = {s1}
  None = None
  Shelf <- NoneOrOne
  MaxChanges = 3
  MaxUpsets = 1
  Runs = {p1, p2}
  Accounts = {a1, a2}
  Nobody = Nobody
  PageSize = 1
  MaxPages = 2
  Limit = 1
  MaxNotifs = 3
  MaxFetches = 2
  MaxTrouble = 1
  Day = 3
  Jump = 2
  Horizon = 8
  Legacy = {j1, j2}
  Notes = {n1, n2}
  Managed = {k0}
  MaxEdits = 2
  MaxMishaps = 2
  Memos = {m1, m2}
  Texts = {t1, t2}
  Labels = {g1, g2}
  Nil = Nil
  Clients = {w1, w2}
  MaxUses = 3
  Hits = {1, 2, 3}
  Grades = {0, 1, 2, 3}
  Limits = {2}
INVARIANTS
  TypesOK
  RegisteredApproved
  CallsAsked
  QuietAgrees
  RunsAgreed
  RevokedStays
  ReadMeansReturned
  TokensSpentOnce
  NextRunIsNext
  
  FieldsStay
  CacheServes
  BetterFirst

  
  
CHECK_DEADLOCK FALSE
