SPECIFICATION Spec
CONSTANTS
  a = a
  b = b
  Client <- TwoClients
  Persistent = Persistent
  Unset = Unset
  RateLimitAfter = Unset
  Templates <- NoTemplates
  DayCap = 9
  HourCap = 5
  ProjectCap = 3
  Costs <- TwoCosts
  BatchLimit = 2
  TTL = 1
  Advances <- NoAdvance
  MaxTime = 0
  MaxRules = 0
  MaxCount <- EachOnce
  Credentials <- AnyHeader
  Properties <- AnyId
SYMMETRY Symmetry
INVARIANTS
  TypeOK
  Admission
  QuotaLedger
  ProjectBucketFirst
  ExhaustionSticks
