SPECIFICATION RetrySpec
CONSTANTS
  a = a
  b = b
  Client <- TwoClients
  Persistent = Persistent
  Unset = Unset
  RateLimitAfter = Unset
  Templates <- Transient
  DayCap = 9
  HourCap = 5
  ProjectCap = 2
  Costs <- OneCost
  BatchLimit = 1
  TTL = 1
  Advances <- Unit
  MaxTime = 2
  MaxRules = 2
  MaxCount <- Plenty
  Credentials <- HeldOnly
  Properties <- OwnId
  Wanted = 1
INVARIANT CallsBounded
PROPERTY EveryoneServed
CHECK_DEADLOCK FALSE
