SPECIFICATION FairSpec
CONSTANTS
  a = a
  b = b
  Client <- TwoClients
  Persistent = Persistent
  Unset = Unset
  RateLimitAfter = Unset
  Templates <- NoTemplates
  DayCap = 9
  HourCap = 5
  ProjectCap = 1
  Costs <- OneCost
  BatchLimit = 2
  TTL = 1
  Advances <- NoAdvance
  MaxTime = 0
  MaxRules = 0
  MaxCount <- ReportCalls
  Credentials <- HeldOnly
  Properties <- OwnId
PROPERTY Answered
