SPECIFICATION SeqSpec
CONSTANTS
  Path <- MCPath
  DataPaths <- MCPath
  LoopPaths <- MCLoopPaths
  Persistent = Persistent
  Unset = Unset
  Live = Live
  RateLimitAfter = 1
  Loop = Loop
  w1 = w1
  Workers <- OneWorker
  WorkerOps <- AllOps
  Templates <- MCTemplates
  MaxRules = 4
  MaxCalls = 5
INVARIANT RateLimitHolds
PROPERTY ImplementsRuleBook
CHECK_DEADLOCK FALSE
