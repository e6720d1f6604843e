SPECIFICATION FairSpec
CONSTANTS
  Path <- MCPath
  DataPaths <- MCPath
  LoopPaths <- MCLoopPaths
  Persistent = Persistent
  Unset = Unset
  Live = Live
  RateLimitAfter = 1
  Loop = Loop
  w1 = w1
  w2 = w2
  Workers <- TwoWorkers
  WorkerOps <- AllOps
  Templates <- AnyTemplates
  MaxRules = 3
  MaxCalls = 4
INVARIANTS
  TypeOK
  OldestFirst
  LoopCountsExact
PROPERTY Terminates
CHECK_DEADLOCK FALSE
