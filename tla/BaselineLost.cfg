SPECIFICATION Spec
CONSTANTS
  Path <- MCPath
  DataPaths <- MCPath
  LoopPaths <- MCLoopPaths
  Persistent = Persistent
  Unset = Unset
  Live = Live
  RateLimitAfter = 1
  Loop = Loop
  w1 = w1
  w2 = w2
  Workers <- OneWorker
  WorkerOps <- Delete
  Templates <- OneTransient
  MaxRules = 2
  MaxCalls = 3
INVARIANT RulesKept
CHECK_DEADLOCK FALSE
