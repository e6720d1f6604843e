SPECIFICATION Spec
CONSTANTS
  Path <- MCPath
  DataPaths <- MCPath
  LoopPaths <- MCLoopPaths
  Persistent = Persistent
  Unset = Unset
  Live = Live
  RateLimitAfter = Unset
  Loop = Loop
  w1 = w1
  w2 = w2
  Workers <- TwoWorkers
  WorkerOps <- Evaluate
  Templates <- OneTransient
  MaxRules = 1
  MaxCalls = 3
INVARIANT BudgetRespected
CHECK_DEADLOCK FALSE
