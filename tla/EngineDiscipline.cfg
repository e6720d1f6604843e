SPECIFICATION Spec
CONSTANTS
  Path <- MCPath
  DataPaths <- MCPath
  LoopPaths <- MCLoopPaths
  Persistent = Persistent
  Unset = Unset
  Live = Live
  RateLimitAfter = 1
  Loop = Loop
  w1 = w1
  w2 = w2
  Workers <- TwoWorkers
  WorkerOps <- Evaluate
  Templates <- LoopTemplates
  MaxRules = 3
  MaxCalls = 5
SYMMETRY Symmetry
INVARIANTS
  BudgetRespected
  RulesKept
  RulesGone
CHECK_DEADLOCK FALSE
