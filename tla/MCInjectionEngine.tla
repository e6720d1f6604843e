------------------------- MODULE MCInjectionEngine -------------------------
(* Values for InjectionEngine's constants.  runReport is the loop's path,   *)
(* metadata the pool's.                                                     *)
EXTENDS InjectionEngine, TLC

CONSTANTS w1, w2

MCPath      == {"runReport", "metadata"}
MCLoopPaths == {"runReport"}
TwoWorkers  == {w1, w2}
OneWorker   == {w1}
Symmetry    == Permutations({w1, w2})

Template(k, s, n, a) == [kind |-> k, scope |-> s, times |-> n, after |-> a]

\* Rules of several kinds, transient ones on every path.
AnyTemplates ==
  { Template("status", MCPath, 1, 0),
    Template("latency", MCPath, 2, 0),
    Template("auth_reject", {"metadata"}, 1, 0) }

\* Rules for clients that keep transient rules off the pool's paths.
LoopTemplates ==
  { Template("status", {"runReport"}, 2, 0),
    Template("latency", {"runReport"}, 1, 0),
    Template("quota_exhausted", MCPath, Persistent, 0) }

OneTransient == { Template("status", MCPath, 1, 0) }

NoOps    == {}
Evaluate == {"evaluate"}
Delete   == {"delete"}
AllOps   == {"evaluate", "delete", "clear"}
=============================================================================
