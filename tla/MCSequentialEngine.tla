------------------------- MODULE MCSequentialEngine -------------------------
(* Values for SequentialEngine: one thread of each sort is enough when only *)
(* one runs at a time.                                                      *)
EXTENDS SequentialEngine

CONSTANT w1

MCPath      == {"runReport", "metadata"}
MCLoopPaths == {"runReport"}
OneWorker   == {w1}
AllOps      == {"evaluate", "delete", "clear"}

Template(k, s, n, a) == [kind |-> k, scope |-> s, times |-> n, after |-> a]

MCTemplates ==
  { Template("status", MCPath, 2, 0),
    Template("status", {"metadata"}, Persistent, 0),
    Template("latency", MCPath, 1, 0),
    Template("auth_reject", {"runReport"}, 0, 0),
    Template("quota_exhausted", {"runReport"}, 1, 0),
    Template("rate_limit", MCPath, 1, 0) }
=============================================================================
