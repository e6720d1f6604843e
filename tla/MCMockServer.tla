---------------------------- MODULE MCMockServer ----------------------------
(* Values for MockServer's constants.                                       *)
EXTENDS MockServer, TLC

CONSTANTS a, b

TwoClients == {a, b}
Symmetry   == Permutations({a, b})

NoTemplates  == {}
OneCost  == {1}
TwoCosts == {1, 2}
Unit     == {1}
NoAdvance == {}

Calls(run, batch, meta, tok) ==
  [p \in Surface |-> CASE p = "runReport"       -> run
                      [] p = "batchRunReports" -> batch
                      [] p = "metadata"        -> meta
                      [] p = "token"           -> tok]

ReportCalls == Calls(2, 1, 0, 1)
EachOnce    == Calls(1, 1, 1, 1)

HeldOnly  == {"held"}
AnyHeader == {"absent", "forged", "held"}
OwnId     == {"served"}
AnyId     == {"served", "zero", "other", "malformed"}
=============================================================================
