-------------------------- MODULE MCTokenEndpoint --------------------------
(***************************************************************************)
(* An hour is three ticks, the tolerance one; the mock's clock starts three *)
(* ticks behind the real one and may overtake it.                           *)
(***************************************************************************)
EXTENDS TokenEndpoint

CONSTANTS mock, other

MCSteps == {1, 3}
=============================================================================
