-------------------------- MODULE MCRetryingClient --------------------------
(* Values for RetryingClient's constants: transient rules of every kind.    *)
EXTENDS RetryingClient

CONSTANTS a, b

TwoClients == {a, b}

Template(k, s, n, f) == [kind |-> k, scope |-> s, times |-> n, after |-> f]

Transient ==
  { Template("status", {"runReport"}, 2, 0),
    Template("auth_reject", Surface, 1, 0),
    Template("rate_limit", {"runReport", "token"}, 1, 1),
    Template("latency", Surface, 1, 0) }

OneCost   == {1}
Unit      == {1}
HeldOnly  == {"held"}
OwnId     == {"served"}
Plenty    == [p \in Surface |-> 20]
=============================================================================
