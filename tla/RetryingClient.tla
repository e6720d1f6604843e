--------------------------- MODULE RetryingClient ---------------------------
(***************************************************************************)
(* The consumer the mock exists for: it wants one report, asks for a token  *)
(* first, renews it when it is told 401 and repeats the call on 429 and     *)
(* 5xx.  The test that drives the server injects transient failures and     *)
(* advances the clock, a bounded number of times.                           *)
(***************************************************************************)
EXTENDS MockServer

CONSTANT Wanted   \* the cost of the report every client wants

ASSUME WantedAssumption == Wanted \in Costs

VARIABLE need     \* need[c] : what client c will ask for next

Needs == {"token", "report", "done"}

retryVars == <<vars, need>>

\* What the client concludes from an answer (401 renews, the rest repeats).
Reaction(c) ==
  CASE answer'[c] \in {"rejected", "auth_reject"}           -> "token"
    [] answer'[c] = "access"                                -> "report"
    [] answer'[c] = "ok"                                    -> "done"
    [] OTHER                                                -> need[c]

Try(c) ==
  /\ \/ need[c] = "token"  /\ TokenArrive(c)
     \/ need[c] = "report" /\ Arrive(c, "runReport", "held", "served")
  /\ need' = [need EXCEPT ![c] = Reaction(c)]

\* Its bodies are well formed and its reports valid.
Complete(c) ==
  /\ \/ Exchange(c, "access")
     \/ RunReport(c, [verdict |-> "served", cost |-> Wanted])
  /\ need' = [need EXCEPT ![c] = Reaction(c)]

\* Deleting and clearing rules only help; a reset would let the clock be
\* advanced without end.
Harness ==
  /\ \/ \E t \in Templates : Inject(t)
     \/ \E d \in Advances : Advance(d)
     \/ \E id \in 1 .. MaxRules : Delete(id)
     \/ Clear
  /\ UNCHANGED need

RetryInit == Init /\ need = [c \in Client |-> "token"]

RetryNext == Harness \/ \E c \in Client : Try(c) \/ Complete(c)

\* Clients do not give up, and what they send arrives.
RetrySpec ==
  /\ RetryInit /\ [][RetryNext]_retryVars
  /\ \A c \in Client : WF_retryVars(Try(c)) /\ WF_retryVars(Complete(c))

\* When every injected rule is transient and the buckets hold enough for all,
\* every client gets its report in the end: a rule with `times' lets go after
\* its last firing, and a token asked for after the last jump of the clock
\* lasts (injection.py _consume; auth.py issue_bearer, bearer_valid).
EveryoneServed == \A c \in Client : <>(need[c] = "done")

\* It takes no more calls than there were reasons to fail: every refused
\* report has used up a firing of a rule or met a token the clock outran.
MaxFirings == CHOOSE n \in {t.times : t \in Templates} :
                \A t \in Templates : t.times <= n

CallsBounded ==
  counts["runReport"] <= MaxRules * MaxFirings + Cardinality(Client) * (MaxTime + 1)
=============================================================================
