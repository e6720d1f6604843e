-------------------------- MODULE SequentialEngine --------------------------
(***************************************************************************)
(* A caller that waits for each answer before it sends the next request, as *)
(* the repository's own tests do, never has two operations of the engine    *)
(* running at once.  For such a caller the switch points of InjectionEngine *)
(* are invisible: the engine is the RuleBook.                               *)
(***************************************************************************)
EXTENDS InjectionEngine

VARIABLE atomic    \* the rule book as the last finished operation left it

Quiescent == \A t \in Threads : Resting(t)

\* The book an idle engine stands for; `before' is the one it stood for when
\* the operation that just ended began.
Finished(before) ==
  LET passing == reply'.op = "request" /\ reply'.by = NoRule
      base    == IF Baseline(1) = {} THEN NoRule ELSE Len(rule')
  IN  [ book     |-> {rule'[rules'[i]] : i \in DOMAIN rules'},
        granted  |-> granted', fired |-> fired', counts |-> counts', reply |-> reply',
        passed   |-> CASE reply'.op = "reset" -> [p \in Path |-> 0]
                       [] passing -> [before.passed EXCEPT ![reply'.path] = @ + 1]
                       [] OTHER -> before.passed,
        baseline |-> IF reply'.op = "reset" THEN base ELSE before.baseline ]

SeqInit ==
  /\ Init
  /\ atomic = [ book |-> {rule[rules[i]] : i \in DOMAIN rules}, granted |-> granted,
                fired |-> fired, counts |-> counts, passed |-> counts,
                baseline |-> IF rules = <<>> THEN NoRule ELSE 1, reply |-> reply ]

SeqNext ==
  /\ \E t \in Threads : (Quiescent /\ Start(t)) \/ Continue(t)
  /\ atomic' = IF Quiescent' THEN Finished(atomic) ELSE atomic

SeqSpec == SeqInit /\ [][SeqNext]_<<vars, atomic>>

Abstract == INSTANCE RuleBook WITH
  MaxCount <- MaxCalls,
  book     <- atomic.book,
  granted  <- atomic.granted,
  fired    <- atomic.fired,
  counts   <- atomic.counts,
  passed   <- atomic.passed,
  baseline <- atomic.baseline,
  reply    <- atomic.reply

\* Observation, evaluation, consumption and removal, spread over a dozen
\* steps and several list objects, amount to the one step of the rule book:
\* the oldest rule of the first kind that refuses answers, every latency
\* fires before it, DELETE tells a known id from an unknown one.
ImplementsRuleBook == Abstract!Spec

\* As long as the baseline rule of the last reset stands, no data path lets
\* through more than rate_limit_after requests, whatever else was injected,
\* deleted or consumed in between (injection.py:138-140 counts the refused
\* requests too).
RateLimitHolds == Abstract!RateLimitHolds
=============================================================================
