------------------------------ MODULE RuleBook ------------------------------
(***************************************************************************)
(* What the injection engine promises when its operations do not overlap:   *)
(* a book of rules, one atomic step per operation.  InjectionEngine is the  *)
(* code, switch point by switch point; SequentialEngine shows that the code *)
(* implements this module as long as one operation runs at a time.          *)
(***************************************************************************)
EXTENDS Rules, Sequences, FiniteSets

CONSTANTS
  Templates,   \* what POST /__admin/inject may ask for: rules without an id
  MaxRules,    \* bound: rule ids ever handed out
  MaxCount     \* bound: requests of one path between two resets

VARIABLES
  book,        \* engine.rules
  granted,     \* granted[id] : the `times' rule id was created with (history)
  fired,       \* fired[id]   : how often rule id was consumed (history)
  counts,      \* engine.request_counts
  passed,      \* requests of a path let through since the reset (history)
  baseline,    \* id of the rule the last reset added, or NoRule (history)
  reply        \* what the last operation answered

vars == <<book, granted, fired, counts, passed, baseline, reply>>

NextId == Len(granted) + 1
Ids    == 1 .. Len(granted)
IdsOf(S) == {r.id : r \in S}

Quiet == [op |-> "none", path |-> "none", by |-> NoRule]

Init ==
  /\ book     = Baseline(1)
  /\ granted  = IF Baseline(1) = {} THEN <<>> ELSE <<Persistent>>
  /\ fired    = IF Baseline(1) = {} THEN <<>> ELSE <<0>>
  /\ counts   = [p \in Path |-> 0]
  /\ passed   = [p \in Path |-> 0]
  /\ baseline = IF Baseline(1) = {} THEN NoRule ELSE 1
  /\ reply    = Quiet

\* observe, then evaluate.
Request(p) ==
  LET n    == counts[p] + 1
      by   == Answering(book, p, n)
      used == Consumed(book, p, n)
  IN  /\ counts[p] < MaxCount
      /\ counts' = [counts EXCEPT ![p] = n]
      /\ book'   = Consume(book, used)
      /\ fired'  = [i \in Ids |-> IF i \in IdsOf(used) THEN fired[i] + 1 ELSE fired[i]]
      /\ passed' = IF by = {} THEN [passed EXCEPT ![p] = @ + 1] ELSE passed
      /\ \E id \in IF by = {} THEN {NoRule} ELSE IdsOf(by) :
            reply' = [op |-> "request", path |-> p, by |-> id]
      /\ UNCHANGED <<granted, baseline>>

\* add, for POST /__admin/inject.
Inject(t) ==
  /\ NextId <= MaxRules
  /\ book'    = book \cup {[id |-> NextId, kind |-> t.kind, scope |-> t.scope,
                            times |-> t.times, after |-> t.after]}
  /\ granted' = Append(granted, t.times)
  /\ fired'   = Append(fired, 0)
  /\ reply'   = [op |-> "inject", path |-> "none", by |-> NextId]
  /\ UNCHANGED <<counts, passed, baseline>>

\* remove, for DELETE /__admin/inject/{id}: 404 when no rule has the id.
Delete(id) ==
  /\ book'  = {r \in book : r.id # id}
  /\ reply' = [op   |-> IF id \in IdsOf(book) THEN "deleted" ELSE "unknown",
               path |-> "none", by |-> id]
  /\ UNCHANGED <<granted, fired, counts, passed, baseline>>

\* clear, for POST /__admin/inject/clear.
Clear ==
  /\ book'  = {}
  /\ reply' = [op |-> "clear", path |-> "none", by |-> NoRule]
  /\ UNCHANGED <<granted, fired, counts, passed, baseline>>

\* reset: back to the environment's baseline; the id counter goes on.
Reset ==
  LET base == Baseline(NextId)
  IN  /\ base # {} => NextId <= MaxRules
      /\ book'     = base
      /\ granted'  = IF base = {} THEN granted ELSE Append(granted, Persistent)
      /\ fired'    = IF base = {} THEN fired ELSE Append(fired, 0)
      /\ counts'   = [p \in Path |-> 0]
      /\ passed'   = [p \in Path |-> 0]
      /\ baseline' = IF base = {} THEN NoRule ELSE NextId
      /\ reply'    = [op |-> "reset", path |-> "none", by |-> NoRule]

Next ==
  \/ \E p \in Path : Request(p)
  \/ \E t \in Templates : Inject(t)
  \/ \E id \in 1 .. MaxRules : Delete(id)
  \/ Clear
  \/ Reset

Spec == Init /\ [][Next]_vars

\* As long as the baseline rule of the last reset stands, no data path lets
\* through more than rate_limit_after requests, whatever else was injected,
\* deleted or consumed in between (the counter counts refused requests too).
RateLimitHolds ==
  baseline \in IdsOf(book) => \A p \in DataPaths : passed[p] <= RateLimitAfter

Budget(times) == IF times < 1 THEN 1 ELSE times

\* A rule with `times' is consumed no more than that, once if it was created
\* with none left, whatever answers before it or removes it (injection.py:6-7).
BudgetRespected ==
  \A id \in Ids : granted[id] # Persistent => fired[id] <= Budget(granted[id])
=============================================================================
