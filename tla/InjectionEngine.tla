-------------------------- MODULE InjectionEngine --------------------------
(***************************************************************************)
(* injection.py as the server really runs it: `async def' handlers on the   *)
(* event-loop thread, `def' handlers (metadata, DELETE rule, clear) on the  *)
(* threads of the pool, all of them in one InjectionEngine without a lock.  *)
(* The interpreter may switch threads at a call, at the entry of a function *)
(* and at the back edge of a loop; a step below is what runs between two of *)
(* these points.                                                            *)
(*                                                                          *)
(* Rule objects live for ever in `rule', indexed by id.  The list objects   *)
(* matter: append and clear change the current one in place, remove binds a *)
(* new one, and a comprehension goes on reading the object it started with. *)
(* A frame whose source is Live reads the current list; when another thread *)
(* rebinds self.rules, the frame keeps the old list, which nobody changes   *)
(* any more.                                                                *)
(***************************************************************************)
EXTENDS Rules, Sequences

CONSTANTS
  Loop,        \* the event-loop thread
  Workers,     \* threads of the pool
  LoopPaths,   \* paths served by `async def' handlers
  WorkerOps,   \* which handlers the pool is asked to run
  Templates,   \* what POST /__admin/inject may ask for
  Live,        \* a frame that reads the list self.rules is bound to
  MaxRules,    \* bound: rule ids ever handed out
  MaxCalls     \* bound: operations ever started

ASSUME ThreadAssumption == Loop \notin Workers
ASSUME PathsAssumption  == LoopPaths \subseteq Path
ASSUME OpsAssumption    == WorkerOps \subseteq {"evaluate", "delete", "clear"}
ASSUME BoundAssumption  ==
  /\ MaxRules \in Nat /\ MaxCalls \in Nat
  /\ RateLimitAfter # Unset => MaxRules > 0   \* room for the first baseline

Threads == {Loop} \cup Workers

\* Mutant: runReport is a `def' handler too.
PathsOfPool(t) == IF t = Loop THEN LoopPaths
                  ELSE IF "evaluate" \in WorkerOps THEN Path ELSE {}

PathsOf(t) == IF t = Loop THEN LoopPaths
              ELSE IF "evaluate" \in WorkerOps THEN Path \ LoopPaths ELSE {}

VARIABLES
  rules,       \* the list self.rules is bound to: a sequence of ids
  rule,        \* rule[id] : the Rule object
  counts,      \* self.request_counts
  frame,       \* frame[t] : the activation record of thread t
  granted,     \* granted[id] : the `times' of rule id when created (history)
  fired,       \* fired[id]   : how often rule id was consumed (history)
  served,      \* requests counted for a path since the reset (history)
  gone,        \* ids that a DELETE, a clear or a reset meant to drop (history)
  calls,       \* operations started so far
  reply        \* what the last finished operation answered

vars == <<rules, rule, counts, frame, granted, fired, served, gone, calls, reply>>

Ids == 1 .. Len(rule)

(***************************************************************************)
(* A frame: pc, the path and n (the count read by observe, or len(rules)    *)
(* before a removal), the list being read (src) up to element i, the list   *)
(* being built (out), the rules that match the path (active) and the        *)
(* position of the one in turn (at, 0 before the first).                    *)
(***************************************************************************)
Idle == [pc |-> "idle", path |-> "none", n |-> 0, victim |-> NoRule,
         src |-> Live, i |-> 0, out |-> <<>>, active |-> <<>>, at |-> 0]

Resting(t) == frame[t].pc = "idle"

ListOf(f) == IF f.src = Live THEN rules ELSE f.src

\* self.rules = new: readers of the old object keep it.  A frame that has not
\* fetched its list yet (i = 0) will fetch the new one.
Rebind(t, new, f) ==
  /\ rules' = new
  /\ frame' = [u \in Threads |->
                 CASE u = t -> f
                   [] u # t /\ frame[u].i > 0 /\ frame[u].src = Live
                        -> [frame[u] EXCEPT !.src = rules]
                   [] OTHER -> frame[u]]

Goto(t, f) == frame' = [frame EXCEPT ![t] = f]

Answer(op, p, id) == reply' = [op |-> op, path |-> p, by |-> id]

(***************************************************************************)
(* observe: request_counts.get, then the store.                             *)
(***************************************************************************)
Call(t, p) ==
  /\ Resting(t) /\ p \in PathsOf(t) /\ calls < MaxCalls
  /\ Goto(t, [Idle EXCEPT !.pc = "store", !.path = p, !.n = counts[p]])
  /\ calls' = calls + 1
  /\ UNCHANGED <<rules, rule, counts, granted, fired, served, gone, reply>>

Store(t) ==
  LET f == frame[t]
  IN  /\ f.pc = "store"
      /\ counts' = [counts EXCEPT ![f.path] = f.n + 1]
      /\ served' = [served EXCEPT ![f.path] = @ + 1]
      /\ Goto(t, [f EXCEPT !.pc = "scan", !.n = 0])
      /\ UNCHANGED <<rules, rule, granted, fired, gone, calls, reply>>

(***************************************************************************)
(* evaluate: `active', element by element, then the five loops in order.    *)
(***************************************************************************)
\* Mutant: a single loop over the list, whatever the kinds.
ComesInListOrder(active, i, j) == i < j

\* Position i of the list comes before j: its loop does, or the list has it first.
Comes(active, i, j) ==
  LET a == Rank(rule[active[i]])
      b == Rank(rule[active[j]])
  IN  a < b \/ (a = b /\ i < j)

\* The positions that the loops have yet to reach.
Ahead(f) == {j \in DOMAIN f.active : f.at = 0 \/ Comes(f.active, f.at, j)}

\* Mutant: a rule that does not match keeps the scan where it is.
ScanStuck(t) ==
  LET f    == frame[t]
      list == ListOf(f)
      id   == list[f.i + 1]
  IN  /\ f.pc = "scan"
      /\ \/ /\ f.i < Len(list) /\ f.path \in rule[id].scope
            /\ Goto(t, [f EXCEPT !.i = @ + 1, !.out = Append(@, id)])
         \/ /\ f.i >= Len(list)
            /\ Goto(t, [f EXCEPT !.pc = "judge", !.src = Live, !.i = 0,
                                 !.out = <<>>, !.active = f.out])
      /\ UNCHANGED <<rules, rule, counts, granted, fired, served, gone, calls, reply>>

Scan(t) ==
  LET f    == frame[t]
      list == ListOf(f)
      id   == list[f.i + 1]
  IN  /\ f.pc = "scan"
      /\ \/ /\ f.i < Len(list)
            /\ Goto(t, [f EXCEPT !.i = @ + 1,
                                 !.out = IF f.path \in rule[id].scope
                                           THEN Append(@, id) ELSE @])
         \/ /\ f.i >= Len(list)
            /\ Goto(t, [f EXCEPT !.pc = "judge", !.src = Live, !.i = 0,
                                 !.out = <<>>, !.active = f.out])
      /\ UNCHANGED <<rules, rule, counts, granted, fired, served, gone, calls, reply>>

\* Mutant: the request itself is not counted.
ExceedsLate(n, r) == n - 1 > r.after

\* The count includes the request that is being judged.
Exceeds(n, r) == n > r.after

\* The next rule in turn: the rate limit compares now, the others apply.
Judge(t) ==
  LET f == frame[t]
  IN  /\ f.pc = "judge"
      /\ \/ /\ Ahead(f) = {}
            /\ Goto(t, Idle)
            /\ Answer("request", f.path, NoRule)
         \/ \E j \in Ahead(f) :
              LET r == rule[f.active[j]]
              IN  /\ \A k \in Ahead(f) \ {j} : Comes(f.active, j, k)
                  /\ \/ /\ r.kind = "rate_limit" /\ ~Exceeds(counts[f.path], r)
                        /\ Goto(t, [f EXCEPT !.at = j])
                     \/ /\ r.kind = "rate_limit" => Exceeds(counts[f.path], r)
                        /\ Goto(t, [f EXCEPT !.pc = "consume", !.at = j])
                  /\ UNCHANGED reply
      /\ UNCHANGED <<rules, rule, counts, granted, fired, served, gone, calls>>

\* The rule in turn.
Current(f) == f.active[f.at]

\* Where evaluate goes once that rule is consumed: on after a latency, back to
\* the handler with an answer after anything else.
Resume(t, f) == IF rule[Current(f)].kind = "latency"
                  THEN [f EXCEPT !.pc = "judge", !.src = Live,
                                 !.i = 0, !.out = <<>>, !.victim = NoRule]
                  ELSE Idle

AnswerOnResume(f) == IF rule[Current(f)].kind = "latency"
                       THEN UNCHANGED reply
                       ELSE Answer("request", f.path, Current(f))

Spend(r) == [r EXCEPT !.times = IF @ = Persistent THEN @ ELSE @ - 1]

\* Mutants: the rule goes one firing late, and one firing early.
ExhaustedLate(r)  == IF r.times = Persistent THEN FALSE ELSE r.times < 0
ExhaustedEarly(r) == IF r.times = Persistent THEN FALSE ELSE r.times <= 1

Exhausted(r) == IF r.times = Persistent THEN FALSE ELSE r.times <= 0

ConsumeStep(t) ==
  LET f  == frame[t]
      id == Current(f)
      r  == Spend(rule[id])
  IN  /\ f.pc = "consume"
      /\ rule'  = [rule EXCEPT ![id] = r]
      /\ fired' = [fired EXCEPT ![id] = @ + 1]
      /\ \/ /\ Exhausted(r)
            /\ Goto(t, [f EXCEPT !.pc = "remove", !.victim = id])
            /\ UNCHANGED reply
         \/ /\ ~Exhausted(r)
            /\ Goto(t, Resume(t, f))
            /\ AnswerOnResume(f)
      /\ UNCHANGED <<rules, counts, granted, served, gone, calls>>

(***************************************************************************)
(* remove, from _consume or from DELETE: the new list is built element by   *)
(* element and bound when the old one is exhausted.                         *)
(***************************************************************************)
DeleteCall(t, id) ==
  /\ Resting(t) /\ t \in Workers /\ "delete" \in WorkerOps /\ calls < MaxCalls
  /\ Goto(t, [Idle EXCEPT !.pc = "remove", !.victim = id, !.n = Len(rules)])
  /\ calls' = calls + 1
  /\ gone' = gone \cup {id}
  /\ UNCHANGED <<rules, rule, counts, granted, fired, served, reply>>

RemoveStep(t) ==
  LET f    == frame[t]
      list == ListOf(f)
      id   == list[f.i + 1]
  IN  /\ f.pc = "remove"
      /\ \/ /\ f.i < Len(list)
            /\ Goto(t, [f EXCEPT !.i = @ + 1,
                                 !.out = IF id # f.victim THEN Append(@, id) ELSE @])
            /\ UNCHANGED <<rules, reply>>
         \/ /\ f.i >= Len(list)
            /\ Rebind(t, f.out, IF f.at = 0 THEN Idle ELSE Resume(t, f))
            /\ IF f.at = 0
                 THEN Answer(IF Len(f.out) # f.n THEN "deleted" ELSE "unknown",
                             "none", f.victim)
                 ELSE AnswerOnResume(f)
      /\ UNCHANGED <<rule, counts, granted, fired, served, gone, calls>>

(***************************************************************************)
(* clear, from POST /__admin/inject/clear: in place.                        *)
(***************************************************************************)
ClearCall(t) ==
  /\ Resting(t) /\ t \in Workers /\ "clear" \in WorkerOps /\ calls < MaxCalls
  /\ rules' = <<>>
  /\ calls' = calls + 1
  /\ gone' = gone \cup Ids
  /\ Answer("clear", "none", NoRule)
  /\ UNCHANGED <<rule, counts, frame, granted, fired, served>>

(***************************************************************************)
(* add, on the loop only: the id and the append meet no other add.          *)
(***************************************************************************)
\* Mutants: the new rule goes first, and an id taken from the list's length.
AddRuleFirst(r) ==
  /\ Len(rule) < MaxRules
  /\ rules'   = <<Len(rule) + 1>> \o rules
  /\ rule'    = Append(rule, r)
  /\ granted' = Append(granted, r.times)
  /\ fired'   = Append(fired, 0)

AddRuleByLength(r) ==
  /\ Len(rule) < MaxRules
  /\ rules'   = Append(rules, Len(rule) + 1)
  /\ rule'    = Append(rule, [r EXCEPT !.id = Len(rules) + 1])
  /\ granted' = Append(granted, r.times)
  /\ fired'   = Append(fired, 0)

AddRule(r) ==
  /\ Len(rule) < MaxRules
  /\ rules'   = Append(rules, Len(rule) + 1)
  /\ rule'    = Append(rule, r)
  /\ granted' = Append(granted, r.times)
  /\ fired'   = Append(fired, 0)

InjectCall(tpl) ==
  /\ Resting(Loop) /\ calls < MaxCalls
  /\ AddRule([id |-> Len(rule) + 1, kind |-> tpl.kind, scope |-> tpl.scope,
              times |-> tpl.times, after |-> tpl.after])
  /\ calls' = calls + 1
  /\ Answer("inject", "none", Len(rule) + 1)
  /\ UNCHANGED <<counts, frame, served, gone>>

(***************************************************************************)
(* reset, on the loop: clear the rules in place, then the counts, then add  *)
(* the baseline.                                                            *)
(***************************************************************************)
\* Mutant: the rules are left in the list.
ResetCallKeeping ==
  /\ Resting(Loop) /\ calls < MaxCalls
  /\ Baseline(1) # {} => Len(rule) < MaxRules
  /\ calls' = calls + 1
  /\ Goto(Loop, [Idle EXCEPT !.pc = "reset_counts"])
  /\ gone' = gone \cup Ids
  /\ UNCHANGED <<rules, rule, counts, granted, fired, served, reply>>

ResetCall ==
  /\ Resting(Loop) /\ calls < MaxCalls
  /\ Baseline(1) # {} => Len(rule) < MaxRules
  /\ rules' = <<>>
  /\ calls' = calls + 1
  /\ Goto(Loop, [Idle EXCEPT !.pc = "reset_counts"])
  /\ gone' = gone \cup Ids
  /\ UNCHANGED <<rule, counts, granted, fired, served, reply>>

ResetCounts ==
  /\ frame[Loop].pc = "reset_counts"
  /\ counts' = [p \in Path |-> 0]
  /\ served' = [p \in Path |-> 0]
  /\ Goto(Loop, [Idle EXCEPT !.pc = "reset_add"])
  /\ UNCHANGED <<rules, rule, granted, fired, gone, calls, reply>>

ResetAdd ==
  /\ frame[Loop].pc = "reset_add"
  /\ \/ /\ Baseline(1) = {}
        /\ UNCHANGED <<rules, rule, granted, fired>>
     \/ \E r \in Baseline(Len(rule) + 1) : AddRule(r)
  /\ Goto(Loop, Idle)
  /\ Answer("reset", "none", NoRule)
  /\ UNCHANGED <<counts, served, gone, calls>>

(***************************************************************************)
(* Specification.  The process starts with a reset (MockState.__init__).    *)
(***************************************************************************)
Init ==
  /\ rules   = IF Baseline(1) = {} THEN <<>> ELSE <<1>>
  /\ \/ Baseline(1) = {} /\ rule = <<>>
     \/ \E r \in Baseline(1) : rule = <<r>>
  /\ granted = IF Baseline(1) = {} THEN <<>> ELSE <<Persistent>>
  /\ fired   = IF Baseline(1) = {} THEN <<>> ELSE <<0>>
  /\ counts  = [p \in Path |-> 0]
  /\ served  = [p \in Path |-> 0]
  /\ frame   = [t \in Threads |-> Idle]
  /\ gone    = {}
  /\ calls   = 0
  /\ reply   = [op |-> "none", path |-> "none", by |-> NoRule]

Start(t) ==
  \/ \E p \in Path : Call(t, p)
  \/ \E id \in 1 .. MaxRules : DeleteCall(t, id)
  \/ ClearCall(t)
  \/ /\ t = Loop
     /\ \/ \E tpl \in Templates : InjectCall(tpl)
        \/ ResetCall

Continue(t) ==
  \/ Store(t)
  \/ Scan(t)
  \/ Judge(t)
  \/ ConsumeStep(t)
  \/ RemoveStep(t)
  \/ /\ t = Loop
     /\ ResetCounts \/ ResetAdd

Next == \E t \in Threads : Start(t) \/ Continue(t)

Spec == Init /\ [][Next]_vars

\* The interpreter lets every runnable thread run in the end; nothing obliges
\* a client to call.
FairSpec == Spec /\ \A t \in Threads : WF_vars(Continue(t))

(***************************************************************************)
(* Properties                                                               *)
(***************************************************************************)
RuleIds == Ids \cup {NoRule}

FrameOK(f) ==
  /\ f.pc \in {"idle", "store", "scan", "judge", "consume", "remove",
               "reset_counts", "reset_add"}
  /\ f.path \in Path \cup {"none"} /\ f.n \in Nat /\ f.i \in Nat
  /\ f.src # Live => f.src \in Seq(Ids)
  /\ f.out \in Seq(Ids) /\ f.active \in Seq(Ids) /\ f.at \in 0 .. Len(f.active)
  /\ f.pc = "consume" => f.at # 0

TypeOK ==
  /\ rules \in Seq(Ids) /\ rule \in Seq(Rule)
  /\ \A id \in Ids : rule[id].id = id
  /\ granted \in Seq(Int \cup {Persistent}) /\ Len(granted) = Len(rule)
  /\ fired \in Seq(Nat) /\ Len(fired) = Len(rule)
  /\ counts \in [Path -> Nat] /\ served \in [Path -> Nat]
  /\ gone \subseteq 1 .. MaxRules
  /\ DOMAIN frame = Threads /\ \A t \in Threads : FrameOK(frame[t])
  /\ calls \in 0 .. MaxCalls

Ascending(s) == \A i, j \in DOMAIN s : i < j => s[i] < s[j]

Members(s) == {s[i] : i \in DOMAIN s}

\* However removals, appends, clears and resets overlap, no list holds a rule
\* twice, and the first rule of a kind is always the oldest one: the lists
\* rebuilt by `remove' keep the order of the ids (injection.py:90-98).
OldestFirst ==
  /\ Ascending(rules)
  /\ \A t \in Threads :
       /\ Ascending(frame[t].out)
       /\ Ascending(frame[t].active)
       /\ frame[t].src # Live => Ascending(frame[t].src)

\* The count of a path served on the event loop is the number of requests
\* since the reset: `observe' reads and stores in two steps, but no other
\* thread counts such a path (injection.py:75-76, `async def' in app.py).
LoopCountsExact == \A p \in LoopPaths : counts[p] = served[p]

Budget(n) == IF n < 1 THEN 1 ELSE n

\* A rule with `times' fires no more than that (injection.py:6-7).
BudgetRespected ==
  \A id \in Ids : granted[id] # Persistent => fired[id] <= Budget(granted[id])

\* A rule leaves the list only because it is spent or because a DELETE, a
\* clear or a reset meant it to: the baseline, added after the clearing of
\* the reset, is kept.
RulesKept ==
  \A id \in Ids \ gone :
    \/ id \in Members(rules)
    \/ granted[id] # Persistent /\ fired[id] >= Budget(granted[id])

\* What a clear or a reset dropped stays dropped.
RulesGone ==
  (\A t \in Threads : Resting(t)) => Members(rules) \cap gone = {}

\* Every operation ends: the comprehensions read lists that other threads
\* change, and still reach their end.
Terminates == \A t \in Threads : ~Resting(t) ~> Resting(t)
=============================================================================
