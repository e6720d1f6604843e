----------------------- MODULE SequentialEngine_proofs -----------------------
(***************************************************************************)
(* One operation at a time, the engine implements the rule book: every step *)
(* of the code maps to a stutter, but the last of an operation, which maps  *)
(* to the step of the book.                                                 *)
(***************************************************************************)
EXTENDS SequentialEngine, InjectionEngine_proofs

IdsIn(S) == {r.id : r \in S}

OneRulePerId(S) == \A r, s \in S : r.id = s.id => r = s

(***************************************************************************)
(* What evaluate decides, on a set of rules                                 *)
(***************************************************************************)
\* No rule refuses: every latency fires and nothing answers.
LEMMA NothingRefuses ==
  ASSUME NEW book, NEW p, NEW n,
         \A r \in Active(book, p) : \/ r.kind = "latency"
                                    \/ r.kind = "rate_limit" /\ ~(n > r.after)
  PROVE  /\ Answering(book, p, n) = {}
         /\ Consumed(book, p, n) = OfKind(Active(book, p), "latency")
<1>1. Refusing(book, p, n) = {}
  BY DEF Refusing
<1>2. Answering(book, p, n) = {}
  BY <1>1 DEF Answering
<1> QED
  BY <1>2 DEF Consumed, Delaying, OfKind

\* Rule a refuses, and no other before it: a answers, behind the latencies unless
\* it is an auth_reject.
LEMMA OneRefuses ==
  ASSUME NEW book, book \subseteq Rule, OneRulePerId(book), NEW p, NEW n,
         NEW a \in Active(book, p), a.kind # "latency", a.kind = "rate_limit" => n > a.after,
         \A r \in Active(book, p) : \/ r = a \/ Precedes(a, r)
                                    \/ r.kind = "latency"
                                    \/ r.kind = "rate_limit" /\ ~(n > r.after)
  PROVE  /\ Answering(book, p, n) = {a}
         /\ Consumed(book, p, n) =
              {a} \cup (IF a.kind = "auth_reject" THEN {} ELSE OfKind(Active(book, p), "latency"))
<1>1. /\ a \in Refusing(book, p, n) /\ a \in book /\ a.id \in Nat /\ Rank(a) \in Nat
      /\ \A r \in Refusing(book, p, n) : r \in book /\ r.id \in Nat /\ Rank(r) \in Nat
  BY DEF Refusing, Active, Rule, Rank
<1>2. Precedes(a, a)
  BY <1>1 DEF Precedes
<1>3. \A r \in Refusing(book, p, n) : Precedes(a, r)
  BY <1>2 DEF Refusing
<1>4. ASSUME NEW r \in Answering(book, p, n) PROVE r = a
  <2>1. r \in Refusing(book, p, n) /\ Precedes(r, a) /\ Precedes(a, r)
    BY <1>1, <1>3 DEF Answering
  <2>2. r.id = a.id
    BY <1>1, <2>1 DEF Precedes
  <2> QED
    BY <1>1, <2>1, <2>2 DEF OneRulePerId
<1>5. Answering(book, p, n) = {a}
  BY <1>1, <1>3, <1>4 DEF Answering
<1>6. OfKind(Answering(book, p, n), "auth_reject") # {} <=> a.kind = "auth_reject"
  BY <1>5 DEF OfKind
<1> QED
  BY <1>5, <1>6 DEF Consumed, Delaying

LEMMA RenewedIsSpend == ASSUME NEW r PROVE Renewed(r) = Spend(r) \/ r \notin Rule
<1> SUFFICES ASSUME r \in Rule PROVE Renewed(r) = Spend(r)
  OBVIOUS
<1>1. CASE r.times = Persistent
  <2>1. Spend(r) = [r EXCEPT !.times = Persistent]
    BY <1>1 DEF Spend
  <2>2. Spend(r) = r
    BY <1>1, <2>1 DEF Rule
  <2> QED
    BY <1>1, <2>2 DEF Renewed
<1>2. CASE r.times # Persistent
  BY <1>2 DEF Renewed, Spend
<1> QED
  BY <1>1, <1>2

LEMMA SpendIs ==
  ASSUME NEW r \in Rule
  PROVE  /\ Spend(r) \in Rule /\ Spend(r).id = r.id /\ Spend(r).kind = r.kind
         /\ Spend(r).scope = r.scope /\ Spend(r).after = r.after
         /\ Exhausted(Spend(r)) <=> ~(r.times = Persistent \/ r.times > 1)
<1>1. PICK n : n = IF r.times = Persistent THEN Persistent ELSE r.times - 1
  OBVIOUS
<1>2. Spend(r) = [r EXCEPT !.times = n]
  BY <1>1 DEF Spend, Rule
<1>3. n \in Int \cup {Persistent}
  BY <1>1 DEF Rule
<1>4. /\ Spend(r) \in Rule /\ Spend(r).id = r.id /\ Spend(r).kind = r.kind
      /\ Spend(r).scope = r.scope /\ Spend(r).after = r.after /\ Spend(r).times = n
  BY <1>2, <1>3 DEF Rule
<1>5. CASE r.times = Persistent
  BY <1>1, <1>4, <1>5 DEF Exhausted
<1>6. CASE r.times # Persistent
  <2>1. r.times \in Int /\ n = r.times - 1 /\ n # Persistent
    BY <1>1, <1>6, TimesAssumption DEF Rule
  <2>2. Exhausted(Spend(r)) <=> n <= 0
    BY <1>4, <2>1 DEF Exhausted
  <2> QED
    BY <1>4, <1>6, <2>1, <2>2
<1> QED
  BY <1>5, <1>6

\* The rules D are consumed: rl is what the objects of the book have become, ids
\* what is left of the list.
Evaluated(book, D, rl, ids) ==
  /\ book \subseteq Rule
  /\ \A r \in book : rl[r.id] = IF r.id \in D THEN Spend(r) ELSE r
  /\ ids = IdsIn(book) \ {id \in D : Exhausted(rl[id])}

\* The list after an evaluation, as a book.
LEMMA BookAfter ==
  ASSUME NEW book, NEW D, NEW rl, NEW ids, Evaluated(book, D, rl, ids)
  PROVE  {rl[id] : id \in ids} = Consume(book, {r \in book : r.id \in D})
<1> USE DEF Evaluated
<1> DEFINE used == {r \in book : r.id \in D}
           kept == {r \in book : r.id \in D => ~Exhausted(rl[r.id])}
<1>1. {rl[id] : id \in ids} = {rl[r.id] : r \in kept}
  BY DEF IdsIn
<1>2. \A r \in book : r.id \in D => rl[r.id] = Renewed(r)
  BY RenewedIsSpend
<1>3. \A r \in book : r.id \in D =>
        (Exhausted(rl[r.id]) <=> ~(r.times = Persistent \/ r.times > 1))
  BY SpendIs
<1>4. {rl[r.id] : r \in kept} =
        (book \ used) \cup {Renewed(r) : r \in {s \in used : s.times = Persistent \/ s.times > 1}}
  BY <1>2, <1>3
<1> QED
  BY <1>1, <1>4 DEF Consume

(***************************************************************************)
(* The engine in the middle of an operation, seen from the book it had when *)
(* the operation began                                                      *)
(***************************************************************************)
\* The rules D have been consumed, and nothing else changed ...
Kept(D) ==
  /\ granted = atomic.granted
  /\ fired = [id \in Ids |-> IF id \in D THEN atomic.fired[id] + 1 ELSE atomic.fired[id]]
  /\ \A r \in atomic.book :
       r.id \in Ids /\ rule[r.id] = IF r.id \in D THEN Spend(r) ELSE r

\* ... and the rules G have left the list.
Listed(G) == Members(rules) = IdsIn(atomic.book) \ G

Counted(p) == p \in Path /\ counts = [atomic.counts EXCEPT ![p] = @ + 1]

Untouched == Kept({}) /\ Listed({}) /\ counts = atomic.counts

\* The positions that the loops of evaluate have passed, the one in turn left out.
Past(f) ==
  (DOMAIN f.active \ AheadIn(rule, f.active, f.at)) \ (IF f.pc = "judge" THEN {} ELSE {f.at})

Delayed(f) == {f.active[j] : j \in {k \in Past(f) : rule[f.active[k]].kind = "latency"}}

Dropped(f) == {id \in Delayed(f) : Exhausted(rule[id])}

Overlooked(r, n) == r.kind = "rate_limit" /\ ~Exceeds(n, r)

Evaluates(f) ==
  /\ Counted(f.path)
  /\ Members(f.active) = IdsIn(Active(atomic.book, f.path))
  /\ Kept(Delayed(f) \cup (IF f.pc = "remove" THEN {f.victim} ELSE {}))
  /\ Listed(Dropped(f))
  /\ \A j \in Past(f) : \/ rule[f.active[j]].kind = "latency"
                        \/ Overlooked(rule[f.active[j]], counts[f.path])
  /\ f.pc # "judge" => ~Overlooked(rule[Current(f)], counts[f.path])

Stores(f) == Untouched /\ f.path \in Path /\ f.n = counts[f.path] /\ f.n < calls

Scans(f) ==
  /\ Kept({}) /\ Listed({}) /\ Counted(f.path) /\ f.i <= Len(rules)
  /\ Members(f.out) = {rules[k] : k \in {l \in 1 .. f.i : f.path \in rule[rules[l]].scope}}

Copies(f) ==
  /\ f.i <= Len(rules) /\ Members(f.out) = {rules[k] : k \in 1 .. f.i} \ {f.victim}
  /\ Len(f.out) = IF f.victim \in {rules[k] : k \in 1 .. f.i} THEN f.i - 1 ELSE f.i

Deletes(f) == Untouched /\ f.n = Len(rules) /\ f.victim \in 1 .. MaxRules

Stage(f) ==
  /\ f.pc # "idle" => f.src = Live
  /\ f.pc \in {"store", "judge", "consume"} => f.i = 0
  /\ f.pc = "store" => Stores(f)
  /\ f.pc = "scan"  => Scans(f)
  /\ f.pc \in {"judge", "consume"} => Evaluates(f)
  /\ f.pc = "remove" =>
       /\ Copies(f)
       /\ f.at = 0 => Deletes(f)
       /\ f.at # 0 => Evaluates(f) /\ f.victim = Current(f) /\ Exhausted(rule[f.victim])
  /\ f.pc = "reset_counts" => Kept({}) /\ rules = <<>>
  /\ f.pc = "reset_add" => Kept({}) /\ rules = <<>> /\ counts = [p \in Path |-> 0]

AtomicTyped ==
  /\ atomic.book \subseteq Rule /\ OneRulePerId(atomic.book)
  /\ atomic.counts \in [Path -> Nat]
  /\ atomic.granted \in Seq(Int \cup {Persistent})
  /\ atomic.fired \in Seq(Nat) /\ Len(atomic.fired) = Len(atomic.granted)

SeqInv ==
  /\ AtomicTyped
  /\ Quiescent => Untouched
  /\ \A t, u \in Threads : ~Resting(t) /\ ~Resting(u) => t = u
  /\ \A p \in Path : counts[p] <= calls
  /\ \A t \in Threads : Stage(frame[t])

(***************************************************************************)
(* Between two operations                                                   *)
(***************************************************************************)
Agrees ==
  /\ atomic.book = {rule[rules[i]] : i \in DOMAIN rules} /\ atomic.granted = granted
  /\ atomic.fired = fired /\ atomic.counts = counts

LEMMA Settles ==
  EngineInv /\ TypedInv /\ Quiescent /\ Agrees /\ (\A p \in Path : counts[p] <= calls) => SeqInv
<1> SUFFICES ASSUME EngineInv, TypedInv, Quiescent, Agrees, \A p \in Path : counts[p] <= calls
             PROVE  SeqInv
  OBVIOUS
<1>1. /\ rule \in Seq(Rule) /\ rules \in Seq(Ids) /\ \A id \in Ids : rule[id].id = id
      /\ granted \in Seq(Int \cup {Persistent}) /\ Len(granted) = Len(rule)
      /\ fired \in Seq(Nat) /\ Len(fired) = Len(rule)
      /\ counts \in [Path -> Nat]
  BY DEF EngineInv, OrderInv, CountInv, TypedInv, BookTyped
<1>2. \A i \in DOMAIN rules : rules[i] \in Ids /\ rule[rules[i]] \in Rule
  BY <1>1 DEF Ids
<1>3. AtomicTyped
  BY <1>1, <1>2 DEF Agrees, AtomicTyped, OneRulePerId
<1>4. fired = [id \in Ids |-> IF id \in {} THEN fired[id] + 1 ELSE fired[id]]
  BY <1>1 DEF Ids
<1>5. Kept({})
  BY <1>1, <1>2, <1>4 DEF Kept, Agrees
<1>6. Listed({})
  <2>1. IdsIn(atomic.book) = {rule[rules[i]].id : i \in DOMAIN rules}
    BY DEF IdsIn, Agrees
  <2>2. \A i \in DOMAIN rules : rule[rules[i]].id = rules[i]
    BY <1>1, <1>2
  <2>3. IdsIn(atomic.book) = Members(rules)
    BY <2>1, <2>2 DEF Members
  <2> QED
    BY <2>3 DEF Listed
<1>7. Untouched
  BY <1>5, <1>6 DEF Untouched, Agrees
<1>8. \A t \in Threads : Stage(frame[t])
  BY DEF Quiescent, Resting, Stage
<1> QED
  BY <1>3, <1>7, <1>8 DEF SeqInv, Quiescent

LEMMA SettlesNext ==
  (EngineInv /\ TypedInv /\ Quiescent /\ Agrees /\ (\A p \in Path : counts[p] <= calls))' => SeqInv'
BY Settles, PTL

\* atomic changes when the operation ends.
Ends == atomic' = IF Quiescent' THEN Finished(atomic) ELSE atomic

LEMMA FinishedAgrees ==
  ASSUME atomic' = Finished(atomic)
  PROVE  /\ Agrees' /\ atomic'.reply = reply'
         /\ atomic'.passed = IF reply'.op = "reset" THEN [p \in Path |-> 0]
                             ELSE IF reply'.op = "request" /\ reply'.by = NoRule
                             THEN [atomic.passed EXCEPT ![reply'.path] = @ + 1]
                             ELSE atomic.passed
         /\ atomic'.baseline = IF reply'.op = "reset"
                                 THEN (IF Baseline(1) = {} THEN NoRule ELSE Len(rule'))
                                 ELSE atomic.baseline
BY DEF Finished, Agrees

\* Whose turn it is: nobody else is under way.
Turn(t) == (Quiescent \/ ~Resting(t)) /\ (Rest(t) \/ RestBut(t))

LEMMA OthersRest ==
  ASSUME SeqInv, NEW t \in Threads, Turn(t)
  PROVE  /\ \A u \in Threads : u # t => Resting(u)'
         /\ Quiescent' <=> frame'[t].pc = "idle"
<1>1. ASSUME NEW u \in Threads, u # t PROVE frame'[u].pc = "idle"
  <2>1. frame[u].pc = "idle"
    BY <1>1 DEF Turn, Quiescent, SeqInv, Resting
  <2>2. CASE frame'[u] = frame[u]
    BY <2>1, <2>2
  <2>3. CASE frame'[u] # frame[u]
    <3> DEFINE e == frame[u]
    <3>1. frame'[u] = Rec(e.pc, e.path, e.n, e.victim, rules, e.i, e.out, e.active, e.at)
      BY <1>1, <2>3 DEF Turn, Rest, RestBut
    <3> QED
      BY <2>1, <3>1 DEF Rec
  <2> QED
    BY <2>2, <2>3
<1> QED
  BY <1>1 DEF Resting, Quiescent

\* A step in the middle of an operation.
LEMMA MidStep ==
  ASSUME SeqInv, NEW t \in Threads, Turn(t), Ends, frame'[t].pc # "idle",
         Stage(frame[t])', \A p \in Path : counts'[p] <= calls'
  PROVE  SeqInv' /\ atomic' = atomic
<1>1. ~Quiescent' /\ \A u \in Threads : u # t => frame'[u].pc = "idle"
  BY OthersRest DEF Resting
<1>2. atomic' = atomic
  BY <1>1 DEF Ends
<1>3. \A u \in Threads : u # t => Stage(frame[u])'
  BY <1>1 DEF Stage
<1>4. AtomicTyped'
  BY <1>2 DEF SeqInv, AtomicTyped
<1>5. \A u, v \in Threads : ~Resting(u)' /\ ~Resting(v)' => u = v
  BY <1>1 DEF Resting
<1> QED
  BY <1>1, <1>2, <1>3, <1>4, <1>5 DEF SeqInv

\* The last step of an operation.
LEMMA LastStep ==
  ASSUME SeqInv, EngineInv', TypedInv', NEW t \in Threads, Turn(t), Ends, frame'[t].pc = "idle",
         \A p \in Path : counts'[p] <= calls'
  PROVE  SeqInv' /\ atomic' = Finished(atomic)
<1>1. Quiescent'
  BY OthersRest
<1>2. atomic' = Finished(atomic)
  BY <1>1 DEF Ends
<1>3. Agrees'
  BY <1>2, FinishedAgrees
<1> QED
  BY <1>1, <1>2, <1>3, SettlesNext

LEMMA MidAtomic ==
  ASSUME SeqInv, NEW t \in Threads, Turn(t), Ends, frame'[t].pc # "idle"
  PROVE  atomic' = atomic
BY OthersRest DEF Ends

LEMMA SameBook ==
  ASSUME UNCHANGED <<rule, granted, fired, atomic>>, NEW D, Kept(D)  PROVE Kept(D)'
BY DEF Kept, Ids

LEMMA SameList ==
  ASSUME UNCHANGED <<rules, atomic>>, NEW G, Listed(G)  PROVE Listed(G)'
BY DEF Listed

(***************************************************************************)
(* A request: the count and the scan                                        *)
(***************************************************************************)
LEMMA CallStage ==
  ASSUME EngineInv, TypedInv, SeqInv, Ends, Quiescent, NEW t \in Threads, NEW p \in Path,
         Call(t, p)
  PROVE  SeqInv' /\ atomic' = atomic
<1> DEFINE g == frame'[t]
<1>1. /\ g = Rec("store", p, counts[p], NoRule, Live, 0, <<>>, <<>>, 0) /\ Turn(t)
  BY CallFrame DEF EngineInv, Turn
<1>2. /\ g.pc = "store" /\ g.path = p /\ g.n = counts[p] /\ g.src = Live /\ g.i = 0
  BY <1>1 DEF Rec
<1>3. atomic' = atomic
  BY <1>1, <1>2, MidAtomic
<1>4. UNCHANGED <<rules, rule, counts, granted, fired>> /\ calls' = calls + 1
  BY DEF Call
<1>5. counts[p] <= calls /\ counts[p] \in Nat /\ calls \in Nat /\ \A q \in Path : counts[q] \in Nat
  BY BoundAssumption DEF EngineInv, CountInv, TypedInv, BookTyped, SeqInv
<1>6. Untouched'
  BY <1>3, <1>4, SameBook, SameList DEF SeqInv, Untouched
<1>7. Stage(frame[t])'
  BY <1>2, <1>4, <1>5, <1>6 DEF Stage, Stores
<1>8. \A q \in Path : counts'[q] <= calls'
  BY <1>4, <1>5 DEF SeqInv
<1> QED
  BY <1>1, <1>2, <1>7, <1>8, MidStep

LEMMA StoreStage ==
  ASSUME EngineInv, TypedInv, SeqInv, Ends, NEW t \in Threads, Store(t)
  PROVE  SeqInv' /\ atomic' = atomic
<1> DEFINE f == frame[t]
           g == frame'[t]
<1>0. PICK p : p = f.path
  OBVIOUS
<1>1. /\ f.pc = "store" /\ Rest(t)
      /\ g = Rec("scan", f.path, 0, f.victim, f.src, f.i, f.out, f.active, f.at)
  BY StoreFrame DEF EngineInv
<1>2. Turn(t) /\ g.pc = "scan" /\ g.path = p /\ g.src = f.src /\ g.i = f.i /\ g.out = f.out
  BY <1>0, <1>1 DEF Rec, Turn, Resting
<1>3. atomic' = atomic
  BY <1>2, MidAtomic
<1>4. /\ UNCHANGED <<rules, rule, granted, fired, calls>>
      /\ counts' = [counts EXCEPT ![p] = f.n + 1]
  BY <1>0 DEF Store
<1>5. /\ Untouched /\ p \in Path /\ f.n = counts[p] /\ f.n < calls /\ f.src = Live /\ f.i = 0
  BY <1>0, <1>1 DEF SeqInv, Stage, Stores
<1>6. f.out = <<>> /\ Len(rules) \in Nat
  BY <1>5 DEF EngineInv, OrderInv, Reading
<1>7. /\ counts \in [Path -> Nat] /\ calls \in Nat
  BY BoundAssumption DEF EngineInv, CountInv, TypedInv, BookTyped
<1>8. Kept({})' /\ Listed({})'
  BY <1>3, <1>4, <1>5, SameBook, SameList DEF Untouched
<1>9. Counted(p)'
  BY <1>3, <1>4, <1>5 DEF Untouched, Counted
<1>10. Scans(frame[t])'
  <2>1. {l \in 1 .. 0 : p \in rule'[rules'[l]].scope} = {}
    OBVIOUS
  <2> QED
    BY <1>2, <1>4, <1>5, <1>6, <1>8, <1>9, <2>1, MembersOfEmpty DEF Scans
<1>11. Stage(frame[t])'
  BY <1>2, <1>5, <1>10 DEF Stage
<1>12. \A q \in Path : counts'[q] <= calls'
  BY <1>4, <1>5, <1>7 DEF SeqInv
<1> QED
  BY <1>2, <1>11, <1>12, MidStep

\* The rules of the path, in the list and in the book.
LEMMA ScannedAll ==
  ASSUME Kept({}), Listed({}), NEW p
  PROVE  {id \in Members(rules) : p \in rule[id].scope} = IdsIn(Active(atomic.book, p))
BY DEF Kept, Listed, IdsIn, Active

LEMMA ScanStage ==
  ASSUME EngineInv, TypedInv, SeqInv, Ends, NEW t \in Threads, Scan(t)
  PROVE  SeqInv' /\ atomic' = atomic
<1> DEFINE f == frame[t]
           g == frame'[t]
           x == ListIn(f, rules)[f.i + 1]
<1>0. PICK p : p = f.path
  OBVIOUS
<1> DEFINE o == IF p \in rule[x].scope THEN Append(f.out, x) ELSE f.out
<1>1. /\ f.pc = "scan" /\ Rest(t)
      /\ \/ /\ f.i < Len(ListIn(f, rules))
            /\ g = Rec("scan", p, f.n, f.victim, f.src, f.i + 1, o, f.active, f.at)
         \/ /\ f.i >= Len(ListIn(f, rules))
            /\ g = Rec("judge", p, f.n, f.victim, Live, 0, <<>>, f.out, f.at)
  BY <1>0, ScanFrame DEF EngineInv
<1>2. /\ UNCHANGED <<rules, rule, counts, granted, fired, calls>>
  BY DEF Scan
<1>3. /\ Kept({}) /\ Listed({}) /\ Counted(p) /\ f.i <= Len(rules) /\ f.src = Live
      /\ Members(f.out) = {rules[k] : k \in {l \in 1 .. f.i : p \in rule[rules[l]].scope}}
  BY <1>0, <1>1 DEF SeqInv, Stage, Scans
<1>4. /\ rules \in Seq(Ids) /\ Len(rules) \in Nat /\ DOMAIN rules = 1 .. Len(rules)
      /\ f.i \in Nat /\ f.out \in Seq(Ids) /\ f.at = 0 /\ ListIn(f, rules) = rules
  BY <1>1, <1>3 DEF EngineInv, OrderInv, Reading, TypedInv, Planned, ListIn, Ids
<1>5. Turn(t) /\ g.pc # "idle"
  BY <1>1 DEF Turn, Resting, Rec
<1>6. atomic' = atomic
  BY <1>5, MidAtomic
<1>7. Kept({})' /\ Listed({})' /\ Counted(p)'
  BY <1>2, <1>3, <1>6, SameBook, SameList DEF Counted
<1>8. CASE /\ f.i < Len(rules)
           /\ g = Rec("scan", p, f.n, f.victim, f.src, f.i + 1, o, f.active, f.at)
  <2>1. x = rules[f.i + 1] /\ x \in Ids
    BY <1>4, <1>8
  <2>2. Members(Append(f.out, x)) = Members(f.out) \cup {x}
    BY <1>4, <2>1, MembersOfAppend
  <2>3. {l \in 1 .. f.i + 1 : p \in rule[rules[l]].scope} =
          {l \in 1 .. f.i : p \in rule[rules[l]].scope}
            \cup (IF p \in rule[x].scope THEN {f.i + 1} ELSE {})
    BY <1>4, <2>1, SMTT(20)
  <2>4. Members(o) = {rules[k] : k \in {l \in 1 .. f.i + 1 : p \in rule[rules[l]].scope}}
    <3>1. CASE p \in rule[x].scope
      <4>1. {rules[k] : k \in {l \in 1 .. f.i + 1 : p \in rule[rules[l]].scope}} =
              {rules[k] : k \in {l \in 1 .. f.i : p \in rule[rules[l]].scope}} \cup {x}
        BY <2>1, <2>3, <3>1
      <4> QED
        BY <1>3, <2>2, <3>1, <4>1
    <3>2. CASE p \notin rule[x].scope
      BY <1>3, <2>3, <3>2
    <3> QED
      BY <3>1, <3>2
  <2> HIDE DEF o
  <2>5. g.pc = "scan" /\ g.path = p /\ g.i = f.i + 1 /\ g.out = o /\ g.src = Live
    BY <1>3, <1>8 DEF Rec
  <2>6. Stage(frame[t])'
    BY <1>2, <1>4, <1>7, <1>8, <2>4, <2>5 DEF Stage, Scans
  <2> QED
    BY <1>2, <1>5, <1>6, <2>6, MidStep DEF SeqInv
<1>9. CASE /\ f.i >= Len(rules)
           /\ g = Rec("judge", p, f.n, f.victim, Live, 0, <<>>, f.out, f.at)
  <2>1. f.i = Len(rules)
    BY <1>3, <1>4, <1>9
  <2>2. Members(f.out) = {id \in Members(rules) : p \in rule[id].scope}
    BY <1>3, <1>4, <2>1 DEF Members
  <2>3. Members(f.out) = IdsIn(Active(atomic.book, p))
    BY <1>3, <2>2, ScannedAll
  <2>4. g.pc = "judge" /\ g.path = p /\ g.i = 0 /\ g.active = f.out /\ g.at = 0 /\ g.src = Live
    BY <1>4, <1>9 DEF Rec
  <2>5. Past(frame[t])' = {} /\ Delayed(frame[t])' = {} /\ Dropped(frame[t])' = {}
    BY <2>4 DEF Past, Delayed, Dropped, AheadIn
  <2>6. Kept(Delayed(frame[t]) \cup (IF frame[t].pc = "remove" THEN {frame[t].victim} ELSE {}))'
    BY <1>7, <2>4, <2>5
  <2>7. Listed(Dropped(frame[t]))'
    BY <1>7, <2>5
  <2>8. Evaluates(frame[t])'
    BY <1>2, <1>6, <1>7, <2>3, <2>4, <2>5, <2>6, <2>7 DEF Evaluates
  <2>9. Stage(frame[t])'
    BY <2>4, <2>8 DEF Stage
  <2> QED
    BY <1>2, <1>5, <1>6, <2>9, MidStep DEF SeqInv
<1> QED
  BY <1>1, <1>4, <1>8, <1>9

(***************************************************************************)
(* A request: the verdict                                                   *)
(***************************************************************************)
\* The first of the positions ahead becomes the one in turn.
LEMMA NextInTurn ==
  ASSUME NEW m \in Nat, NEW active \in Seq(1 .. m), NEW at \in 0 .. Len(active), NEW book,
         NEW j \in AheadIn(book, active, at),
         \A k \in AheadIn(book, active, at) \ {j} :
           \/ Rank(book[active[j]]) < Rank(book[active[k]])
           \/ Rank(book[active[j]]) = Rank(book[active[k]]) /\ j < k
  PROVE  AheadIn(book, active, j) = AheadIn(book, active, at) \ {j}
<1>1. AheadIn(book, active, j) \subseteq AheadIn(book, active, at) \ {j}
  BY AheadShrinks
<1>2. \A k \in AheadIn(book, active, at) : k \in DOMAIN active
  BY DEF AheadIn
<1> QED
  BY <1>1, <1>2 DEF AheadIn

\* The positions passed, in the terms of the frame that evaluates.
LEMMA EvaluatesSame ==
  ASSUME NEW t \in Threads, NEW g, g = frame'[t], Evaluates(g),
         UNCHANGED <<rules, rule, counts, granted, fired, atomic>>
  PROVE  Evaluates(frame[t])'
<1>1. Past(frame[t])' = Past(g)
  BY DEF Past, AheadIn
<1>2. Delayed(frame[t])' = Delayed(g)
  BY <1>1 DEF Delayed
<1>3. Dropped(frame[t])' = Dropped(g)
  BY <1>2 DEF Dropped
<1>4. Current(frame[t])' = Current(g)
  BY DEF Current
<1>5. Counted(g.path)' /\ Members(g.active) = IdsIn(Active(atomic'.book, g.path))
  BY DEF Evaluates, Counted
<1>6. Kept(Delayed(g) \cup (IF g.pc = "remove" THEN {g.victim} ELSE {}))' /\ Listed(Dropped(g))'
  BY DEF Evaluates, Kept, Listed, Delayed, Dropped, Past, AheadIn, Ids
<1> QED
  BY <1>1, <1>2, <1>3, <1>4, <1>5, <1>6 DEF Evaluates

LEMMA PlanOf ==
  ASSUME EngineInv, TypedInv, NEW t \in Threads
  PROVE  /\ Len(rule) \in Nat /\ rule \in Seq(Rule) /\ Ids = 1 .. Len(rule)
         /\ frame[t].active \in Seq(1 .. Len(rule)) /\ Ascending(frame[t].active)
         /\ frame[t].at \in 0 .. Len(frame[t].active)
         /\ \A id \in Ids : rule[id].id = id /\ rule[id] \in Rule
BY DEF EngineInv, OrderInv, TypedInv, BookTyped, Planned, Ids

LEMMA JudgeStage ==
  ASSUME EngineInv, TypedInv, SeqInv, Ends, NEW t \in Threads, Judge(t),
         Ahead(frame[t]) # {}
  PROVE  SeqInv' /\ atomic' = atomic
<1>0. PICK f, g : f = frame[t] /\ g = frame'[t]
  OBVIOUS
<1>1. f.pc = "judge" /\ Rest(t) /\ Ahead(f) # {}
  BY <1>0, JudgeFrame DEF EngineInv
<1>2. PICK j, a :
        /\ j \in Ahead(f) /\ a \in {"judge", "consume"}
        /\ \A k \in Ahead(f) \ {j} : Comes(f.active, j, k)
        /\ a = "judge" => Overlooked(rule[f.active[j]], counts[f.path])
        /\ a = "consume" => ~Overlooked(rule[f.active[j]], counts[f.path])
        /\ g = Rec(a, f.path, f.n, f.victim, f.src, f.i, f.out, f.active, j)
  <2>1. \E k \in Ahead(f) : 
          /\ \A l \in Ahead(f) \ {k} : Comes(f.active, k, l)
          /\ \/ /\ Overlooked(rule[f.active[k]], counts[f.path])
                /\ g = Rec("judge", f.path, f.n, f.victim, f.src, f.i, f.out, f.active, k)
             \/ /\ ~Overlooked(rule[f.active[k]], counts[f.path])
                /\ g = Rec("consume", f.path, f.n, f.victim, f.src, f.i, f.out, f.active, k)
    BY <1>0, <1>1, JudgeFrame DEF EngineInv, Overlooked
  <2>2. "judge" # "consume"
    OBVIOUS
  <2> QED
    BY <2>1, <2>2
<1>3. UNCHANGED <<rules, rule, counts, granted, fired, calls>>
  BY DEF Judge
<1>4. /\ g.pc = a /\ g.path = f.path /\ g.src = f.src /\ g.i = f.i /\ g.active = f.active
      /\ g.at = j
  BY <1>2 DEF Rec
<1>5. Turn(t) /\ g.pc # "idle"
  BY <1>0, <1>1, <1>2, <1>4 DEF Turn, Resting
<1>6. atomic' = atomic
  BY <1>0, <1>5, MidAtomic
<1>7. Evaluates(f) /\ f.src = Live /\ f.i = 0
  BY <1>0, <1>1 DEF SeqInv, Stage
<1>8. /\ Len(rule) \in Nat /\ f.active \in Seq(1 .. Len(rule)) /\ f.at \in 0 .. Len(f.active)
  BY <1>0, PlanOf
<1>9. AheadIn(rule, f.active, j) = AheadIn(rule, f.active, f.at) \ {j}
  <2>1. j \in AheadIn(rule, f.active, f.at)
    BY <1>2, AheadIs
  <2>2. \A k \in AheadIn(rule, f.active, f.at) \ {j} :
          \/ Rank(rule[f.active[j]]) < Rank(rule[f.active[k]])
          \/ Rank(rule[f.active[j]]) = Rank(rule[f.active[k]]) /\ j < k
    BY <1>2, AheadIs DEF Comes
  <2> QED
    BY <1>8, <2>1, <2>2, NextInTurn
<1>10. j \in DOMAIN f.active /\ j \in AheadIn(rule, f.active, f.at)
  BY <1>2, AheadIs DEF AheadIn
<1>11. Past(g) = Past(f) \cup (IF a = "judge" THEN {j} ELSE {})
  BY <1>1, <1>2, <1>4, <1>9, <1>10 DEF Past
<1>12. Delayed(g) = Delayed(f)
  BY <1>2, <1>4, <1>11 DEF Delayed, Overlooked
<1>13. Evaluates(g)
  <2>1. Kept(Delayed(g) \cup (IF g.pc = "remove" THEN {g.victim} ELSE {}))
    <3>1. Delayed(f) \cup {} = Delayed(f)
      OBVIOUS
    <3> QED
      BY <1>1, <1>2, <1>4, <1>7, <1>12, <3>1 DEF Evaluates
  <2>2. Listed(Dropped(g))
    BY <1>7, <1>12 DEF Evaluates, Dropped
  <2>3. \A k \in Past(g) : \/ rule[g.active[k]].kind = "latency"
                           \/ Overlooked(rule[g.active[k]], counts[g.path])
    BY <1>2, <1>4, <1>7, <1>11 DEF Evaluates
  <2>4. g.pc # "judge" => ~Overlooked(rule[Current(g)], counts[g.path])
    BY <1>2, <1>4 DEF Current
  <2> QED
    BY <1>4, <1>7, <2>1, <2>2, <2>3, <2>4 DEF Evaluates
<1>14. Stage(frame[t])'
  <2>1. Evaluates(frame[t])'
    BY <1>0, <1>3, <1>6, <1>13, EvaluatesSame
  <2> QED
    BY <1>0, <1>2, <1>4, <1>7, <2>1 DEF Stage
<1> QED
  BY <1>0, <1>3, <1>5, <1>6, <1>14, MidStep DEF SeqInv

(***************************************************************************)
(* A request: the consumption of the rule in turn                           *)
(***************************************************************************)
\* The rule in turn is none of the latencies that the loops have passed, and only
\* its times change.
LEMMA Consumption ==
  ASSUME EngineInv, TypedInv, SeqInv, NEW t \in Threads, ConsumeStep(t),
         NEW f, f = frame[t], NEW c, c = Current(f)
  PROVE  /\ Evaluates(f) /\ f.pc = "consume" /\ f.src = Live /\ f.i = 0 /\ f.out = <<>>
         /\ f.at \in DOMAIN f.active /\ c \in Ids /\ c \in Members(f.active) /\ c \notin Delayed(f)
         /\ f.at \notin Past(f)
         /\ UNCHANGED <<rules, counts, granted, calls>> /\ Ids' = Ids
         /\ rule' = [rule EXCEPT ![c] = Spend(rule[c])]
         /\ fired' = [fired EXCEPT ![c] = @ + 1]
         /\ \A id \in Ids : /\ rule'[id].kind = rule[id].kind /\ rule'[id].after = rule[id].after
                            /\ rule'[id] = IF id = c THEN Spend(rule[id]) ELSE rule[id]
         /\ fired' = [id \in Ids |-> IF id \in Delayed(f) \cup {c}
                                      THEN atomic.fired[id] + 1 ELSE atomic.fired[id]]
         /\ \A r \in atomic.book :
              r.id \in Ids /\ rule'[r.id] = IF r.id \in Delayed(f) \cup {c} THEN Spend(r) ELSE r
<1>1. /\ f.pc = "consume" /\ rule' = [rule EXCEPT ![c] = Spend(rule[c])]
      /\ fired' = [fired EXCEPT ![c] = @ + 1] /\ UNCHANGED <<rules, counts, granted, calls>>
  BY ConsumeFrame DEF EngineInv, ConsumeStep
<1>2. Evaluates(f) /\ f.src = Live /\ f.i = 0
  BY <1>1 DEF SeqInv, Stage
<1>3. f.out = <<>>
  BY <1>2 DEF EngineInv, OrderInv, Reading
<1>4. f.at \in DOMAIN f.active /\ c \in Ids /\ c \in Members(f.active) /\ c = f.active[f.at]
  BY <1>1, CurrentRule DEF Current
<1>5. f.at \notin Past(f)
  BY <1>1 DEF Past
<1>6. f.active \in Seq(1 .. Len(rule)) /\ Ascending(f.active) /\ rule \in Seq(Rule) /\ Ids = 1 .. Len(rule)
  BY PlanOf
<1>7. \A k, l \in DOMAIN f.active : f.active[k] = f.active[l] => k = l
  <2>1. \A k \in DOMAIN f.active : k \in Nat /\ f.active[k] \in Nat
    BY <1>6
  <2>2. \A k, l \in DOMAIN f.active : k < l => f.active[k] < f.active[l]
    BY <1>6 DEF Ascending
  <2>3. PICK list : list = f.active
    OBVIOUS
  <2>4. ASSUME NEW k \in DOMAIN list, NEW l \in DOMAIN list, list[k] = list[l]  PROVE k = l
    <3>1. k \in Nat /\ l \in Nat /\ list[k] \in Nat /\ ~(k < l) /\ ~(l < k)
      BY <2>1, <2>2, <2>3, <2>4
    <3> QED
      BY <3>1
  <2> QED
    BY <2>3, <2>4
<1>8. Past(f) \subseteq DOMAIN f.active
  BY DEF Past
<1>9. c \notin Delayed(f)
  BY <1>4, <1>5, <1>7, <1>8 DEF Delayed
<1>10. /\ Len(rule') = Len(rule) /\ \A k \in Ids : k # c => rule'[k] = rule[k]
       /\ rule'[c].kind = rule[c].kind /\ rule'[c].after = rule[c].after
  BY <1>1, <1>4, <1>6, SpentRule
<1>11. rule'[c] = Spend(rule[c])
  BY <1>1, <1>4, <1>6
<1>12. Ids' = Ids
  BY <1>6, <1>10 DEF Ids
<1>13. Kept(Delayed(f))
  <2>1. Delayed(f) \cup {} = Delayed(f)
    OBVIOUS
  <2> QED
    BY <1>1, <1>2, <2>1 DEF Evaluates
<1>14. fired' = [id \in Ids |-> IF id \in Delayed(f) \cup {c}
                                THEN atomic.fired[id] + 1 ELSE atomic.fired[id]]
  <2>1. fired' = [id \in Ids |-> IF id = c THEN fired[id] + 1 ELSE fired[id]]
    BY <1>1, <1>4, <1>13 DEF Kept
  <2>2. \A id \in Ids : fired[id] = IF id \in Delayed(f) THEN atomic.fired[id] + 1 ELSE atomic.fired[id]
    BY <1>13 DEF Kept
  <2> QED
    BY <1>9, <2>1, <2>2
<1>15. \A r \in atomic.book :
         r.id \in Ids /\ rule'[r.id] = IF r.id \in Delayed(f) \cup {c} THEN Spend(r) ELSE r
  BY <1>9, <1>10, <1>11, <1>13 DEF Kept
<1> QED
  BY <1>1, <1>2, <1>3, <1>4, <1>5, <1>9, <1>10, <1>11, <1>12, <1>14, <1>15

\* The frame after the consumption: what the loops have passed.
LEMMA PastSpent ==
  ASSUME EngineInv, TypedInv, SeqInv, NEW t \in Threads, ConsumeStep(t),
         NEW f, f = frame[t], NEW c, c = Current(f),
         NEW g, g.active = f.active, g.at = f.at
  PROVE  /\ g.pc = "remove" => Past(g)' = Past(f) /\ Delayed(g)' = Delayed(f)
         /\ g.pc = "judge" => Past(g)' = Past(f) \cup {f.at}
         /\ g.pc = "judge" /\ rule[c].kind = "latency" => Delayed(g)' = Delayed(f) \cup {c}
<1>1. AheadIn(rule', f.active, f.at) = AheadIn(rule, f.active, f.at)
  <2>1. /\ Len(rule) \in Nat /\ f.active \in Seq(1 .. Len(rule)) /\ f.at \in 0 .. Len(f.active)
        /\ Ids = 1 .. Len(rule)
    BY PlanOf
  <2>2. PICK now, old : now = rule' /\ old = rule
    OBVIOUS
  <2>3. \A id \in 1 .. Len(rule) : now[id].kind = old[id].kind
    BY <2>1, <2>2, Consumption
  <2>4. AheadIn(now, f.active, f.at) = AheadIn(old, f.active, f.at)
    BY <2>1, <2>3, AheadSame
  <2> QED
    BY <2>2, <2>4
<1>2. f.at \in DOMAIN f.active /\ f.pc = "consume" /\ c = f.active[f.at]
  BY Consumption DEF Current
<1>3. f.at \notin AheadIn(rule, f.active, f.at)
  <2>1. f.at \in Nat /\ f.at # 0
    BY <1>2, PlanOf
  <2>2. Rank(rule[f.active[f.at]]) \in Nat
    BY DEF Rank
  <2> QED
    BY <2>1, <2>2 DEF AheadIn
<1>4. Past(f) = (DOMAIN f.active \ AheadIn(rule, f.active, f.at)) \ {f.at}
  BY <1>2 DEF Past
<1>5. \A j \in DOMAIN f.active : rule'[f.active[j]].kind = rule[f.active[j]].kind
  <2>1. \A j \in DOMAIN f.active : f.active[j] \in Ids
    BY PlanOf
  <2> QED
    BY <2>1, Consumption
<1>6. Past(f) \subseteq DOMAIN f.active
  BY DEF Past
<1>7. CASE g.pc = "remove"
  <2>1. Past(g)' = Past(f)
    BY <1>1, <1>4, <1>7 DEF Past
  <2> QED
    BY <1>5, <1>6, <1>7, <2>1 DEF Delayed
<1>8. CASE g.pc = "judge"
  <2>1. Past(g)' = DOMAIN f.active \ AheadIn(rule, f.active, f.at)
    BY <1>1, <1>8 DEF Past
  <2>2. Past(g)' = Past(f) \cup {f.at}
    BY <1>2, <1>3, <1>4, <2>1
  <2> QED
    BY <1>2, <1>5, <1>6, <1>8, <2>2 DEF Delayed
<1> QED
  BY <1>7, <1>8
\* The rule stays: the loops go on behind a latency.
LEMMA ConsumeStays ==
  ASSUME EngineInv, TypedInv, SeqInv, Ends, NEW t \in Threads, ConsumeStep(t),
         frame'[t].pc # "idle"
  PROVE  SeqInv' /\ atomic' = atomic
<1>0. PICK f, g, c : f = frame[t] /\ g = frame'[t] /\ c = Current(f)
  OBVIOUS
<1>1. PICK r : r = Spend(rule[c])
  OBVIOUS
<1>2. /\ Rest(t)
      /\ \/ /\ Exhausted(r)
            /\ g = Rec("remove", f.path, f.n, c, f.src, f.i, f.out, f.active, f.at)
         \/ ~Exhausted(r) /\ Resumed(g, f)
  BY <1>0, <1>1, ConsumeFrame DEF EngineInv
<1>3. /\ Evaluates(f) /\ f.pc = "consume" /\ f.src = Live /\ f.i = 0 /\ f.out = <<>>
      /\ f.at \in DOMAIN f.active /\ c \in Ids /\ c \in Members(f.active) /\ c \notin Delayed(f)
      /\ f.at \notin Past(f)
      /\ UNCHANGED <<rules, counts, granted, calls>> /\ Ids' = Ids
      /\ \A id \in Ids : /\ rule'[id].kind = rule[id].kind /\ rule'[id].after = rule[id].after
                         /\ rule'[id] = IF id = c THEN Spend(rule[id]) ELSE rule[id]
      /\ fired' = [id \in Ids |-> IF id \in Delayed(f) \cup {c}
                                   THEN atomic.fired[id] + 1 ELSE atomic.fired[id]]
      /\ \A q \in atomic.book :
           q.id \in Ids /\ rule'[q.id] = IF q.id \in Delayed(f) \cup {c} THEN Spend(q) ELSE q
  BY <1>0, Consumption
<1>4. Turn(t) /\ atomic' = atomic
  <2>1. Turn(t)
    BY <1>0, <1>2, <1>3 DEF Turn, Resting
  <2> QED
    BY <2>1, MidAtomic
<1>5. Counted(f.path)' /\ Members(f.active) = IdsIn(Active(atomic'.book, f.path))
  BY <1>3, <1>4 DEF Evaluates, Counted
<1>6. PICK D, X : D = Delayed(f) \cup {c} /\ X = Dropped(f)
  OBVIOUS
<1>7. Kept(D)'
  <2>1. granted = atomic.granted
    BY <1>3 DEF Evaluates, Kept
  <2> QED
    BY <1>3, <1>4, <1>6, <2>1 DEF Kept
<1>8. Listed(X)'
  BY <1>3, <1>4, <1>6, SameList DEF Evaluates
<1>9. \A j \in DOMAIN f.active, n \in {counts[f.path]} :
        /\ f.active[j] \in Ids /\ rule'[f.active[j]].kind = rule[f.active[j]].kind
        /\ Overlooked(rule[f.active[j]], n) <=> Overlooked(rule'[f.active[j]], n)
  <2>1. \A j \in DOMAIN f.active : f.active[j] \in Ids
    BY <1>0, PlanOf
  <2> QED
    BY <1>3, <2>1 DEF Overlooked, Exceeds
<1>10. c = f.active[f.at] /\ Delayed(f) \subseteq Ids
  BY <1>0, <1>9 DEF Current, Delayed, Past
<1>11. counts'[f.path] = counts[f.path] /\ Past(f) \subseteq DOMAIN f.active
  BY <1>3 DEF Past
<1>12. CASE Exhausted(r) /\ g = Rec("remove", f.path, f.n, c, f.src, f.i, f.out, f.active, f.at)
  <2>1. /\ g.pc = "remove" /\ g.path = f.path /\ g.victim = c /\ g.src = f.src /\ g.i = f.i
        /\ g.out = f.out /\ g.active = f.active /\ g.at = f.at
    BY <1>12 DEF Rec
  <2>2. Past(g)' = Past(f) /\ Delayed(g)' = Delayed(f)
    BY <1>0, <2>1, PastSpent
  <2>3. Dropped(g)' = X
    BY <1>3, <1>6, <1>10, <2>2 DEF Dropped
  <2>4. (Delayed(g) \cup (IF g.pc = "remove" THEN {g.victim} ELSE {}))' = D
    BY <1>6, <2>1, <2>2
  <2>5. Evaluates(g)'
    <3>1. Kept(Delayed(g) \cup (IF g.pc = "remove" THEN {g.victim} ELSE {}))'
      BY <1>7, <2>4
    <3>2. Listed(Dropped(g))'
      BY <1>8, <2>3
    <3>3. \A j \in Past(g)' : \/ rule'[g.active[j]].kind = "latency"
                             \/ Overlooked(rule'[g.active[j]], counts'[g.path])
      BY <1>3, <1>9, <1>11, <2>1, <2>2 DEF Evaluates
    <3>4. ~Overlooked(rule'[g.active[g.at]], counts'[g.path])
      BY <1>3, <1>9, <1>10, <1>11, <2>1 DEF Evaluates, Current
    <3> QED
      BY <1>5, <2>1, <3>1, <3>2, <3>3, <3>4 DEF Evaluates, Current
  <2>6. Copies(g)'
    <3>1. Len(rules') \in Nat /\ {rules'[k] : k \in 1 .. 0} = {} /\ Len(<<>>) = 0
      BY <1>3 DEF EngineInv, OrderInv
    <3> QED
      BY <1>3, <2>1, <3>1, MembersOfEmpty DEF Copies
  <2>7. g.victim = Current(g)' /\ Exhausted(rule'[g.victim]) /\ g.at # 0
    <3>1. f.at # 0
      BY <1>0, <1>3, PlanOf
    <3>2. rule'[c] = r
      BY <1>1, <1>3
    <3> QED
      BY <1>10, <1>12, <2>1, <3>1, <3>2 DEF Current
  <2>8. Stage(frame[t])'
    BY <1>0, <1>3, <2>1, <2>5, <2>6, <2>7 DEF Stage
  <2> QED
    BY <1>0, <1>3, <1>4, <2>1, <2>8, MidStep DEF SeqInv
<1>13. CASE ~Exhausted(r) /\ Resumed(g, f)
  <2>1. /\ rule[c].kind = "latency"
        /\ g = Rec("judge", f.path, f.n, NoRule, Live, 0, <<>>, f.active, f.at)
    BY <1>0, <1>13, IdleRec DEF Resumed, Rec
  <2>2. /\ g.pc = "judge" /\ g.path = f.path /\ g.src = Live /\ g.i = 0
        /\ g.active = f.active /\ g.at = f.at
    BY <2>1 DEF Rec
  <2>3. Past(g)' = Past(f) \cup {f.at} /\ Delayed(g)' = D
    BY <1>0, <1>6, <2>1, <2>2, PastSpent
  <2>4. Dropped(g)' = X
    BY <1>1, <1>3, <1>6, <1>10, <1>13, <2>3 DEF Dropped
  <2>5. Evaluates(g)'
    <3>1. (Delayed(g) \cup (IF g.pc = "remove" THEN {g.victim} ELSE {}))' = D
      BY <2>2, <2>3
    <3>2. Kept(Delayed(g) \cup (IF g.pc = "remove" THEN {g.victim} ELSE {}))'
      BY <1>7, <3>1
    <3>3. Listed(Dropped(g))'
      BY <1>8, <2>4
    <3>4. \A j \in Past(g)' : \/ rule'[g.active[j]].kind = "latency"
                             \/ Overlooked(rule'[g.active[j]], counts'[g.path])
      BY <1>3, <1>9, <1>10, <1>11, <2>1, <2>2, <2>3 DEF Evaluates
    <3> QED
      BY <1>5, <2>2, <3>2, <3>3, <3>4 DEF Evaluates
  <2>6. Stage(frame[t])'
    BY <1>0, <2>2, <2>5 DEF Stage
  <2> QED
    BY <1>0, <1>3, <1>4, <2>2, <2>6, MidStep DEF SeqInv
<1> QED
  BY <1>2, <1>12, <1>13
(***************************************************************************)
(* A removal, for a request or for a DELETE                                 *)
(***************************************************************************)
\* One more element is read.
LEMMA CopiesNext ==
  ASSUME EngineInv, NEW f, Copies(f), f.i < Len(rules), f.i \in Nat, f.out \in Seq(Ids),
         NEW x, x = rules[f.i + 1], NEW g, g.i = f.i + 1, g.victim = f.victim,
         g.out = IF x # f.victim THEN Append(f.out, x) ELSE f.out
  PROVE  Copies(g)
<1>1. /\ rules \in Seq(Ids) /\ Len(rules) \in Nat /\ Ascending(rules) /\ \A id \in Ids : id \in Nat
      /\ DOMAIN rules = 1 .. Len(rules)
  BY DEF EngineInv, OrderInv, Ids
<1>2. x \in Ids /\ f.i + 1 \in DOMAIN rules /\ \A k \in DOMAIN rules : rules[k] \in Nat
  BY <1>1
<1>3. PICK S : S = {rules[k] : k \in 1 .. f.i}
  OBVIOUS
<1>4. {rules[k] : k \in 1 .. f.i + 1} = S \cup {x}
  <2>1. \A n \in Nat : 1 .. n + 1 = (1 .. n) \cup {n + 1}
    OBVIOUS
  <2> QED
    BY <1>3, <2>1
<1>5. x \notin S
  <2>1. ASSUME NEW k \in 1 .. f.i  PROVE rules[k] # x
    <3>1. k \in DOMAIN rules /\ k < f.i + 1
      BY <1>1
    <3>2. rules[k] < x
      BY <1>1, <1>2, <3>1 DEF Ascending
    <3> QED
      BY <1>2, <3>1, <3>2
  <2> QED
    BY <1>3, <2>1
<1>6. Members(f.out) = S \ {f.victim} /\ Len(f.out) = IF f.victim \in S THEN f.i - 1 ELSE f.i
  BY <1>3 DEF Copies
<1>7. ASSUME Members(g.out) = (S \cup {x}) \ {f.victim},
             Len(g.out) = IF f.victim \in S \cup {x} THEN g.i - 1 ELSE g.i
      PROVE  Copies(g)
  <2>1. {rules[k] : k \in 1 .. g.i} = S \cup {x} /\ g.i <= Len(rules)
    BY <1>1, <1>4
  <2> QED
    BY <1>7, <2>1 DEF Copies
<1>8. CASE x = f.victim
  <2>1. Members(g.out) = (S \cup {x}) \ {f.victim}
    BY <1>6, <1>8
  <2>2. Len(g.out) = (f.i + 1) - 1
    BY <1>5, <1>6, <1>8
  <2> QED
    BY <1>8, <1>7, <2>1, <2>2
<1>9. CASE x # f.victim
  <2>1. Members(g.out) = Members(f.out) \cup {x} /\ Len(g.out) = Len(f.out) + 1
    BY <1>2, <1>9, MembersOfAppend
  <2>2. Members(g.out) = (S \cup {x}) \ {f.victim}
    BY <1>6, <1>9, <2>1
  <2>3. f.victim \in S \cup {x} <=> f.victim \in S
    BY <1>9
  <2>4. Len(g.out) = IF f.victim \in S \cup {x} THEN (f.i + 1) - 1 ELSE f.i + 1
    BY <1>6, <2>1, <2>3
  <2> QED
    BY <1>7, <2>2, <2>4
<1> QED
  BY <1>8, <1>9

\* The whole list is read.
LEMMA CopiesAll ==
  ASSUME EngineInv, NEW f, Copies(f), f.i \in Nat, f.i >= Len(rules)
  PROVE  /\ f.i = Len(rules) /\ Members(f.out) = Members(rules) \ {f.victim}
         /\ Len(f.out) # Len(rules) <=> f.victim \in Members(rules)
<1>1. rules \in Seq(Ids) /\ Len(rules) \in Nat /\ DOMAIN rules = 1 .. Len(rules)
  BY DEF EngineInv, OrderInv
<1>2. f.i = Len(rules)
  BY <1>1 DEF Copies
<1>3. Members(rules) = {rules[k] : k \in 1 .. f.i}
  BY <1>1, <1>2 DEF Members
<1>4. /\ Members(f.out) = Members(rules) \ {f.victim}
      /\ Len(f.out) = IF f.victim \in Members(rules) THEN f.i - 1 ELSE f.i
  BY <1>3 DEF Copies
<1>5. ASSUME f.victim \in Members(rules)  PROVE Len(f.out) # Len(rules)
  <2>1. PICK n : n = Len(rules) /\ n \in Nat
    BY <1>1
  <2>2. Len(f.out) = n - 1
    BY <1>2, <1>4, <1>5, <2>1
  <2> QED
    BY <2>1, <2>2
<1>6. ASSUME f.victim \notin Members(rules)  PROVE Len(f.out) = Len(rules)
  BY <1>2, <1>4, <1>6
<1> QED
  BY <1>2, <1>4, <1>5, <1>6

LEMMA RemoveStays ==
  ASSUME EngineInv, TypedInv, SeqInv, Ends, NEW t \in Threads, RemoveStep(t),
         frame'[t].pc # "idle"
  PROVE  SeqInv' /\ atomic' = atomic
<1>0. PICK f, g, x : f = frame[t] /\ g = frame'[t] /\ x = ListIn(f, rules)[f.i + 1]
  OBVIOUS
<1>1. /\ f.pc = "remove"
      /\ \/ /\ f.i < Len(ListIn(f, rules))
            /\ g = Rec("remove", f.path, f.n, f.victim, f.src, f.i + 1,
                       IF x # f.victim THEN Append(f.out, x) ELSE f.out, f.active, f.at)
            /\ Rest(t) /\ rules' = rules
         \/ /\ f.i >= Len(ListIn(f, rules)) /\ RestBut(t) /\ rules' = f.out
            /\ f.at = 0 => g = Idle
            /\ f.at # 0 => Resumed(g, f)
  BY <1>0, RemoveFrame DEF EngineInv
<1>2. UNCHANGED <<rule, counts, granted, fired, calls>>
  BY DEF RemoveStep
<1>3. /\ f.src = Live /\ Copies(f) /\ (f.at = 0 => Deletes(f))
      /\ f.at # 0 => Evaluates(f) /\ f.victim = Current(f) /\ Exhausted(rule[f.victim])
  BY <1>0, <1>1 DEF SeqInv, Stage
<1>4. ListIn(f, rules) = rules /\ f.i \in Nat /\ f.out \in Seq(Ids)
  BY <1>0, <1>3 DEF EngineInv, OrderInv, Reading, ListIn, Ids
<1>5. Turn(t) /\ atomic' = atomic
  <2>1. Turn(t)
    BY <1>0, <1>1 DEF Turn, Resting
  <2> QED
    BY <2>1, MidAtomic
<1>6. CASE /\ f.i < Len(rules) /\ Rest(t) /\ rules' = rules
           /\ g = Rec("remove", f.path, f.n, f.victim, f.src, f.i + 1,
                      IF x # f.victim THEN Append(f.out, x) ELSE f.out, f.active, f.at)
  <2>1. /\ g.pc = "remove" /\ g.path = f.path /\ g.n = f.n /\ g.victim = f.victim
        /\ g.src = f.src /\ g.i = f.i + 1 /\ g.active = f.active /\ g.at = f.at
        /\ g.out = IF x # f.victim THEN Append(f.out, x) ELSE f.out
    BY <1>6 DEF Rec
  <2>2. Copies(g)
    <3>1. Copies(f) /\ f.i < Len(rules) /\ f.i \in Nat /\ f.out \in Seq(Ids)
      BY <1>3, <1>4, <1>6
    <3>2. x = rules[f.i + 1]
      BY <1>0, <1>4
    <3>3. /\ g.i = f.i + 1 /\ g.victim = f.victim
          /\ g.out = IF x # f.victim THEN Append(f.out, x) ELSE f.out
      BY <2>1
    <3> QED
      BY <3>1, <3>2, <3>3, CopiesNext
  <2>3. Copies(g)'
    BY <1>6, <2>2 DEF Copies
  <2>4. f.at = 0 => Deletes(g)'
    <3>1. SUFFICES ASSUME f.at = 0  PROVE Deletes(g)'
      OBVIOUS
    <3>2. Untouched /\ f.n = Len(rules) /\ f.victim \in 1 .. MaxRules
      BY <1>3, <3>1 DEF Deletes
    <3>3. Untouched'
      BY <1>2, <1>5, <1>6, <3>2, SameBook, SameList DEF Untouched
    <3> QED
      BY <1>6, <2>1, <3>2, <3>3 DEF Deletes
  <2>5. f.at # 0 => Evaluates(frame[t])' /\ g.victim = Current(g) /\ Exhausted(rule[g.victim])
    <3>1. SUFFICES ASSUME f.at # 0
                   PROVE  Evaluates(frame[t])' /\ g.victim = Current(g) /\ Exhausted(rule[g.victim])
      OBVIOUS
    <3>2. Past(g) = Past(f) /\ Delayed(g) = Delayed(f) /\ Dropped(g) = Dropped(f)
      BY <1>1, <2>1 DEF Past, Delayed, Dropped
    <3>3. Current(g) = Current(f)
      BY <2>1 DEF Current
    <3>4. Evaluates(g)
      BY <1>1, <1>3, <2>1, <3>1, <3>2, <3>3 DEF Evaluates
    <3> QED
      BY <1>0, <1>2, <1>3, <1>5, <1>6, <2>1, <3>1, <3>3, <3>4, EvaluatesSame
  <2>6. Stage(frame[t])'
    <3>1. Current(g)' = Current(g)
      BY DEF Current
    <3> QED
      BY <1>0, <1>2, <1>3, <2>1, <2>3, <2>4, <2>5, <3>1 DEF Stage
  <2> QED
    BY <1>2, <1>5, <2>6, MidStep DEF SeqInv
<1>7. CASE /\ f.i >= Len(rules) /\ rules' = f.out
           /\ f.at = 0 => g = Idle
           /\ f.at # 0 => Resumed(g, f)
  <2>1. /\ f.at # 0 /\ rule[Current(f)].kind = "latency"
        /\ g = Rec("judge", f.path, f.n, NoRule, Live, 0, <<>>, f.active, f.at)
    BY <1>0, <1>7, IdleRec DEF Resumed, Rec
  <2>2. /\ g.pc = "judge" /\ g.path = f.path /\ g.src = Live /\ g.i = 0
        /\ g.active = f.active /\ g.at = f.at
    BY <2>1 DEF Rec
  <2>3. /\ Evaluates(f) /\ f.victim = Current(f) /\ Exhausted(rule[f.victim])
        /\ f.victim = f.active[f.at]
    BY <1>3, <2>1 DEF Current
  <2>4. Members(rules') = Members(rules) \ {f.victim}
    BY <1>3, <1>4, <1>7, CopiesAll
  <2>5. f.at \in DOMAIN f.active /\ f.at \notin AheadIn(rule, f.active, f.at)
    <3>1. f.at \in 0 .. Len(f.active) /\ f.active \in Seq(1 .. Len(rule))
      BY <1>0, PlanOf
    <3>2. f.at \in 1 .. Len(f.active) /\ DOMAIN f.active = 1 .. Len(f.active)
      BY <2>1, <3>1
    <3>3. Rank(rule[f.active[f.at]]) \in Nat
      BY DEF Rank
    <3> QED
      BY <3>2, <3>3 DEF AheadIn
  <2>6. Past(g) = Past(f) \cup {f.at}
    BY <1>1, <2>2, <2>5 DEF Past
  <2>7. Delayed(g) = Delayed(f) \cup {f.victim}
    BY <2>1, <2>2, <2>3, <2>6 DEF Delayed
  <2>8. Dropped(g) = Dropped(f) \cup {f.victim}
    BY <2>3, <2>7 DEF Dropped
  <2>9. Past(g)' = Past(g) /\ Delayed(g)' = Delayed(g) /\ Dropped(g)' = Dropped(g)
    BY <1>2 DEF Past, Delayed, Dropped, AheadIn
  <2>10. PICK D : D = Delayed(g)
    OBVIOUS
  <2>11. Kept(D) /\ Kept(D)'
    <3>1. Kept(D)
      BY <1>1, <2>3, <2>7, <2>10 DEF Evaluates
    <3> QED
      BY <1>2, <1>5, <3>1, SameBook
  <2>12. Evaluates(g)'
    <3>1. (Delayed(g) \cup (IF g.pc = "remove" THEN {g.victim} ELSE {}))' = D
      BY <2>2, <2>9, <2>10
    <3>2. Kept(Delayed(g) \cup (IF g.pc = "remove" THEN {g.victim} ELSE {}))'
      BY <2>11, <3>1
    <3>3. Listed(Dropped(g))'
      BY <1>5, <2>3, <2>4, <2>8, <2>9 DEF Evaluates, Listed
    <3>4. \A j \in Past(g)' : \/ rule'[g.active[j]].kind = "latency"
                             \/ Overlooked(rule'[g.active[j]], counts'[g.path])
      BY <1>2, <2>1, <2>2, <2>3, <2>6, <2>9 DEF Evaluates
    <3>5. Counted(g.path)' /\ Members(g.active)' = IdsIn(Active(atomic'.book, g.path))
      BY <1>2, <1>5, <2>2, <2>3 DEF Evaluates, Counted, Members
    <3> QED
      BY <2>2, <3>2, <3>3, <3>4, <3>5 DEF Evaluates
  <2>13. Stage(frame[t])'
    BY <1>0, <2>2, <2>12 DEF Stage
  <2> QED
    BY <1>0, <1>2, <1>5, <2>13, MidStep DEF SeqInv
<1> QED
  BY <1>1, <1>4, <1>6, <1>7
LEMMA DeleteStage ==
  ASSUME EngineInv, TypedInv, SeqInv, Ends, Quiescent, NEW t \in Threads, NEW id \in 1 .. MaxRules,
         DeleteCall(t, id)
  PROVE  SeqInv' /\ atomic' = atomic
<1>0. PICK g : g = frame'[t]
  OBVIOUS
<1>1. g = Rec("remove", "none", Len(rules), id, Live, 0, <<>>, <<>>, 0) /\ Turn(t)
  BY <1>0, DeleteFrame DEF EngineInv, Turn
<1>2. /\ g.pc = "remove" /\ g.victim = id /\ g.n = Len(rules) /\ g.src = Live /\ g.i = 0
      /\ g.out = <<>> /\ g.at = 0
  BY <1>1 DEF Rec
<1>3. atomic' = atomic
  BY <1>0, <1>1, <1>2, MidAtomic
<1>4. UNCHANGED <<rules, rule, counts, granted, fired>> /\ calls' = calls + 1
  BY DEF DeleteCall
<1>5. Untouched'
  BY <1>3, <1>4, SameBook, SameList DEF SeqInv, Untouched
<1>6. Deletes(g)'
  BY <1>2, <1>4, <1>5 DEF Deletes
<1>7. Copies(g)'
  <2>1. Len(rules') \in Nat /\ {rules'[k] : k \in 1 .. 0} = {} /\ Len(<<>>) = 0
    BY <1>4 DEF EngineInv, OrderInv
  <2> QED
    BY <1>2, <2>1, MembersOfEmpty DEF Copies
<1>8. Stage(frame[t])'
  BY <1>0, <1>2, <1>6, <1>7 DEF Stage
<1>9. \A p \in Path : counts'[p] <= calls'
  <2>1. calls \in Nat /\ \A q \in Path : counts[q] \in Nat
    BY BoundAssumption DEF EngineInv, CountInv, TypedInv, BookTyped
  <2> QED
    BY <1>4, <2>1 DEF SeqInv
<1> QED
  BY <1>0, <1>1, <1>2, <1>8, <1>9, MidStep

(***************************************************************************)
(* reset                                                                    *)
(***************************************************************************)
LEMMA ResetStarts ==
  ASSUME EngineInv, TypedInv, SeqInv, Ends, Quiescent, ResetCall
  PROVE  SeqInv' /\ atomic' = atomic
<1>0. PICK g : g = frame'[Loop] /\ Loop \in Threads
  BY DEF Threads
<1>1. g = Rec("reset_counts", "none", 0, NoRule, Live, 0, <<>>, <<>>, 0) /\ Turn(Loop)
  BY <1>0, ResetFrame DEF EngineInv, Turn, ResetCall
<1>2. g.pc = "reset_counts" /\ g.src = Live
  BY <1>1 DEF Rec
<1>3. atomic' = atomic
  BY <1>0, <1>1, <1>2, MidAtomic
<1>4. UNCHANGED <<rule, counts, granted, fired>> /\ calls' = calls + 1 /\ rules' = <<>>
  BY DEF ResetCall
<1>5. Kept({})'
  BY <1>3, <1>4, SameBook DEF SeqInv, Untouched
<1>6. Stage(frame[Loop])'
  BY <1>0, <1>2, <1>4, <1>5 DEF Stage
<1>7. \A p \in Path : counts'[p] <= calls'
  <2>1. calls \in Nat /\ \A q \in Path : counts[q] \in Nat
    BY BoundAssumption DEF EngineInv, CountInv, TypedInv, BookTyped
  <2> QED
    BY <1>4, <2>1 DEF SeqInv
<1> QED
  BY <1>0, <1>1, <1>2, <1>6, <1>7, MidStep

LEMMA ResetGoesOn ==
  ASSUME EngineInv, TypedInv, SeqInv, Ends, ResetCounts
  PROVE  SeqInv' /\ atomic' = atomic
<1>0. PICK g : g = frame'[Loop] /\ Loop \in Threads
  BY DEF Threads
<1>1. g = Rec("reset_add", "none", 0, NoRule, Live, 0, <<>>, <<>>, 0) /\ Turn(Loop)
  BY <1>0, ResetFrame DEF EngineInv, Turn, ResetCounts, Resting
<1>2. g.pc = "reset_add" /\ g.src = Live
  BY <1>1 DEF Rec
<1>3. atomic' = atomic
  BY <1>0, <1>1, <1>2, MidAtomic
<1>4. UNCHANGED <<rules, rule, granted, fired, calls>> /\ counts' = [p \in Path |-> 0]
  BY DEF ResetCounts
<1>5. Kept({}) /\ rules = <<>>
  BY <1>0 DEF SeqInv, Stage, ResetCounts
<1>6. Kept({})'
  BY <1>3, <1>4, <1>5, SameBook
<1>7. Stage(frame[Loop])'
  BY <1>0, <1>2, <1>4, <1>5, <1>6 DEF Stage
<1>8. \A p \in Path : counts'[p] <= calls'
  BY <1>4, BoundAssumption DEF TypedInv, BookTyped
<1> QED
  BY <1>0, <1>1, <1>2, <1>7, <1>8, MidStep
(***************************************************************************)
(* The last step of an operation is the step of the book                    *)
(***************************************************************************)
\* The rule book's words mean the same here.
LEMMA SameWords ==
  /\ \A B, p, n : Abstract!Answering(B, p, n) = Answering(B, p, n)
  /\ \A B, p, n : Abstract!Consumed(B, p, n) = Consumed(B, p, n)
  /\ \A B, S : Abstract!Consume(B, S) = Consume(B, S)
  /\ \A S : Abstract!IdsOf(S) = IdsIn(S)
  /\ \A id : Abstract!Baseline(id) = Baseline(id)
  /\ Abstract!NoRule = NoRule
<1>1. \A B, p : Abstract!Active(B, p) = Active(B, p)
  BY DEF Abstract!Active, Active
<1>2. \A r : Abstract!Rank(r) = Rank(r)
  BY DEF Abstract!Rank, Rank
<1>3. \A B, p, n : Abstract!Refusing(B, p, n) = Refusing(B, p, n)
  BY <1>1 DEF Abstract!Refusing, Refusing
<1>4. \A r, q : Abstract!Precedes(r, q) <=> Precedes(r, q)
  BY <1>2 DEF Abstract!Precedes, Precedes
<1>5. \A B, p, n : Abstract!Answering(B, p, n) = Answering(B, p, n)
  BY <1>3, <1>4 DEF Abstract!Answering, Answering
<1>6. \A S, k : Abstract!OfKind(S, k) = OfKind(S, k)
  BY DEF Abstract!OfKind, OfKind
<1>7. \A B, p, n : Abstract!Delaying(B, p, n) = Delaying(B, p, n)
  BY <1>1, <1>5, <1>6 DEF Abstract!Delaying, Delaying
<1>8. \A B, p, n : Abstract!Consumed(B, p, n) = Consumed(B, p, n)
  BY <1>5, <1>7 DEF Abstract!Consumed, Consumed
<1>9. \A r : Abstract!Renewed(r) = Renewed(r)
  BY DEF Abstract!Renewed, Renewed
<1>10. \A B, S : Abstract!Consume(B, S) = Consume(B, S)
  BY <1>9 DEF Abstract!Consume, Consume
<1>11. \A S : Abstract!IdsOf(S) = IdsIn(S)
  BY DEF Abstract!IdsOf, IdsIn
<1>12. \A id : Abstract!Baseline(id) = Baseline(id)
  BY DEF Abstract!Baseline, Baseline
<1> QED
  BY <1>5, <1>8, <1>10, <1>11, <1>12 DEF Abstract!NoRule, NoRule

LEMMA RequestEnds ==
  ASSUME EngineInv, TypedInv, SeqInv, EngineInv', TypedInv', Ends,
         NEW t \in Threads, Turn(t), frame'[t].pc = "idle",
         NEW p, Counted(p), granted = atomic.granted, UNCHANGED <<counts, granted, calls>>,
         NEW used, used = Consumed(atomic.book, p, counts[p]),
         NEW id, \/ Answering(atomic.book, p, counts[p]) = {} /\ id = NoRule
                 \/ \E a : Answering(atomic.book, p, counts[p]) = {a} /\ id = a.id /\ id # NoRule,
         Answer("request", p, id),
         fired' = [i \in Ids |-> IF i \in IdsIn(used) THEN atomic.fired[i] + 1 ELSE atomic.fired[i]],
         {rule'[rules'[i]] : i \in DOMAIN rules'} = Consume(atomic.book, used)
  PROVE  SeqInv' /\ Abstract!Request(p)
<1>1. /\ p \in Path /\ counts \in [Path -> Nat] /\ calls \in Nat /\ calls <= MaxCalls
      /\ counts[p] <= calls /\ atomic.counts \in [Path -> Nat]
  BY BoundAssumption DEF Counted, EngineInv, CountInv, TypedInv, BookTyped, SeqInv, AtomicTyped
<1>2. PICK n : n = counts[p] /\ n = atomic.counts[p] + 1 /\ atomic.counts[p] < MaxCalls
  <2>1. counts[p] = atomic.counts[p] + 1 /\ atomic.counts[p] \in Nat
    BY <1>1 DEF Counted
  <2> QED
    BY <1>1, <2>1, BoundAssumption
<1>3. \A q \in Path : counts'[q] <= calls'
  BY DEF SeqInv
<1>4. SeqInv' /\ atomic' = Finished(atomic)
  BY <1>3, LastStep
<1>5. /\ atomic'.book = Consume(atomic.book, used) /\ atomic'.granted = atomic.granted
      /\ atomic'.fired = fired' /\ atomic'.counts = counts /\ atomic'.reply = reply'
      /\ atomic'.passed = IF id = NoRule THEN [atomic.passed EXCEPT ![p] = @ + 1] ELSE atomic.passed
      /\ atomic'.baseline = atomic.baseline
  BY <1>4, FinishedAgrees DEF Agrees, Answer
<1>6. Abstract!Ids = Ids
  BY DEF Abstract!Ids, Ids, TypedInv, BookTyped
<1>7. atomic'.counts = [atomic.counts EXCEPT ![p] = n]
  BY <1>2, <1>5 DEF Counted
<1>8. PICK by : by = Answering(atomic.book, p, n)
  OBVIOUS
<1>9. \/ by = {} /\ id = NoRule
      \/ by # {} /\ id \in IdsIn(by) /\ id # NoRule
  BY <1>2, <1>8 DEF IdsIn
<1>10. used = Consumed(atomic.book, p, n)
  BY <1>2
<1>11. \E i \in IF by = {} THEN {NoRule} ELSE IdsIn(by) :
          atomic'.reply = [op |-> "request", path |-> p, by |-> i]
  BY <1>5, <1>9 DEF Answer
<1>12. atomic'.passed = IF by = {} THEN [atomic.passed EXCEPT ![p] = @ + 1] ELSE atomic.passed
  BY <1>5, <1>9
<1>13. /\ Abstract!Answering(atomic.book, p, atomic.counts[p] + 1) = by
       /\ Abstract!Consumed(atomic.book, p, atomic.counts[p] + 1) = used
       /\ Abstract!Consume(atomic.book, used) = Consume(atomic.book, used)
       /\ Abstract!IdsOf(used) = IdsIn(used) /\ Abstract!IdsOf(by) = IdsIn(by)
       /\ Abstract!NoRule = NoRule
  BY <1>2, <1>8, <1>10, SameWords
<1>14. atomic'.fired = [i \in Abstract!Ids |-> IF i \in IdsIn(used) THEN atomic.fired[i] + 1
                                                                 ELSE atomic.fired[i]]
  BY <1>5, <1>6
<1>15. Abstract!Request(p)
  <2>1. /\ atomic.counts[p] < MaxCalls
        /\ (atomic.counts)' = [atomic.counts EXCEPT ![p] = atomic.counts[p] + 1]
    BY <1>2, <1>7
  <2>2. (atomic.book)' = Abstract!Consume(atomic.book, Abstract!Consumed(atomic.book, p, atomic.counts[p] + 1))
    BY <1>5, <1>13
  <2>3. (atomic.fired)' = [i \in Abstract!Ids |->
           IF i \in Abstract!IdsOf(Abstract!Consumed(atomic.book, p, atomic.counts[p] + 1))
             THEN atomic.fired[i] + 1 ELSE atomic.fired[i]]
    BY <1>13, <1>14
  <2>4. (atomic.passed)' = IF Abstract!Answering(atomic.book, p, atomic.counts[p] + 1) = {}
                             THEN [atomic.passed EXCEPT ![p] = @ + 1] ELSE atomic.passed
    BY <1>12, <1>13
  <2>5. \E i \in IF Abstract!Answering(atomic.book, p, atomic.counts[p] + 1) = {}
                  THEN {Abstract!NoRule}
                  ELSE Abstract!IdsOf(Abstract!Answering(atomic.book, p, atomic.counts[p] + 1)) :
          (atomic.reply)' = [op |-> "request", path |-> p, by |-> i]
    BY <1>11, <1>13
  <2>6. UNCHANGED <<atomic.granted, atomic.baseline>>
    BY <1>5
  <2> QED
    BY <2>1, <2>2, <2>3, <2>4, <2>5, <2>6 DEF Abstract!Request
<1> QED
  BY <1>4, <1>15
\* What evaluate selected, in the list and in the book.
LEMMA Selected ==
  ASSUME EngineInv, TypedInv, SeqInv, NEW t \in Threads, NEW f, f = frame[t], Evaluates(f),
         NEW S, S = Active(atomic.book, f.path)
  PROVE  /\ S \subseteq atomic.book /\ atomic.book \subseteq Rule /\ OneRulePerId(atomic.book)
         /\ \A j \in DOMAIN f.active : \E r \in S : r.id = f.active[j]
         /\ \A r \in S : \E j \in DOMAIN f.active : r.id = f.active[j]
         /\ \A r \in atomic.book : rule[r.id].kind = r.kind /\ rule[r.id].after = r.after
<1>1. S \subseteq atomic.book /\ atomic.book \subseteq Rule /\ OneRulePerId(atomic.book)
  BY DEF SeqInv, AtomicTyped, Active
<1>2. Members(f.active) = IdsIn(S)
  BY DEF Evaluates
<1>3. PICK D : Kept(D)
  BY DEF Evaluates
<1>4. \A r \in atomic.book : rule[r.id] = r \/ rule[r.id] = Spend(r)
  BY <1>3 DEF Kept
<1>5. \A r \in atomic.book : rule[r.id].kind = r.kind /\ rule[r.id].after = r.after
  BY <1>1, <1>4, SpendIs
<1> QED
  BY <1>1, <1>2, <1>5 DEF Members, IdsIn

\* Nothing consumed: the histories and the rules are those of the book.
LEMMA NothingSpent ==
  ASSUME TypedInv, SeqInv, Kept({})
  PROVE  /\ fired = atomic.fired /\ granted = atomic.granted
         /\ \A r \in atomic.book : rule[r.id] = r
<1>1. /\ fired = [id \in Ids |-> atomic.fired[id]] /\ granted = atomic.granted
      /\ Ids = 1 .. Len(atomic.granted) /\ \A r \in atomic.book : rule[r.id] = r
  BY DEF Kept, TypedInv, BookTyped, Ids
<1>2. PICK s, m : /\ s = atomic.fired /\ m = Len(atomic.granted)
                  /\ s \in Seq(Nat) /\ Len(s) = m
  BY DEF SeqInv, AtomicTyped
<1>3. s = [id \in 1 .. m |-> s[id]]
  BY <1>2
<1> QED
  BY <1>1, <1>2, <1>3

\* A set of rules of the book, by the ids.
LEMMA ByIds ==
  ASSUME NEW book, OneRulePerId(book), NEW S \in SUBSET book, NEW D, IdsIn(S) = D
  PROVE  S = {r \in book : r.id \in D}
BY DEF IdsIn, OneRulePerId

LEMMA JudgeEnds ==
  ASSUME EngineInv, TypedInv, SeqInv, EngineInv', TypedInv', Ends, NEW t \in Threads, Judge(t),
         Ahead(frame[t]) = {}
  PROVE  SeqInv' /\ \E p \in Path : Abstract!Request(p)
<1>0. PICK f, p, n, S : /\ f = frame[t] /\ p = f.path /\ n = counts[p]
                        /\ S = Active(atomic.book, p)
  OBVIOUS
<1>1. /\ f.pc = "judge" /\ Rest(t) /\ frame'[t] = Idle /\ Answer("request", p, NoRule)
      /\ AheadIn(rule, f.active, f.at) = {}
  BY <1>0, JudgeFrame, AheadIs DEF EngineInv
<1>2. UNCHANGED <<rules, rule, counts, granted, fired, calls>>
  BY DEF Judge
<1>3. Evaluates(f) /\ Counted(p) /\ p \in Path
  BY <1>0, <1>1 DEF SeqInv, Stage, Evaluates, Counted
<1>4. PICK D : D = Delayed(f) /\ Kept(D) /\ Listed({id \in D : Exhausted(rule[id])})
  <2>1. Delayed(f) \cup {} = Delayed(f)
    OBVIOUS
  <2>2. Kept(Delayed(f)) /\ Listed(Dropped(f))
    BY <1>1, <1>3, <2>1 DEF Evaluates
  <2> QED
    BY <2>2 DEF Dropped
<1>5. Past(f) = DOMAIN f.active
  BY <1>1 DEF Past
<1>6. /\ S \subseteq atomic.book /\ atomic.book \subseteq Rule /\ OneRulePerId(atomic.book)
      /\ \A j \in DOMAIN f.active : \E r \in S : r.id = f.active[j]
      /\ \A r \in S : \E j \in DOMAIN f.active : r.id = f.active[j]
      /\ \A r \in atomic.book : rule[r.id].kind = r.kind /\ rule[r.id].after = r.after
  BY <1>0, <1>3, Selected
<1>7. \A r \in S : r.kind = "latency" \/ (r.kind = "rate_limit" /\ ~(n > r.after))
  <2> SUFFICES ASSUME NEW r \in S
               PROVE  r.kind = "latency" \/ (r.kind = "rate_limit" /\ ~(n > r.after))
    OBVIOUS
  <2>1. PICK j \in DOMAIN f.active : r.id = f.active[j]
    BY <1>6
  <2>2. rule[r.id].kind = "latency" \/ Overlooked(rule[r.id], n)
    BY <1>0, <1>3, <1>5, <2>1 DEF Evaluates
  <2> QED
    BY <1>6, <2>2 DEF Overlooked, Exceeds
<1>8. PICK used : used = Consumed(atomic.book, p, n)
  OBVIOUS
<1>9. Answering(atomic.book, p, n) = {} /\ used = OfKind(S, "latency")
  BY <1>0, <1>7, <1>8, NothingRefuses
<1>10. IdsIn(used) = D
  BY <1>4, <1>5, <1>6, <1>9 DEF IdsIn, OfKind, Delayed
<1>11. used = {r \in atomic.book : r.id \in D}
  <2>1. used \in SUBSET atomic.book
    BY <1>6, <1>9 DEF OfKind
  <2> QED
    BY <1>6, <1>10, <2>1, ByIds
<1>12. {rule[id] : id \in Members(rules)} = Consume(atomic.book, used)
  <2>1. Evaluated(atomic.book, D, rule, Members(rules))
    BY <1>4, <1>6 DEF Kept, Listed, Evaluated
  <2>2. PICK rl, B, ids : rl = rule /\ B = atomic.book /\ ids = Members(rules)
    OBVIOUS
  <2>3. {rl[id] : id \in ids} = Consume(B, {r \in B : r.id \in D})
    BY <2>1, <2>2, BookAfter
  <2> QED
    BY <1>11, <2>2, <2>3
<1>13. {rule'[rules'[i]] : i \in DOMAIN rules'} = Consume(atomic.book, used)
  BY <1>2, <1>12 DEF Members
<1>14. fired' = [i \in Ids |-> IF i \in IdsIn(used) THEN atomic.fired[i] + 1 ELSE atomic.fired[i]]
  BY <1>2, <1>4, <1>10 DEF Kept
<1>15. granted = atomic.granted
  BY <1>4 DEF Kept
<1>16. Turn(t) /\ frame'[t].pc = "idle"
  BY <1>0, <1>1, IdleRests DEF Turn, Resting
<1> QED
  BY <1>0, <1>1, <1>2, <1>3, <1>8, <1>9, <1>13, <1>14, <1>15, <1>16, RequestEnds
\* A rule that refuses is in turn: it answers, and what has been consumed by then
\* is what the book would consume.
LEMMA Verdict ==
  ASSUME EngineInv, TypedInv, SeqInv, NEW t \in Threads, NEW f, f = frame[t], Evaluates(f),
         f.pc \in {"consume", "remove"}, f.at # 0, NEW c, c = Current(f), rule[c].kind # "latency",
         NEW p, p = f.path, NEW n, n = counts[p],
         NEW used, used = Consumed(atomic.book, p, n)
  PROVE  /\ \E a : Answering(atomic.book, p, n) = {a} /\ c = a.id /\ c # NoRule
         /\ IdsIn(used) = Delayed(f) \cup {c}
         /\ used = {r \in atomic.book : r.id \in Delayed(f) \cup {c}}
<1>1. PICK S, B : S = Active(atomic.book, p) /\ B = atomic.book
  OBVIOUS
<1>2. /\ S \subseteq B /\ B \subseteq Rule /\ OneRulePerId(B)
      /\ \A j \in DOMAIN f.active : \E r \in S : r.id = f.active[j]
      /\ \A r \in S : \E j \in DOMAIN f.active : r.id = f.active[j]
      /\ \A r \in B : rule[r.id].kind = r.kind /\ rule[r.id].after = r.after
  BY <1>1, Selected
<1>3. /\ f.active \in Seq(1 .. Len(rule)) /\ Ascending(f.active)
      /\ f.at \in DOMAIN f.active /\ c = f.active[f.at]
      /\ \A j \in DOMAIN f.active : j \in Nat /\ f.active[j] \in Nat
  <2>1. f.active \in Seq(1 .. Len(rule)) /\ Ascending(f.active) /\ f.at \in 0 .. Len(f.active)
    BY PlanOf
  <2> QED
    BY <2>1 DEF Current
<1>4. PICK a \in S : a.id = c
  BY <1>2, <1>3
<1>5. /\ a.kind = rule[c].kind /\ a.kind # "latency" /\ a \in Rule /\ c \in Nat /\ c # NoRule
      /\ a.kind = "rate_limit" => n > a.after
  <2>1. ~Overlooked(rule[c], n)
    BY DEF Evaluates
  <2>2. a \in Rule /\ a.kind = rule[c].kind /\ a.after = rule[c].after
    BY <1>2, <1>4
  <2>3. a.id \in Nat \ {0}
    BY <2>2 DEF Rule
  <2> QED
    BY <1>4, <2>1, <2>2, <2>3 DEF Overlooked, Exceeds, NoRule
<1>6. /\ Past(f) = (DOMAIN f.active \ AheadIn(rule, f.active, f.at)) \ {f.at}
      /\ \A j \in DOMAIN f.active : j \in AheadIn(rule, f.active, f.at) <=>
           \/ Rank(rule[c]) < Rank(rule[f.active[j]])
           \/ Rank(rule[c]) = Rank(rule[f.active[j]]) /\ f.at < j
  <2>1. "consume" # "judge" /\ "remove" # "judge"
    OBVIOUS
  <2> QED
    BY <1>3, <2>1 DEF Past, AheadIn
<1>7. \A r \in S : Rank(rule[r.id]) = Rank(r) /\ Rank(r) \in Nat
  BY <1>2 DEF Rank
<1>8. \A r \in S : \/ r = a \/ Precedes(a, r)
                   \/ r.kind = "latency"
                   \/ r.kind = "rate_limit" /\ ~(n > r.after)
  <2> SUFFICES ASSUME NEW r \in S
               PROVE  \/ r = a \/ Precedes(a, r)
                      \/ r.kind = "latency"
                      \/ r.kind = "rate_limit" /\ ~(n > r.after)
    OBVIOUS
  <2>1. PICK j \in DOMAIN f.active : r.id = f.active[j]
    BY <1>2
  <2>2. CASE j = f.at
    BY <1>2, <1>3, <1>4, <2>1, <2>2 DEF OneRulePerId
  <2>3. CASE j \in Past(f)
    <3>1. rule[r.id].kind = "latency" \/ Overlooked(rule[r.id], n)
      BY <2>1, <2>3 DEF Evaluates
    <3> QED
      BY <1>2, <3>1 DEF Overlooked, Exceeds
  <2>4. CASE j \in AheadIn(rule, f.active, f.at)
    <3>1. f.at < j => f.active[f.at] < f.active[j]
      BY <1>3 DEF Ascending
    <3>2. Rank(a) < Rank(r) \/ (Rank(a) = Rank(r) /\ a.id < r.id)
      BY <1>3, <1>4, <1>6, <1>7, <2>1, <2>4, <3>1
    <3>3. a.id \in Nat /\ r.id \in Nat
      BY <1>3, <1>4, <1>5, <2>1
    <3> QED
      BY <3>2, <3>3 DEF Precedes
  <2> QED
    BY <1>6, <2>2, <2>3, <2>4
<1>9. /\ Answering(B, p, n) = {a}
      /\ used = {a} \cup (IF a.kind = "auth_reject" THEN {} ELSE OfKind(S, "latency"))
  <2>1. /\ a \in Active(B, p) /\ B \subseteq Rule /\ OneRulePerId(B)
        /\ a.kind # "latency" /\ (a.kind = "rate_limit" => n > a.after)
    BY <1>1, <1>2, <1>5
  <2>2. \A r \in Active(B, p) : \/ r = a \/ Precedes(a, r)
                                \/ r.kind = "latency"
                                \/ r.kind = "rate_limit" /\ ~(n > r.after)
    BY <1>1, <1>8
  <2>3. /\ Answering(B, p, n) = {a}
        /\ Consumed(B, p, n) =
             {a} \cup (IF a.kind = "auth_reject" THEN {} ELSE OfKind(Active(B, p), "latency"))
    BY <2>1, <2>2, OneRefuses
  <2> QED
    BY <1>1, <2>3
<1>10. \A r \in S, j \in DOMAIN f.active : r.id = f.active[j] /\ r.kind = "latency" =>
         (j \in Past(f) <=> a.kind # "auth_reject")
  <2> SUFFICES ASSUME NEW r \in S, NEW j \in DOMAIN f.active, r.id = f.active[j], r.kind = "latency"
               PROVE  j \in Past(f) <=> a.kind # "auth_reject"
    OBVIOUS
  <2>1. Rank(rule[f.active[j]]) = 2
    BY <1>7 DEF Rank
  <2>2. j # f.at
    <3>1. j = f.at => r.id = a.id
      BY <1>3, <1>4
    <3>2. r \in B /\ a \in B
      BY <1>2
    <3> QED
      BY <1>2, <1>5, <3>1, <3>2 DEF OneRulePerId
  <2>3. CASE a.kind = "auth_reject"
    <3>1. Rank(rule[c]) = 1
      BY <1>5, <2>3 DEF Rank
    <3> QED
      BY <1>6, <2>1, <2>3, <3>1
  <2>4. CASE a.kind # "auth_reject"
    <3>1. Rank(rule[c]) \in {3, 4, 5}
      BY <1>5, <2>4 DEF Rank
    <3> QED
      BY <1>6, <2>1, <2>2, <2>4, <3>1
  <2> QED
    BY <2>3, <2>4
<1>11. Past(f) \subseteq DOMAIN f.active
  BY <1>6
<1>12. Delayed(f) = IdsIn(IF a.kind = "auth_reject" THEN {} ELSE OfKind(S, "latency"))
  <2>1. ASSUME NEW id \in Delayed(f)
        PROVE  a.kind # "auth_reject" /\ \E r \in OfKind(S, "latency") : r.id = id
    <3>1. PICK j \in Past(f) : id = f.active[j] /\ rule[id].kind = "latency"
      BY DEF Delayed
    <3>2. PICK r \in S : r.id = id
      BY <1>2, <1>11, <3>1
    <3>3. r.kind = "latency"
      BY <1>2, <3>1, <3>2
    <3> QED
      BY <1>10, <1>11, <3>1, <3>2, <3>3 DEF OfKind
  <2>2. ASSUME NEW r \in OfKind(S, "latency"), a.kind # "auth_reject"
        PROVE  r.id \in Delayed(f)
    <3>1. r \in S /\ r.kind = "latency"
      BY DEF OfKind
    <3>2. PICK j \in DOMAIN f.active : r.id = f.active[j]
      BY <1>2, <3>1
    <3>3. j \in Past(f) /\ rule[f.active[j]].kind = "latency"
      BY <1>2, <1>10, <2>2, <3>1, <3>2
    <3> QED
      BY <3>2, <3>3 DEF Delayed
  <2>3. CASE a.kind = "auth_reject"
    BY <2>1, <2>3 DEF IdsIn
  <2>4. CASE a.kind # "auth_reject"
    BY <2>1, <2>2, <2>4 DEF IdsIn
  <2> QED
    BY <2>3, <2>4
<1>13. IdsIn(used) = Delayed(f) \cup {c}
  BY <1>4, <1>9, <1>12 DEF IdsIn
<1>14. used \in SUBSET B
  BY <1>2, <1>9 DEF OfKind
<1>15. used = {r \in B : r.id \in Delayed(f) \cup {c}}
  BY <1>2, <1>13, <1>14, ByIds
<1> QED
  BY <1>1, <1>4, <1>5, <1>9, <1>13, <1>15
LEMMA ConsumeEnds ==
  ASSUME EngineInv, TypedInv, SeqInv, EngineInv', TypedInv', Ends, NEW t \in Threads,
         ConsumeStep(t), frame'[t].pc = "idle"
  PROVE  SeqInv' /\ \E p \in Path : Abstract!Request(p)
<1>0. PICK f, g, c, p, n, B : /\ f = frame[t] /\ g = frame'[t] /\ c = Current(f) /\ p = f.path
                              /\ n = counts[p] /\ B = atomic.book
  OBVIOUS
<1>1. PICK r : r = Spend(rule[c])
  OBVIOUS
<1>2. Rest(t) /\ ~Exhausted(r) /\ Resumed(g, f)
  <2>1. /\ Rest(t)
        /\ \/ g = Rec("remove", f.path, f.n, c, f.src, f.i, f.out, f.active, f.at)
           \/ ~Exhausted(r) /\ Resumed(g, f)
    BY <1>0, <1>1, ConsumeFrame DEF EngineInv
  <2> QED
    BY <1>0, <2>1 DEF Rec
<1>3. rule[c].kind # "latency" /\ Answer("request", p, c)
  BY <1>0, <1>2 DEF Resumed, Rec
<1>4. /\ Evaluates(f) /\ f.pc = "consume" /\ f.at \in DOMAIN f.active /\ c \in Ids /\ c \notin Delayed(f)
      /\ UNCHANGED <<rules, counts, granted, calls>>
      /\ \A id \in Ids : rule'[id] = IF id = c THEN Spend(rule[id]) ELSE rule[id]
      /\ fired' = [id \in Ids |-> IF id \in Delayed(f) \cup {c}
                                   THEN atomic.fired[id] + 1 ELSE atomic.fired[id]]
      /\ \A q \in B :
           q.id \in Ids /\ rule'[q.id] = IF q.id \in Delayed(f) \cup {c} THEN Spend(q) ELSE q
  BY <1>0, Consumption
<1>5. f.at # 0
  BY <1>0, <1>4, PlanOf
<1>6. PICK used : used = Consumed(B, p, n)
  OBVIOUS
<1>7. PICK D : D = Delayed(f) \cup {c}
  OBVIOUS
<1>8. /\ \E a : Answering(B, p, n) = {a} /\ c = a.id /\ c # NoRule
      /\ IdsIn(used) = D /\ used = {q \in B : q.id \in D}
  BY <1>0, <1>3, <1>4, <1>5, <1>6, <1>7, Verdict
<1>9. Evaluated(B, D, rule', Members(rules))
  <2>1. Delayed(f) \subseteq Ids
    <3>1. \A j \in DOMAIN f.active : f.active[j] \in Ids
      BY <1>0, PlanOf
    <3> QED
      BY <3>1 DEF Delayed, Past
  <2>2. {id \in D : Exhausted(rule'[id])} = Dropped(f)
    <3>1. ~Exhausted(rule'[c])
      BY <1>1, <1>2, <1>4
    <3>2. \A id \in Delayed(f) : rule'[id] = rule[id]
      BY <1>4, <2>1
    <3> QED
      BY <1>7, <3>1, <3>2 DEF Dropped
  <2>3. Members(rules) = IdsIn(B) \ {id \in D : Exhausted(rule'[id])}
    BY <1>0, <1>4, <2>2 DEF Evaluates, Listed
  <2>4. B \subseteq Rule
    BY <1>0 DEF SeqInv, AtomicTyped
  <2> QED
    BY <1>4, <1>7, <2>3, <2>4 DEF Evaluated
<1>10. {rule'[rules'[i]] : i \in DOMAIN rules'} = Consume(B, used)
  <2>1. PICK rl, ids : rl = rule' /\ ids = Members(rules)
    OBVIOUS
  <2>2. {rl[id] : id \in ids} = Consume(B, {q \in B : q.id \in D})
    BY <1>9, <2>1, BookAfter
  <2>3. {rule'[rules'[i]] : i \in DOMAIN rules'} = {rl[id] : id \in ids}
    BY <1>4, <2>1 DEF Members
  <2> QED
    BY <1>8, <2>2, <2>3
<1>11. Turn(t)
  BY <1>0, <1>2, <1>4 DEF Turn, Resting
<1>12. granted = atomic.granted /\ Counted(p)
  BY <1>0, <1>4 DEF Evaluates, Kept
<1>13. fired' = [id \in Ids |-> IF id \in IdsIn(used) THEN atomic.fired[id] + 1 ELSE atomic.fired[id]]
  BY <1>4, <1>7, <1>8
<1>14. SeqInv' /\ Abstract!Request(p)
  <2>1. /\ used = Consumed(atomic.book, p, counts[p])
        /\ \E a : Answering(atomic.book, p, counts[p]) = {a} /\ c = a.id /\ c # NoRule
        /\ {rule'[rules'[i]] : i \in DOMAIN rules'} = Consume(atomic.book, used)
    BY <1>0, <1>6, <1>8, <1>10
  <2>2. UNCHANGED <<counts, granted, calls>> /\ frame'[t].pc = "idle"
    BY <1>4
  <2> QED
    BY <1>3, <1>11, <1>12, <1>13, <2>1, <2>2, RequestEnds
<1> QED
  BY <1>12, <1>14 DEF Counted

LEMMA RemoveEnds ==
  ASSUME EngineInv, TypedInv, SeqInv, EngineInv', TypedInv', Ends, NEW t \in Threads,
         RemoveStep(t), frame'[t].pc = "idle"
  PROVE  SeqInv' /\ ((\E p \in Path : Abstract!Request(p)) \/ \E id \in 1 .. MaxRules : Abstract!Delete(id))
<1>0. PICK f, g, c, p, n, B : /\ f = frame[t] /\ g = frame'[t] /\ c = f.victim /\ p = f.path
                              /\ n = counts[p] /\ B = atomic.book
  OBVIOUS
<1>1. PICK x : x = ListIn(f, rules)[f.i + 1]
  OBVIOUS
<1>2. /\ f.pc = "remove" /\ f.i >= Len(ListIn(f, rules)) /\ RestBut(t) /\ rules' = f.out
      /\ IF f.at = 0
           THEN Answer(IF Len(f.out) # f.n THEN "deleted" ELSE "unknown", "none", f.victim)
           ELSE Resumed(g, f)
  <2>1. /\ f.pc = "remove"
        /\ \/ g = Rec("remove", f.path, f.n, f.victim, f.src, f.i + 1,
                      IF x # f.victim THEN Append(f.out, x) ELSE f.out, f.active, f.at)
           \/ /\ f.i >= Len(ListIn(f, rules)) /\ RestBut(t) /\ rules' = f.out
              /\ f.at = 0 => Answer(IF Len(f.out) # f.n THEN "deleted" ELSE "unknown",
                                     "none", f.victim)
              /\ f.at # 0 => Resumed(g, f)
    BY <1>0, <1>1, RemoveFrame DEF EngineInv
  <2> QED
    BY <1>0, <2>1 DEF Rec
<1>3. UNCHANGED <<rule, counts, granted, fired, calls>> /\ Ids' = Ids
  BY DEF RemoveStep, Ids
<1>4. /\ f.src = Live /\ Copies(f) /\ (f.at = 0 => Deletes(f))
      /\ f.at # 0 => Evaluates(f) /\ c = Current(f) /\ Exhausted(rule[c])
  BY <1>0, <1>2 DEF SeqInv, Stage
<1>5. f.i \in Nat /\ f.i >= Len(rules)
  BY <1>0, <1>2, <1>4 DEF EngineInv, OrderInv, Reading, ListIn
<1>6. /\ Members(rules') = Members(rules) \ {c}
      /\ Len(f.out) # Len(rules) <=> c \in Members(rules)
  BY <1>0, <1>2, <1>4, <1>5, CopiesAll
<1>7. Turn(t)
  BY <1>0, <1>2 DEF Turn, Resting
<1>8. \A q \in Path : counts'[q] <= calls'
  BY <1>3 DEF SeqInv
<1>9. CASE f.at # 0
  <2>1. rule[c].kind # "latency" /\ Answer("request", p, c)
    BY <1>0, <1>2, <1>4, <1>9 DEF Resumed, Rec
  <2>2. PICK used, D : used = Consumed(B, p, n) /\ D = Delayed(f) \cup {c}
    OBVIOUS
  <2>3. /\ \E a : Answering(B, p, n) = {a} /\ c = a.id /\ c # NoRule
        /\ IdsIn(used) = D /\ used = {q \in B : q.id \in D}
    <3>1. /\ Evaluates(f) /\ f.pc \in {"consume", "remove"} /\ c = Current(f)
          /\ rule[c].kind # "latency" /\ used = Consumed(atomic.book, p, n)
      BY <1>0, <1>2, <1>4, <1>9, <2>1, <2>2
    <3> QED
      BY <1>0, <1>9, <2>2, <3>1, Verdict
  <2>4. Kept(D) /\ Listed(Dropped(f)) /\ Counted(p)
    BY <1>0, <1>2, <1>4, <1>9, <2>2 DEF Evaluates
  <2>5. Evaluated(B, D, rule', Members(rules'))
    <3>1. {id \in D : Exhausted(rule[id])} = Dropped(f) \cup {c}
      BY <1>4, <1>9, <2>2 DEF Dropped
    <3>2. Members(rules') = IdsIn(B) \ {id \in D : Exhausted(rule'[id])}
      BY <1>0, <1>3, <1>6, <2>4, <3>1 DEF Listed
    <3>3. B \subseteq Rule /\ \A q \in B : rule'[q.id] = IF q.id \in D THEN Spend(q) ELSE q
      BY <1>0, <1>3, <2>4 DEF SeqInv, AtomicTyped, Kept
    <3> QED
      BY <3>2, <3>3 DEF Evaluated
  <2>6. {rule'[rules'[i]] : i \in DOMAIN rules'} = Consume(B, used)
    <3>1. PICK rl, ids : rl = rule' /\ ids = Members(rules')
      OBVIOUS
    <3>2. {rl[id] : id \in ids} = Consume(B, {q \in B : q.id \in D})
      BY <2>5, <3>1, BookAfter
    <3>3. {rule'[rules'[i]] : i \in DOMAIN rules'} = {rl[id] : id \in ids}
      BY <3>1 DEF Members
    <3> QED
      BY <2>3, <3>2, <3>3
  <2>7. fired' = [id \in Ids |-> IF id \in IdsIn(used) THEN atomic.fired[id] + 1 ELSE atomic.fired[id]]
    BY <1>3, <2>3, <2>4 DEF Kept
  <2>8. granted = atomic.granted /\ p \in Path
    BY <2>4 DEF Kept, Counted
  <2>9. SeqInv' /\ Abstract!Request(p)
    <3>1. /\ used = Consumed(atomic.book, p, counts[p])
          /\ \E a : Answering(atomic.book, p, counts[p]) = {a} /\ c = a.id /\ c # NoRule
          /\ {rule'[rules'[i]] : i \in DOMAIN rules'} = Consume(atomic.book, used)
      BY <1>0, <2>2, <2>3, <2>6
    <3> QED
      BY <1>3, <1>7, <2>1, <2>4, <2>7, <2>8, <3>1, RequestEnds
  <2> QED
    BY <2>8, <2>9
<1>10. CASE f.at = 0
  <2>1. Untouched /\ f.n = Len(rules) /\ c \in 1 .. MaxRules
    BY <1>0, <1>4, <1>10 DEF Deletes
  <2>2. SeqInv' /\ atomic' = Finished(atomic)
    BY <1>0, <1>7, <1>8, LastStep
  <2>3. Kept({}) /\ Members(rules) = IdsIn(B) /\ counts = atomic.counts
    BY <1>0, <2>1 DEF Untouched, Listed
  <2>4. PICK op : /\ op = IF c \in IdsIn(B) THEN "deleted" ELSE "unknown"
                  /\ reply' = [op |-> op, path |-> "none", by |-> c]
    BY <1>0, <1>2, <1>6, <1>10, <2>1, <2>3 DEF Answer
  <2>5. op # "reset" /\ op # "request"
    BY <2>4
  <2>6. /\ atomic'.book = {rule'[rules'[i]] : i \in DOMAIN rules'} /\ atomic'.granted = granted'
        /\ atomic'.fired = fired' /\ atomic'.counts = counts' /\ atomic'.reply = reply'
        /\ atomic'.passed = atomic.passed /\ atomic'.baseline = atomic.baseline
    BY <2>2, <2>4, <2>5, FinishedAgrees DEF Agrees
  <2>7. atomic'.book = {q \in B : q.id # c}
    <3>1. atomic'.book = {rule[id] : id \in Members(rules) \ {c}}
      BY <1>3, <1>6, <2>6, ZenonT(60) DEF Members
    <3>2. \A q \in B : rule[q.id] = q
      BY <1>0, <2>3, NothingSpent
    <3> QED
      BY <2>3, <3>1, <3>2 DEF IdsIn
  <2>8. atomic'.granted = atomic.granted /\ atomic'.counts = atomic.counts
    BY <1>3, <2>3, <2>6 DEF Kept
  <2>9. atomic'.fired = atomic.fired
    BY <1>3, <2>3, <2>6, NothingSpent
  <2>10. Abstract!Delete(c)
    BY <1>0, <2>4, <2>6, <2>7, <2>8, <2>9, SameWords DEF Abstract!Delete
  <2> QED
    BY <2>1, <2>2, <2>10
<1> QED
  BY <1>9, <1>10
\* The last step of an operation that consumes nothing.
LEMMA QuietEnds ==
  ASSUME EngineInv, TypedInv, SeqInv, EngineInv', TypedInv', Ends, NEW t \in Threads, Turn(t),
         frame'[t].pc = "idle", \A p \in Path : counts'[p] <= calls',
         NEW op, op # "request", op # "reset", NEW id, Answer(op, "none", id)
  PROVE  /\ SeqInv' /\ atomic'.book = {rule'[rules'[i]] : i \in DOMAIN rules'}
         /\ atomic'.granted = granted' /\ atomic'.fired = fired' /\ atomic'.counts = counts'
         /\ atomic'.reply = [op |-> op, path |-> "none", by |-> id]
         /\ atomic'.passed = atomic.passed /\ atomic'.baseline = atomic.baseline
<1>1. SeqInv' /\ atomic' = Finished(atomic)
  BY LastStep
<1> QED
  BY <1>1, FinishedAgrees DEF Agrees, Answer

LEMMA CallsGrow ==
  ASSUME EngineInv, TypedInv, SeqInv, counts' = counts, calls' = calls + 1
  PROVE  \A p \in Path : counts'[p] <= calls'
<1>1. calls \in Nat /\ \A q \in Path : counts[q] \in Nat
  BY BoundAssumption DEF EngineInv, CountInv, TypedInv, BookTyped
<1> QED
  BY <1>1 DEF SeqInv

LEMMA ClearEnds ==
  ASSUME EngineInv, TypedInv, SeqInv, EngineInv', TypedInv', Ends, Quiescent, NEW t \in Threads,
         ClearCall(t)
  PROVE  SeqInv' /\ Abstract!Clear
<1>1. /\ rules' = <<>> /\ calls' = calls + 1 /\ Answer("clear", "none", NoRule)
      /\ UNCHANGED <<rule, counts, frame, granted, fired>>
  BY DEF ClearCall
<1>2. Turn(t) /\ frame'[t].pc = "idle"
  BY <1>1 DEF Turn, Rest, Quiescent, Resting
<1>3. \A p \in Path : counts'[p] <= calls'
  BY <1>1, CallsGrow
<1>4. /\ SeqInv' /\ atomic'.book = {rule'[rules'[i]] : i \in DOMAIN rules'}
      /\ atomic'.granted = granted' /\ atomic'.fired = fired' /\ atomic'.counts = counts'
      /\ atomic'.reply = [op |-> "clear", path |-> "none", by |-> NoRule]
      /\ atomic'.passed = atomic.passed /\ atomic'.baseline = atomic.baseline
  BY <1>1, <1>2, <1>3, QuietEnds
<1>5. atomic'.book = {}
  BY <1>1, <1>4
<1>6. Kept({}) /\ counts = atomic.counts
  BY DEF SeqInv, Untouched
<1>7. Abstract!Clear
  BY <1>1, <1>4, <1>5, <1>6, NothingSpent, SameWords DEF Abstract!Clear
<1> QED
  BY <1>4, <1>7

\* The list as a book, and with one rule more.
LEMMA BookIs ==
  ASSUME Kept({}), Listed({})
  PROVE  {rule[rules[i]] : i \in DOMAIN rules} = atomic.book
<1>1. {rule[rules[i]] : i \in DOMAIN rules} = {rule[id] : id \in Members(rules)}
  BY DEF Members
<1>2. Members(rules) = IdsIn(atomic.book) /\ \A r \in atomic.book : rule[r.id] = r
  BY DEF Kept, Listed
<1>3. PICK B, rl : B = atomic.book /\ rl = rule
  OBVIOUS
<1>4. {rl[id] : id \in IdsIn(B)} = {rl[r.id] : r \in B}
  BY DEF IdsIn
<1>5. {rl[r.id] : r \in B} = B
  BY <1>2, <1>3
<1> QED
  BY <1>1, <1>2, <1>3, <1>4, <1>5

LEMMA BookGrows ==
  ASSUME EngineInv, NEW r, AddRule(r)
  PROVE  /\ {rule'[rules'[i]] : i \in DOMAIN rules'} = {rule[rules[i]] : i \in DOMAIN rules} \cup {r}
         /\ Len(rule') = Len(rule) + 1 /\ Len(rule) \in Nat
<1>1. /\ rule \in Seq(Rule) /\ rules \in Seq(Ids) /\ Ids = 1 .. Len(rule) /\ Len(rule) \in Nat
      /\ rules' = Append(rules, Len(rule) + 1) /\ rule' = Append(rule, r)
  BY DEF EngineInv, OrderInv, Ids, AddRule
<1>2. /\ Len(rules) \in Nat /\ DOMAIN rules = 1 .. Len(rules) /\ DOMAIN rules' = 1 .. Len(rules) + 1
      /\ \A i \in DOMAIN rules : rules'[i] = rules[i] /\ rules[i] \in 1 .. Len(rule)
      /\ rules'[Len(rules) + 1] = Len(rule) + 1
  BY <1>1
<1>3. /\ \A i \in DOMAIN rules : rule'[rules'[i]] = rule[rules[i]]
      /\ rule'[Len(rule) + 1] = r /\ Len(rule') = Len(rule) + 1
  BY <1>1, <1>2
<1>4. DOMAIN rules' = DOMAIN rules \cup {Len(rules) + 1}
  BY <1>2
<1> QED
  BY <1>1, <1>2, <1>3, <1>4

LEMMA InjectEnds ==
  ASSUME EngineInv, TypedInv, SeqInv, EngineInv', TypedInv', Ends, Quiescent,
         NEW tpl \in Templates, InjectCall(tpl)
  PROVE  SeqInv' /\ Abstract!Inject(tpl)
<1>0. PICK r, m, s : /\ r = [id |-> Len(rule) + 1, kind |-> tpl.kind, scope |-> tpl.scope,
                             times |-> tpl.times, after |-> tpl.after]
                     /\ m = Len(rule) /\ s = granted
  OBVIOUS
<1>1. /\ AddRule(r) /\ calls' = calls + 1 /\ Answer("inject", "none", m + 1)
      /\ UNCHANGED <<counts, frame>> /\ Loop \in Threads
  BY <1>0 DEF InjectCall, Threads
<1>2. Turn(Loop) /\ frame'[Loop].pc = "idle"
  BY <1>1 DEF Turn, Rest, Quiescent, Resting
<1>3. \A p \in Path : counts'[p] <= calls'
  BY <1>1, CallsGrow
<1>4. /\ SeqInv' /\ atomic'.book = {rule'[rules'[i]] : i \in DOMAIN rules'}
      /\ atomic'.granted = granted' /\ atomic'.fired = fired' /\ atomic'.counts = counts'
      /\ atomic'.reply = [op |-> "inject", path |-> "none", by |-> m + 1]
      /\ atomic'.passed = atomic.passed /\ atomic'.baseline = atomic.baseline
  BY <1>1, <1>2, <1>3, QuietEnds
<1>5. Kept({}) /\ Listed({}) /\ counts = atomic.counts
  BY DEF SeqInv, Untouched
<1>6. atomic'.book = atomic.book \cup {r}
  BY <1>1, <1>4, <1>5, BookIs, BookGrows
<1>7. /\ fired = atomic.fired /\ granted = atomic.granted /\ Len(atomic.granted) = m
  BY <1>0, <1>5, NothingSpent DEF TypedInv, BookTyped
<1>8. /\ atomic'.granted = Append(atomic.granted, tpl.times)
      /\ atomic'.fired = Append(atomic.fired, 0) /\ atomic'.counts = atomic.counts
  BY <1>0, <1>1, <1>4, <1>5, <1>7 DEF AddRule
<1>9. Abstract!NextId = m + 1 /\ m + 1 <= MaxRules
  <2>1. m \in Nat /\ m < MaxRules
    BY <1>0, <1>1 DEF AddRule, EngineInv, OrderInv
  <2> QED
    BY <1>7, <2>1, BoundAssumption DEF Abstract!NextId
<1>10. Abstract!Inject(tpl)
  BY <1>0, <1>4, <1>6, <1>8, <1>9 DEF Abstract!Inject
<1> QED
  BY <1>4, <1>10

LEMMA ResetEnds ==
  ASSUME EngineInv, TypedInv, SeqInv, EngineInv', TypedInv', Ends, ResetAdd
  PROVE  SeqInv' /\ Abstract!Reset
<1>0. PICK g, m : g = frame'[Loop] /\ m = Len(rule) /\ Loop \in Threads
  BY DEF Threads
<1>1. /\ frame[Loop].pc = "reset_add" /\ Goto(Loop, Idle) /\ Answer("reset", "none", NoRule)
      /\ UNCHANGED <<counts, calls>>
      /\ \/ Baseline(1) = {} /\ UNCHANGED <<rules, rule, granted, fired>>
         \/ \E r \in Baseline(m + 1) : AddRule(r)
  BY <1>0 DEF ResetAdd
<1>2. Turn(Loop) /\ g.pc = "idle"
  BY <1>0, <1>1, Went, IdleRests DEF EngineInv, Turn, Resting
<1>3. \A p \in Path : counts'[p] <= calls'
  BY <1>1 DEF SeqInv
<1>4. SeqInv' /\ atomic' = Finished(atomic)
  BY <1>0, <1>2, <1>3, LastStep
<1>5. /\ atomic'.book = {rule'[rules'[i]] : i \in DOMAIN rules'}
      /\ atomic'.granted = granted' /\ atomic'.fired = fired' /\ atomic'.counts = counts'
      /\ atomic'.reply = [op |-> "reset", path |-> "none", by |-> NoRule]
      /\ atomic'.passed = [p \in Path |-> 0]
      /\ atomic'.baseline = IF Baseline(1) = {} THEN NoRule ELSE Len(rule')
  BY <1>1, <1>4, FinishedAgrees DEF Agrees, Answer
<1>6. Kept({}) /\ rules = <<>> /\ counts = [p \in Path |-> 0]
  BY <1>0, <1>1 DEF SeqInv, Stage
<1>7. /\ fired = atomic.fired /\ granted = atomic.granted /\ Len(atomic.granted) = m /\ m \in Nat
  BY <1>0, <1>6, NothingSpent DEF TypedInv, BookTyped, EngineInv, OrderInv
<1>8. /\ Abstract!NextId = m + 1 /\ Abstract!Baseline(m + 1) = Baseline(m + 1)
      /\ Abstract!NoRule = NoRule
  BY <1>7, SameWords DEF Abstract!NextId
<1>9. {rule[rules[i]] : i \in DOMAIN rules} = {}
  BY <1>6
<1>10. CASE RateLimitAfter = Unset
  <2>1. Baseline(1) = {} /\ Baseline(m + 1) = {}
    BY <1>10 DEF Baseline
  <2>2. UNCHANGED <<rules, rule, granted, fired>>
    BY <1>1, <2>1
  <2>3. atomic'.book = {}
    BY <1>5, <1>9, <2>2, ZenonT(60)
  <2>4. Abstract!Reset
    BY <1>1, <1>5, <1>6, <1>7, <1>8, <2>1, <2>2, <2>3 DEF Abstract!Reset
  <2> QED
    BY <1>4, <2>4
<1>11. CASE RateLimitAfter # Unset
  <2>1. Baseline(1) # {}
    BY <1>11 DEF Baseline
  <2>2. PICK r \in Baseline(m + 1) : AddRule(r)
    BY <1>1, <2>1
  <2>3. Baseline(m + 1) = {r} /\ r.times = Persistent
    BY <1>11, <2>2 DEF Baseline
  <2>4. atomic'.book = {r} /\ Len(rule') = m + 1
    BY <1>0, <1>5, <1>9, <2>2, BookGrows
  <2>5. /\ atomic'.granted = Append(atomic.granted, Persistent)
        /\ atomic'.fired = Append(atomic.fired, 0) /\ m < MaxRules
    BY <1>0, <1>5, <1>7, <2>2, <2>3 DEF AddRule
  <2>6. m + 1 <= MaxRules
    BY <1>7, <2>5, BoundAssumption
  <2>7. atomic'.counts = [p \in Path |-> 0] /\ atomic'.baseline = m + 1
    BY <1>1, <1>5, <1>6, <2>1, <2>4
  <2>8. Abstract!Reset
    BY <1>5, <1>8, <2>3, <2>4, <2>5, <2>6, <2>7 DEF Abstract!Reset
  <2> QED
    BY <1>4, <2>8
<1> QED
  BY <1>10, <1>11
(***************************************************************************)
(* The refinement                                                           *)
(***************************************************************************)
LEMMA SeqStarts == SeqInit => EngineInv /\ TypedInv /\ SeqInv /\ Abstract!Init
<1> SUFFICES ASSUME SeqInit  PROVE EngineInv /\ TypedInv /\ SeqInv /\ Abstract!Init
  OBVIOUS
<1>1. Init
  BY DEF SeqInit
<1>2. EngineInv /\ TypedInv
  BY <1>1, OrderInit, CountInit, TypedInit DEF EngineInv
<1>3. Quiescent
  BY <1>1, IdleRests DEF Init, Quiescent, Resting
<1>4. Agrees
  BY DEF SeqInit, Agrees
<1>5. \A p \in Path : counts[p] <= calls
  BY <1>1 DEF Init
<1>6. SeqInv
  BY <1>2, <1>3, <1>4, <1>5, Settles
<1>7. atomic.book = Baseline(1) /\ (rules = <<>> <=> Baseline(1) = {})
  <2>1. CASE Baseline(1) = {}
    <3>1. rules = <<>>
      BY <1>1, <2>1 DEF Init
    <3> QED
      BY <1>4, <2>1, <3>1 DEF Agrees
  <2>2. CASE Baseline(1) # {}
    <3>1. PICK r \in Baseline(1) : rule = <<r>> /\ rules = <<1>>
      BY <1>1, <2>2 DEF Init
    <3>2. Baseline(1) = {r}
      BY <3>1 DEF Baseline
    <3>3. atomic.book = {r}
      BY <1>4, <3>1 DEF Agrees
    <3> QED
      BY <2>2, <3>1, <3>2, <3>3
  <2> QED
    BY <2>1, <2>2
<1>8. /\ atomic.granted = granted /\ atomic.fired = fired /\ atomic.counts = counts
      /\ atomic.passed = counts /\ atomic.reply = reply
      /\ atomic.baseline = IF rules = <<>> THEN NoRule ELSE 1
  BY DEF SeqInit
<1>9. Abstract!Init
  BY <1>1, <1>7, <1>8, SameWords DEF Abstract!Init, Init, Abstract!Quiet
<1> QED
  BY <1>2, <1>6, <1>9

LEMMA SeqStutters ==
  ASSUME SeqInv, UNCHANGED <<vars, atomic>>  PROVE SeqInv' /\ UNCHANGED Abstract!vars
<1>1. UNCHANGED <<rules, rule, counts, granted, fired, calls, atomic>> /\ frame' = frame
  BY DEF vars
<1>2. AtomicTyped' /\ (Quiescent' <=> Quiescent) /\ (Untouched' <=> Untouched)
  BY <1>1 DEF SeqInv, AtomicTyped, Quiescent, Resting, Untouched, Kept, Listed, Ids
<1>3. ASSUME NEW t \in Threads  PROVE Stage(frame[t])'
  <2>1. PICK f : f = frame[t] /\ f = frame'[t] /\ Stage(f)
    BY <1>1 DEF SeqInv
  <2>2. Evaluates(f) => Evaluates(frame[t])'
    BY <1>1, <2>1, EvaluatesSame
  <2>3. Kept({})' = Kept({}) /\ Listed({})' = Listed({}) /\ Untouched' = Untouched
    BY <1>1 DEF Untouched, Kept, Listed, Ids
  <2>4. Stores(f)' = Stores(f) /\ Deletes(f)' = Deletes(f)
    BY <1>1, <2>3 DEF Stores, Deletes
  <2>5. Scans(f)' = Scans(f) /\ Copies(f)' = Copies(f)
    BY <1>1, <2>3 DEF Scans, Copies, Counted
  <2>6. f.pc = "remove" =>
          /\ Copies(f)' /\ (f.at = 0 => Deletes(f)')
          /\ f.at # 0 => Evaluates(frame[t])' /\ f.victim = Current(f)' /\ Exhausted(rule'[f.victim])
    BY <1>1, <2>1, <2>2, <2>4, <2>5 DEF Stage, Current
  <2> QED
    BY <1>1, <2>1, <2>2, <2>3, <2>4, <2>5, <2>6 DEF Stage
<1> QED
  BY <1>1, <1>2, <1>3 DEF SeqInv, Resting, Abstract!vars

LEMMA SeqSteps ==
  ASSUME EngineInv, TypedInv, EngineInv', TypedInv', SeqInv, [SeqNext]_<<vars, atomic>>
  PROVE  SeqInv' /\ [Abstract!Next]_(Abstract!vars)
<1>1. ASSUME SeqInv' /\ atomic' = atomic
      PROVE  SeqInv' /\ [Abstract!Next]_(Abstract!vars)
  BY <1>1 DEF Abstract!vars
<1>2. CASE UNCHANGED <<vars, atomic>>
  BY <1>2, SeqStutters
<1>3. ASSUME NEW t \in Threads, Ends, Quiescent, Start(t)
      PROVE  SeqInv' /\ [Abstract!Next]_(Abstract!vars)
  <2>1. ASSUME NEW p \in Path, Call(t, p)  PROVE SeqInv' /\ atomic' = atomic
    BY <1>3, <2>1, CallStage
  <2>2. ASSUME NEW id \in 1 .. MaxRules, DeleteCall(t, id)  PROVE SeqInv' /\ atomic' = atomic
    BY <1>3, <2>2, DeleteStage
  <2>3. ASSUME ClearCall(t)  PROVE SeqInv' /\ Abstract!Clear
    BY <1>3, <2>3, ClearEnds
  <2>4. ASSUME NEW tpl \in Templates, InjectCall(tpl)  PROVE SeqInv' /\ Abstract!Inject(tpl)
    BY <1>3, <2>4, InjectEnds
  <2>5. ASSUME ResetCall  PROVE SeqInv' /\ atomic' = atomic
    BY <1>3, <2>5, ResetStarts
  <2> QED
    BY <1>1, <1>3, <2>1, <2>2, <2>3, <2>4, <2>5 DEF Start, Abstract!Next
<1>4. ASSUME NEW t \in Threads, Ends, Continue(t)
      PROVE  SeqInv' /\ [Abstract!Next]_(Abstract!vars)
  <2>1. ASSUME Store(t) \/ Scan(t)  PROVE SeqInv' /\ atomic' = atomic
    BY <1>4, <2>1, StoreStage, ScanStage
  <2>2. ASSUME Judge(t)
        PROVE  SeqInv' /\ (atomic' = atomic \/ \E p \in Path : Abstract!Request(p))
    BY <1>4, <2>2, JudgeStage, JudgeEnds
  <2>3. ASSUME ConsumeStep(t)
        PROVE  SeqInv' /\ (atomic' = atomic \/ \E p \in Path : Abstract!Request(p))
    BY <1>4, <2>3, ConsumeStays, ConsumeEnds
  <2>4. ASSUME RemoveStep(t)
        PROVE  SeqInv' /\ \/ atomic' = atomic
                          \/ \E p \in Path : Abstract!Request(p)
                          \/ \E id \in 1 .. MaxRules : Abstract!Delete(id)
    BY <1>4, <2>4, RemoveStays, RemoveEnds
  <2>5. ASSUME ResetCounts  PROVE SeqInv' /\ atomic' = atomic
    BY <1>4, <2>5, ResetGoesOn
  <2>6. ASSUME ResetAdd  PROVE SeqInv' /\ Abstract!Reset
    BY <1>4, <2>6, ResetEnds
  <2> QED
    BY <1>1, <1>4, <2>1, <2>2, <2>3, <2>4, <2>5, <2>6 DEF Continue, Abstract!Next
<1> QED
  BY <1>2, <1>3, <1>4 DEF SeqNext, Ends

LEMMA SeqIsEngine == SeqSpec => Spec
<1>1. SeqInit => Init
  BY DEF SeqInit
<1>2. [SeqNext]_<<vars, atomic>> => [Next]_vars
  BY DEF SeqNext, Next
<1> QED
  BY <1>1, <1>2, PTL DEF SeqSpec, Spec

LEMMA SeqInvariance ==
  ASSUME LiveIsNoList, TemplatesTyped
  PROVE  SeqSpec => [](EngineInv /\ TypedInv /\ SeqInv) /\ ImplementsRuleBook
<1>1. SeqSpec => [](EngineInv /\ TypedInv)
  BY SeqIsEngine, EngineInvariance, PTL
<1>2. SeqInit => SeqInv /\ Abstract!Init
  BY SeqStarts
<1>3. /\ EngineInv /\ TypedInv /\ (EngineInv /\ TypedInv)' /\ SeqInv /\ [SeqNext]_<<vars, atomic>>
      => SeqInv' /\ [Abstract!Next]_(Abstract!vars)
  BY SeqSteps
<1> QED
  BY <1>1, <1>2, <1>3, PTL DEF SeqSpec, ImplementsRuleBook, Abstract!Spec

(***************************************************************************)
(* What the rule book promises, the engine keeps                            *)
(***************************************************************************)
Book == INSTANCE RuleBook_proofs WITH
  MaxCount <- MaxCalls,
  book     <- atomic.book,
  granted  <- atomic.granted,
  fired    <- atomic.fired,
  counts   <- atomic.counts,
  passed   <- atomic.passed,
  baseline <- atomic.baseline,
  reply    <- atomic.reply

\* The same rule book, reached through the module of its proofs.
LEMMA BookWords ==
  /\ \A B, p, n : Book!Answering(B, p, n) = Answering(B, p, n)
  /\ \A B, p, n : Book!Consumed(B, p, n) = Consumed(B, p, n)
  /\ \A B, S : Book!Consume(B, S) = Consume(B, S)
  /\ \A S : Book!IdsOf(S) = IdsIn(S)
  /\ \A id : Book!Baseline(id) = Baseline(id)
  /\ Book!NoRule = NoRule
<1>1. \A B, p : Book!Active(B, p) = Active(B, p)
  BY DEF Book!Active, Active
<1>2. \A r : Book!Rank(r) = Rank(r)
  BY DEF Book!Rank, Rank
<1>3. \A B, p, n : Book!Refusing(B, p, n) = Refusing(B, p, n)
  BY <1>1 DEF Book!Refusing, Refusing
<1>4. \A r, q : Book!Precedes(r, q) <=> Precedes(r, q)
  BY <1>2 DEF Book!Precedes, Precedes
<1>5. \A B, p, n : Book!Answering(B, p, n) = Answering(B, p, n)
  BY <1>3, <1>4 DEF Book!Answering, Answering
<1>6. \A S, k : Book!OfKind(S, k) = OfKind(S, k)
  BY DEF Book!OfKind, OfKind
<1>7. \A B, p, n : Book!Delaying(B, p, n) = Delaying(B, p, n)
  BY <1>1, <1>5, <1>6 DEF Book!Delaying, Delaying
<1>8. \A B, p, n : Book!Consumed(B, p, n) = Consumed(B, p, n)
  BY <1>5, <1>7 DEF Book!Consumed, Consumed
<1>9. \A r : Book!Renewed(r) = Renewed(r)
  BY DEF Book!Renewed, Renewed
<1>10. \A B, S : Book!Consume(B, S) = Consume(B, S)
  BY <1>9 DEF Book!Consume, Consume
<1>11. \A S : Book!IdsOf(S) = IdsIn(S)
  BY DEF Book!IdsOf, IdsIn
<1>12. \A id : Book!Baseline(id) = Baseline(id)
  BY DEF Book!Baseline, Baseline
<1> QED
  BY <1>5, <1>8, <1>10, <1>11, <1>12 DEF Book!NoRule, NoRule

LEMMA SameBooks ==
  /\ Abstract!Init => Book!Init
  /\ [Abstract!Next]_(Abstract!vars) => [Book!Next]_(Book!vars)
<1>1. Abstract!Init => Book!Init
  BY SameWords, BookWords DEF Abstract!Init, Book!Init, Abstract!Quiet, Book!Quiet
<1>2. Book!NextId = Abstract!NextId /\ Book!Ids = Abstract!Ids
  BY DEF Book!NextId, Abstract!NextId, Book!Ids, Abstract!Ids
<1>3. ASSUME NEW p \in Path, Abstract!Request(p)  PROVE Book!Request(p)
  BY <1>2, <1>3, SameWords, BookWords DEF Abstract!Request, Book!Request
<1>4. ASSUME NEW t \in Templates, Abstract!Inject(t)  PROVE Book!Inject(t)
  BY <1>2, <1>4 DEF Abstract!Inject, Book!Inject
<1>5. ASSUME NEW id \in 1 .. MaxRules, Abstract!Delete(id)  PROVE Book!Delete(id)
  BY <1>5, SameWords, BookWords DEF Abstract!Delete, Book!Delete
<1>6. Abstract!Clear => Book!Clear
  BY SameWords, BookWords DEF Abstract!Clear, Book!Clear
<1>7. Abstract!Reset => Book!Reset
  BY <1>2, SameWords, BookWords DEF Abstract!Reset, Book!Reset
<1>8. UNCHANGED Abstract!vars => UNCHANGED Book!vars
  BY DEF Abstract!vars, Book!vars
<1> QED
  BY <1>1, <1>3, <1>4, <1>5, <1>6, <1>7, <1>8 DEF Abstract!Next, Book!Next
LEMMA BookTemplates == TemplatesTyped => Book!TemplatesTyped
BY DEF TemplatesTyped, Book!TemplatesTyped, Kinds, Book!Kinds

LEMMA BookHolds ==
  ASSUME LiveIsNoList, TemplatesTyped  PROVE SeqSpec => []Book!BookInv
<1>1. Abstract!Init => Book!BookInv
  BY SameBooks, Book!BookInit, PathAssumption, TimesAssumption, BaselineAssumption
<1>2. Book!BookInv /\ [Abstract!Next]_(Abstract!vars) => Book!BookInv'
  BY BookTemplates, SameBooks, Book!BookStep, PathAssumption, TimesAssumption, BaselineAssumption
<1> QED
  BY <1>1, <1>2, SeqInvariance, PTL DEF ImplementsRuleBook, Abstract!Spec

\* In the middle of an operation too, what has been consumed is of the book that
\* the operation began with.
LEMMA SomeKept ==
  ASSUME EngineInv, TypedInv, SeqInv  PROVE \E D \in SUBSET IdsIn(atomic.book) : Kept(D)
<1>1. CASE Quiescent
  BY <1>1 DEF SeqInv, Untouched
<1>2. ASSUME NEW t \in Threads, ~Resting(t)
      PROVE  \E D \in SUBSET IdsIn(atomic.book) : Kept(D)
  <2>1. PICK f : f = frame[t] /\ Stage(f)
    BY DEF SeqInv
  <2>2. CASE Evaluates(f) /\ f.pc \in {"judge", "consume", "remove"}
              /\ (f.pc = "remove" => f.victim = Current(f) /\ f.at # 0)
    <3>1. PICK D : /\ D = Delayed(f) \cup (IF f.pc = "remove" THEN {f.victim} ELSE {})
                   /\ Kept(D)
      BY <2>2 DEF Evaluates
    <3>2. Delayed(f) \subseteq Members(f.active)
      BY DEF Delayed, Past, Members
    <3>3. f.pc = "remove" => f.victim \in Members(f.active)
      <4>1. f.active \in Seq(1 .. Len(rule)) /\ f.at \in 0 .. Len(f.active)
        BY <2>1, PlanOf
      <4>2. f.at # 0 => f.at \in DOMAIN f.active
        BY <4>1
      <4> QED
        BY <2>2, <4>2 DEF Current, Members
    <3>4. Members(f.active) \subseteq IdsIn(atomic.book)
      BY <2>2 DEF Evaluates, IdsIn, Active
    <3>5. D \subseteq IdsIn(atomic.book)
      BY <3>1, <3>2, <3>3, <3>4
    <3> QED
      BY <3>1, <3>5
  <2>3. f.pc \in {"store", "scan", "judge", "consume", "remove", "reset_counts", "reset_add"}
    BY <1>2, <2>1 DEF TypedInv, Planned, Resting
  <2>4. \/ Kept({})
        \/ Evaluates(f) /\ f.pc \in {"judge", "consume", "remove"}
             /\ (f.pc = "remove" => f.victim = Current(f) /\ f.at # 0)
    BY <2>1, <2>3 DEF Stage, Stores, Scans, Deletes, Untouched
  <2> QED
    BY <2>2, <2>4
<1> QED
  BY <1>1, <1>2 DEF Quiescent

(***************************************************************************)
(* Theorems                                                                 *)
(***************************************************************************)
\* For a caller that waits for each answer, observation, evaluation, consumption
\* and removal, spread over a dozen steps and several list objects, amount to the
\* one step of the rule book (injection.py:75-153, admin.py:74-107), for any
\* number of rules, paths, templates and calls.
THEOREM EngineIsRuleBook ==
  ASSUME LiveIsNoList, TemplatesTyped  PROVE SeqSpec => ImplementsRuleBook
BY SeqInvariance, PTL

\* injection.py:138-140: for such a caller the engine, like the book, lets no more
\* than rate_limit_after requests of a data path through while the rule of the
\* last reset stands.
THEOREM EngineRateLimited ==
  ASSUME LiveIsNoList, TemplatesTyped  PROVE SeqSpec => []RateLimitHolds
<1>1. Book!BookInv => RateLimitHolds
  BY DEF Book!BookInv, Book!RateLimitHolds, Book!IdsOf,
     RateLimitHolds, Abstract!RateLimitHolds, Abstract!IdsOf
<1> QED
  BY <1>1, BookHolds, PTL

\* injection.py:6-7: for such a caller no rule with `times' fires more than that,
\* on the paths of the pool either, and not even in the middle of an operation.
THEOREM EngineWithinBudget ==
  ASSUME LiveIsNoList, TemplatesTyped  PROVE SeqSpec => []BudgetRespected
<1>1. EngineInv /\ TypedInv /\ SeqInv /\ Book!BookInv => BudgetRespected
  <2> SUFFICES ASSUME EngineInv, TypedInv, SeqInv, Book!BookInv, NEW id \in Ids, granted[id] # Persistent
               PROVE  fired[id] <= Budget(granted[id])
    BY DEF BudgetRespected
  <2>1. PICK D \in SUBSET IdsIn(atomic.book) : Kept(D)
    BY SomeKept
  <2>2. PICK g, n : /\ g = atomic.granted[id] /\ n = atomic.fired[id] /\ granted[id] = g
                    /\ fired[id] = IF id \in D THEN n + 1 ELSE n
    BY <2>1 DEF Kept
  <2>3. g \in Int /\ n \in Nat /\ Ids = Book!Ids
    <3>1. /\ granted = atomic.granted /\ granted \in Seq(Int \cup {Persistent})
          /\ Len(granted) = Len(rule) /\ Len(rule) \in Nat
          /\ atomic.fired \in Seq(Nat) /\ Len(atomic.fired) = Len(atomic.granted)
      BY <2>1 DEF Kept, TypedInv, BookTyped, SeqInv, AtomicTyped, EngineInv, OrderInv
    <3>2. Ids = 1 .. Len(granted)
      BY <3>1 DEF Ids
    <3>3. granted[id] \in Int \cup {Persistent}
      BY <3>1, <3>2
    <3>4. atomic.fired[id] \in Nat
      BY <3>1, <3>2
    <3> QED
      BY <2>2, <3>1, <3>2, <3>3, <3>4 DEF Book!Ids
  <2>4. g # Persistent /\ Budget(g) = (IF g < 1 THEN 1 ELSE g)
    BY <2>2 DEF Budget
  <2>5. n <= Budget(g)
    BY <2>2, <2>3, <2>4 DEF Book!BookInv, Book!BudgetRespected, Book!Budget, Budget
  <2>6. ASSUME id \in D  PROVE n + 1 <= Budget(g)
    <3>1. PICK r \in atomic.book : r.id = id
      BY <2>6 DEF IdsIn
    <3>2. /\ r.times # Persistent /\ r.times + n = g /\ (r.times < 1 => n = 0)
      BY <2>2, <2>4, <3>1 DEF Book!BookInv, Book!Ledger
    <3>3. r.times \in Int
      BY <3>1, <3>2 DEF SeqInv, AtomicTyped, Rule
    <3> QED
      BY <2>3, <2>4, <3>2, <3>3
  <2> QED
    BY <2>2, <2>5, <2>6
<1> QED
  BY <1>1, BookHolds, SeqInvariance, PTL
==============================================================================
