----------------------- MODULE InjectionEngine_proofs -----------------------
(***************************************************************************)
(* The engine between switch points, for any number of pool threads, paths, *)
(* templates and calls: types, the order of the lists, the exact counts of  *)
(* the paths of the event loop and, for a disciplined use, the lives of the *)
(* rules.                                                                   *)
(***************************************************************************)
EXTENDS InjectionEngine, SequenceTheorems, TLAPS

\* Rules as POST /__admin/inject expects them: it checks the kind, and takes the
\* types of the other fields on trust.
TemplatesTyped ==
  Templates \subseteq [kind : Kinds, scope : SUBSET Path, times : Int \cup {Persistent}, after : Nat]

\* Live stands for the list self.rules is bound to and is none itself.
LiveIsNoList == Live \notin Seq(Nat)

(***************************************************************************)
(* A frame that reads a list                                                *)
(***************************************************************************)
Fields == {"pc", "path", "n", "victim", "src", "i", "out", "active", "at"}

Shaped(f) == f = [x \in Fields |-> f[x]]

\* The list that f reads when self.rules is bound to `live'.
ListIn(f, live) == IF f.src = Live THEN live ELSE f.src

\* With the list built so far in order, what is still to be read is younger
\* than all of it; m ids have been handed out.
Reading(f, live, m) ==
  /\ Shaped(f)
  /\ f.i \in Nat /\ f.out \in Seq(1 .. m) /\ Ascending(f.out)
  /\ f.i = 0 => f.out = <<>>
  /\ f.src # Live => f.src \in Seq(1 .. m) /\ Ascending(f.src)
  /\ \A o \in DOMAIN f.out, j \in DOMAIN ListIn(f, live) :
       j > f.i => f.out[o] < ListIn(f, live)[j]

LEMMA SeqWider ==
  ASSUME NEW m \in Nat, NEW s \in Seq(1 .. m)
  PROVE  s \in Seq(1 .. m + 1)
<1>1. 1 .. m \subseteq 1 .. m + 1
  OBVIOUS
<1> QED
  BY <1>1

LEMMA AppendAscends ==
  ASSUME NEW m \in Nat, NEW s \in Seq(1 .. m), Ascending(s), NEW x \in Nat,
         \A o \in DOMAIN s : s[o] < x
  PROVE  Ascending(Append(s, x))
<1>1. /\ Len(s) \in Nat /\ DOMAIN s = 1 .. Len(s)
      /\ DOMAIN Append(s, x) = 1 .. Len(s) + 1
      /\ \A k \in 1 .. Len(s) : Append(s, x)[k] = s[k]
      /\ Append(s, x)[Len(s) + 1] = x
  OBVIOUS
<1> SUFFICES ASSUME NEW k \in 1 .. Len(s) + 1, NEW l \in 1 .. Len(s) + 1, k < l
             PROVE  Append(s, x)[k] < Append(s, x)[l]
  BY <1>1 DEF Ascending
<1>2. CASE l = Len(s) + 1
  <2>1. k \in 1 .. Len(s)
    BY <1>1, <1>2
  <2> QED
    BY <1>1, <1>2, <2>1
<1>3. CASE l # Len(s) + 1
  <2>0. Len(s) \in Nat
    BY <1>1
  <2>1. k \in 1 .. Len(s) /\ l \in 1 .. Len(s)
    BY <1>3, <2>0
  <2>2. s[k] < s[l]
    BY <1>1, <2>1 DEF Ascending
  <2> QED
    BY <1>1, <2>1, <2>2
<1> QED
  BY <1>2, <1>3

\* A frame that has read nothing may find any list.
LEMMA ReadingFresh ==
  ASSUME NEW f, Shaped(f), f.i = 0, f.out = <<>>, f.src = Live, NEW live, NEW m \in Nat
  PROVE  Reading(f, live, m)
<1>1. <<>> \in Seq(1 .. m) /\ DOMAIN <<>> = {}
  OBVIOUS
<1> QED
  BY <1>1 DEF Reading, Ascending

\* Where a frame stands in its list is all that Reading looks at.
LEMMA ReadingSame ==
  ASSUME NEW f, NEW g, NEW live, NEW m \in Nat, Reading(f, live, m),
         Shaped(g), g.i = f.i, g.out = f.out, g.src = f.src
  PROVE  Reading(g, live, m)
BY DEF Reading, ListIn

\* append: the new id is above all others.
LEMMA ReadingAppended ==
  ASSUME NEW f, NEW m \in Nat, NEW live \in Seq(1 .. m), Reading(f, live, m)
  PROVE  Reading(f, Append(live, m + 1), m + 1)
<1> DEFINE grown == Append(live, m + 1)
<1>1. /\ Len(live) \in Nat /\ DOMAIN live = 1 .. Len(live)
      /\ DOMAIN grown = 1 .. Len(live) + 1
      /\ \A k \in 1 .. Len(live) : grown[k] = live[k]
      /\ grown[Len(live) + 1] = m + 1
  OBVIOUS
<1>2. f.out \in Seq(1 .. m + 1) /\ (f.src # Live => f.src \in Seq(1 .. m + 1))
  BY SeqWider DEF Reading
<1> HIDE DEF grown
<1>3. ASSUME NEW o \in DOMAIN f.out, NEW j \in DOMAIN ListIn(f, grown), j > f.i
      PROVE  f.out[o] < ListIn(f, grown)[j]
  <2>1. CASE f.src = Live /\ j = Len(live) + 1
    <3>1. f.out[o] \in 1 .. m
      BY DEF Reading
    <3> QED
      BY <1>1, <2>1, <3>1 DEF ListIn
  <2>2. CASE f.src = Live /\ j # Len(live) + 1
    <3>1. j \in DOMAIN live /\ grown[j] = live[j]
      BY <1>1, <2>2 DEF ListIn
    <3> QED
      BY <1>3, <2>2, <3>1 DEF Reading, ListIn
  <2>3. CASE f.src # Live
    BY <1>3, <2>3 DEF Reading, ListIn
  <2> QED
    BY <2>1, <2>2, <2>3
<1> QED
  BY <1>2, <1>3 DEF Reading, grown

\* clear: a reader of the list finds its end.
LEMMA ReadingCleared ==
  ASSUME NEW f, NEW m \in Nat, NEW live, Reading(f, live, m)
  PROVE  Reading(f, <<>>, m)
<1>1. DOMAIN <<>> = {}
  OBVIOUS
<1> QED
  BY <1>1 DEF Reading, ListIn

\* The next element of a comprehension, taken or not.
LEMMA ReadingNext ==
  ASSUME NEW m \in Nat, NEW live \in Seq(1 .. m), Ascending(live),
         NEW f, Reading(f, live, m), f.i < Len(ListIn(f, live)),
         NEW g, Shaped(g), g.i = f.i + 1, g.src = f.src,
         g.out = f.out \/ g.out = Append(f.out, ListIn(f, live)[f.i + 1])
  PROVE  Reading(g, live, m) /\ ListIn(f, live)[f.i + 1] \in 1 .. m
<1> DEFINE list == ListIn(f, live)
           x    == list[f.i + 1]
<1>1. list \in Seq(1 .. m) /\ Ascending(list) /\ ListIn(g, live) = list
  BY DEF Reading, ListIn
<1>2. /\ f.i \in Nat /\ f.out \in Seq(1 .. m) /\ Ascending(f.out)
      /\ \A o \in DOMAIN f.out, j \in DOMAIN list : j > f.i => f.out[o] < list[j]
      /\ f.src # Live => f.src \in Seq(1 .. m) /\ Ascending(f.src)
  BY DEF Reading
<1> HIDE DEF list
<1>3. /\ Len(list) \in Nat /\ DOMAIN list = 1 .. Len(list)
      /\ f.i + 1 \in DOMAIN list /\ x \in 1 .. m
  BY <1>1, <1>2 DEF list
<1>4. \A o \in DOMAIN f.out : f.out[o] < x
  BY <1>2, <1>3
<1>5. \A j \in DOMAIN list : j > f.i + 1 => x < list[j]
  BY <1>1, <1>2, <1>3 DEF Ascending
<1> HIDE DEF x
<1>i. g.i \in Nat /\ g.i # 0
  BY <1>2
<1>6. ASSUME g.out = f.out PROVE Reading(g, live, m)
  <2>1. \A o \in DOMAIN g.out, j \in DOMAIN list : j > g.i => g.out[o] < list[j]
    BY <1>2, <1>3, <1>6
  <2> QED
    BY <1>1, <1>2, <1>6, <1>i, <2>1 DEF Reading
<1>7. ASSUME g.out = Append(f.out, x) PROVE Reading(g, live, m)
  <2>1. g.out \in Seq(1 .. m) /\ Ascending(g.out)
    BY <1>2, <1>3, <1>4, <1>7, AppendAscends
  <2>2. /\ DOMAIN g.out = 1 .. Len(f.out) + 1 /\ DOMAIN f.out = 1 .. Len(f.out) /\ Len(f.out) \in Nat
        /\ \A k \in 1 .. Len(f.out) : g.out[k] = f.out[k]
        /\ g.out[Len(f.out) + 1] = x
    BY <1>2, <1>3, <1>7
  <2>3. ASSUME NEW o \in DOMAIN g.out, NEW j \in DOMAIN list, j > f.i + 1
        PROVE  g.out[o] < list[j]
    <3>1. j > f.i
      BY <1>2, <1>3, <2>3
    <3>2. CASE o = Len(f.out) + 1
      BY <1>5, <2>2, <2>3, <3>2
    <3>3. CASE o # Len(f.out) + 1
      <4>1. o \in DOMAIN f.out /\ g.out[o] = f.out[o]
        BY <2>2, <3>3
      <4> QED
        BY <1>2, <3>1, <4>1
    <3> QED
      BY <3>2, <3>3
  <2> QED
    BY <1>1, <1>2, <1>i, <2>1, <2>3 DEF Reading
<1> QED
  BY <1>3, <1>6, <1>7 DEF list, x

(***************************************************************************)
(* Order: the invariant and what the steps do to it                         *)
(***************************************************************************)
OrderInv ==
  /\ rule \in Seq(Rule) /\ rules \in Seq(Ids) /\ Ascending(rules)
  /\ frame = [t \in Threads |-> frame[t]]
  /\ \A t \in Threads : Reading(frame[t], rules, Len(rule))

LEMMA IdleShaped == Shaped(Idle) /\ Idle.i = 0 /\ Idle.out = <<>> /\ Idle.src = Live
BY DEF Shaped, Idle, Fields

LEMMA IdleReads ==
  ASSUME NEW live, NEW m \in Nat  PROVE Reading(Idle, live, m)
BY IdleShaped, ReadingFresh

\* The edit of a frame that ends the reading of a scan.
LEMMA DoneReads ==
  ASSUME NEW f, NEW live, NEW old, NEW m \in Nat, Reading(f, old, m), NEW a, NEW b, NEW g,
         g = [f EXCEPT !.pc = a, !.src = Live, !.i = 0, !.out = <<>>, !.active = b]
  PROVE  Reading(g, live, m) /\ g.pc = a
<1>1. Shaped(f)
  BY DEF Reading
<1>2. Shaped(g)
  BY <1>1 DEF Shaped, Fields
<1>3. g.i = 0 /\ g.out = <<>> /\ g.src = Live /\ g.pc = a
  BY <1>1 DEF Shaped, Fields
<1> QED
  BY <1>2, <1>3, ReadingFresh

LEMMA ResumeReads ==
  ASSUME NEW t, NEW f, NEW live, NEW old, NEW m \in Nat, Reading(f, old, m)
  PROVE  Reading(Resume(t, f), live, m) /\ Resume(t, f).pc \in {"judge", "idle"}
<1> DEFINE on == [f EXCEPT !.pc = "judge", !.src = Live,
                           !.i = 0, !.out = <<>>, !.victim = NoRule]
<1>1. Resume(t, f) = on \/ Resume(t, f) = Idle
  BY DEF Resume
<1>2. ASSUME NEW g, g = on PROVE Reading(g, live, m) /\ g.pc = "judge"
  <2>1. Shaped(f)
    BY DEF Reading
  <2>2. Shaped(g) /\ g.i = 0 /\ g.out = <<>> /\ g.src = Live /\ g.pc = "judge"
    BY <1>2, <2>1 DEF Shaped, Fields
  <2> QED
    BY <2>2, ReadingFresh
<1>3. Reading(Idle, live, m) /\ Idle.pc = "idle"
  BY IdleReads DEF Idle
<1> QED
  BY <1>1, <1>2, <1>3

(***************************************************************************)
(* Order: what the steps do to the invariant                                *)
(***************************************************************************)
\* One thread moves and the list stays.
LEMMA OneMoves ==
  ASSUME OrderInv, NEW t \in Threads, NEW g, Goto(t, g), Reading(g, rules, Len(rule)),
         rules' = rules, rule' \in Seq(Rule), Len(rule') = Len(rule)
  PROVE  OrderInv'
<1>1. Ids' = Ids
  BY DEF Ids
<1>2. frame' = [u \in Threads |-> IF u = t THEN g ELSE frame[u]]
  BY DEF OrderInv, Goto
<1>3. frame' = [u \in Threads |-> frame'[u]]
  BY <1>2
<1>4. \A u \in Threads : Reading(frame'[u], rules, Len(rule))
  BY <1>2 DEF OrderInv
<1> QED
  BY <1>1, <1>3, <1>4 DEF OrderInv

\* A rule is added to the list and nobody moves but perhaps to rest.
LEMMA OneAdds ==
  ASSUME OrderInv, NEW r \in Rule, AddRule(r), frame' = frame \/ Goto(Loop, Idle)
  PROVE  OrderInv'
<1>1. /\ Len(rule) \in Nat /\ rule' \in Seq(Rule) /\ Len(rule') = Len(rule) + 1
      /\ rules' = Append(rules, Len(rule) + 1) /\ rules \in Seq(1 .. Len(rule))
  BY DEF OrderInv, AddRule, Ids
<1>2. rules' \in Seq(1 .. Len(rule'))
  <2>1. rules \in Seq(1 .. Len(rule'))
    BY <1>1, SeqWider
  <2>2. Len(rule) + 1 \in 1 .. Len(rule')
    BY <1>1
  <2> QED
    BY <1>1, <2>1, <2>2
<1>3. Ascending(rules')
  <2>1. \A o \in DOMAIN rules : rules[o] < Len(rule) + 1
    BY <1>1
  <2>2. Len(rule) + 1 \in Nat /\ Ascending(rules)
    BY <1>1 DEF OrderInv
  <2>3. Ascending(Append(rules, Len(rule) + 1))
    BY <1>1, <2>1, <2>2, AppendAscends
  <2> QED
    BY <1>1, <2>3
<1>4. \A t \in Threads : Reading(frame[t], rules', Len(rule'))
  BY <1>1, ReadingAppended DEF OrderInv
<1>5. Reading(Idle, rules', Len(rule'))
  BY <1>1, IdleReads
<1>6. frame' = [u \in Threads |-> frame'[u]]
  BY DEF OrderInv, Goto
<1>7. \A u \in Threads : frame'[u] = frame[u] \/ frame'[u] = Idle
  BY DEF OrderInv, Goto
<1> QED
  BY <1>1, <1>2, <1>3, <1>4, <1>5, <1>6, <1>7 DEF OrderInv, Ids

\* The list is emptied and one thread may move on, to a frame of its own.
LEMMA ListEmptied ==
  ASSUME OrderInv, rules' = <<>>, rule' = rule,
         frame' = frame \/ Goto(Loop, [Idle EXCEPT !.pc = "reset_counts"])
  PROVE  OrderInv'
<1>1. Len(rule) \in Nat /\ rules' \in Seq(Ids) /\ Ascending(rules') /\ Ids' = Ids
  BY DEF OrderInv, Ids, Ascending
<1>2. \A t \in Threads : Reading(frame[t], rules', Len(rule))
  BY <1>1, ReadingCleared DEF OrderInv
<1>3. ASSUME NEW g, g = [Idle EXCEPT !.pc = "reset_counts"] PROVE Reading(g, rules', Len(rule))
  <2>1. Shaped(g) /\ g.i = 0 /\ g.out = <<>> /\ g.src = Live
    BY <1>3, IdleShaped DEF Shaped, Fields
  <2> QED
    BY <1>1, <2>1, ReadingFresh
<1>4. frame' = [u \in Threads |-> frame'[u]]
  BY DEF OrderInv, Goto
<1>5. \A u \in Threads : frame'[u] = frame[u] \/ frame'[u] = [Idle EXCEPT !.pc = "reset_counts"]
  BY DEF OrderInv, Goto
<1> QED
  BY <1>1, <1>2, <1>3, <1>4, <1>5 DEF OrderInv

\* remove binds the list it has built; who reads the old one keeps it.
LEMMA ListRebound ==
  ASSUME LiveIsNoList, OrderInv, NEW t \in Threads, NEW g, Rebind(t, frame[t].out, g),
         \A live : Reading(g, live, Len(rule)), rule' = rule
  PROVE  OrderInv'
<1>1. /\ Len(rule) \in Nat /\ rules' = frame[t].out /\ Ids' = Ids /\ Ids = 1 .. Len(rule)
      /\ rules' \in Seq(Ids) /\ Ascending(rules')
  BY DEF OrderInv, Rebind, Reading, Ids
<1>2. frame' = [u \in Threads |-> frame'[u]]
  BY DEF Rebind
<1>3. ASSUME NEW u \in Threads PROVE Reading(frame'[u], rules', Len(rule))
  <2> DEFINE f == frame[u]
  <2>1. Reading(f, rules, Len(rule))
    BY DEF OrderInv
  <2>2. CASE u = t
    BY <2>2 DEF Rebind
  <2>3. CASE u # t /\ f.i > 0 /\ f.src = Live
    <3>1. frame'[u] = [f EXCEPT !.src = rules]
      BY <2>3 DEF Rebind
    <3>2. Shaped(frame'[u])
      BY <2>1, <3>1 DEF Reading, Shaped, Fields
    <3>3. frame'[u].i = f.i /\ frame'[u].out = f.out /\ frame'[u].src = rules
      BY <2>1, <3>1 DEF Reading, Shaped, Fields
    <3>4. rules # Live
      <4>1. 1 .. Len(rule) \subseteq Nat
        BY <1>1
      <4> QED
        BY <1>1, <4>1 DEF LiveIsNoList, OrderInv
    <3>5. ListIn(frame'[u], rules') = ListIn(f, rules)
      BY <2>3, <3>3, <3>4 DEF ListIn
    <3> QED
      BY <1>1, <2>1, <3>2, <3>3, <3>5 DEF Reading, OrderInv
  <2>4. CASE u # t /\ f.src # Live
    <3>1. frame'[u] = f
      BY <2>4 DEF Rebind
    <3> QED
      BY <2>1, <2>4, <3>1 DEF Reading, ListIn
  <2>5. CASE u # t /\ ~ (f.i > 0) /\ f.src = Live
    <3>1. frame'[u] = f
      BY <2>5 DEF Rebind
    <3>2. f.i = 0 /\ f.out = <<>> /\ Shaped(f)
      BY <2>1, <2>5 DEF Reading
    <3> QED
      BY <1>1, <2>5, <3>1, <3>2, ReadingFresh
  <2> QED
    BY <2>2, <2>3, <2>4, <2>5
<1> QED
  BY <1>1, <1>2, <1>3 DEF OrderInv

(***************************************************************************)
(* Order: the steps                                                         *)
(***************************************************************************)
LEMMA SpentTyped ==
  ASSUME rule \in Seq(Rule), NEW id, rule' = [rule EXCEPT ![id] = Spend(rule[id])]
  PROVE  rule' \in Seq(Rule) /\ Len(rule') = Len(rule)
<1>1. Len(rule) \in Nat /\ DOMAIN rule = 1 .. Len(rule) /\ \A k \in 1 .. Len(rule) : rule[k] \in Rule
  OBVIOUS
<1>2. ASSUME NEW r \in Rule PROVE Spend(r) \in Rule
  <2>1. CASE r.times = Persistent
    BY <2>1 DEF Spend, Rule
  <2>2. CASE r.times # Persistent
    <3>1. r.times \in Int /\ r.times - 1 \in Int
      BY <2>2 DEF Rule
    <3>2. Spend(r) = [r EXCEPT !.times = r.times - 1]
      BY <2>2 DEF Spend
    <3> QED
      BY <3>1, <3>2 DEF Rule
  <2> QED
    BY <2>1, <2>2
<1>3. rule' = [k \in 1 .. Len(rule) |-> IF k = id THEN Spend(rule[id]) ELSE rule[k]]
  BY <1>1
<1>4. \A k \in 1 .. Len(rule) : rule'[k] \in Rule
  BY <1>1, <1>2, <1>3
<1>5. rule' \in [1 .. Len(rule) -> Rule]
  BY <1>3, <1>4
<1> QED
  BY <1>1, <1>5

LEMMA OrderInit == Init => OrderInv
<1> SUFFICES ASSUME Init PROVE OrderInv
  OBVIOUS
<1>1. frame = [t \in Threads |-> Idle] /\ frame = [t \in Threads |-> frame[t]]
  BY DEF Init
<1>2. CASE Baseline(1) = {}
  <2>1. rule = <<>> /\ rules = <<>>
    BY <1>2 DEF Init
  <2>2. Len(rule) = 0 /\ rule \in Seq(Rule) /\ rules \in Seq(Ids) /\ Ascending(rules)
    BY <2>1 DEF Ascending
  <2> QED
    BY <1>1, <2>2, IdleReads DEF OrderInv
<1>3. CASE Baseline(1) # {}
  <2>1. PICK r \in Baseline(1) : rule = <<r>> /\ rules = <<1>>
    BY <1>3 DEF Init
  <2>2. r \in Rule
    BY PathAssumption, BaselineAssumption DEF Baseline, Rule, Kinds
  <2>3. Len(rule) = 1 /\ rule \in Seq(Rule) /\ rules \in Seq(Ids) /\ Ascending(rules)
    BY <2>1, <2>2 DEF Ascending, Ids
  <2> QED
    BY <1>1, <2>3, IdleReads DEF OrderInv
<1> QED
  BY <1>2, <1>3

\* The steps that neither change the list nor build one.
LEMMA PlainOrder ==
  ASSUME OrderInv, NEW t \in Threads, NEW p, NEW id,
         Call(t, p) \/ DeleteCall(t, id) \/ Store(t) \/ Judge(t)
  PROVE  OrderInv'
<1> DEFINE f == frame[t]
<1>1. Reading(f, rules, Len(rule)) /\ Len(rule) \in Nat /\ rule \in Seq(Rule)
  BY DEF OrderInv
<1>2. PICK g, j :
        /\ Goto(t, g)
        /\ \/ g = [Idle EXCEPT !.pc = "store", !.path = p, !.n = counts[p]]
           \/ g = [Idle EXCEPT !.pc = "remove", !.victim = id, !.n = Len(rules)]
           \/ g = Idle
           \/ g = [f EXCEPT !.pc = "scan", !.n = 0]
           \/ g = [f EXCEPT !.at = j]
           \/ g = [f EXCEPT !.pc = "consume", !.at = j]
  BY DEF Call, DeleteCall, Store, Judge
<1>3. Reading(g, rules, Len(rule))
  <2>1. Shaped(f)
    BY <1>1 DEF Reading
  <2>2. Shaped(g)
    BY <1>2, <2>1, IdleShaped DEF Shaped, Fields
  <2>3. \/ g.i = 0 /\ g.out = <<>> /\ g.src = Live
        \/ g.i = f.i /\ g.out = f.out /\ g.src = f.src
    BY <1>2, <2>1, IdleShaped DEF Shaped, Fields
  <2> QED
    BY <1>1, <2>2, <2>3, ReadingFresh, ReadingSame
<1>4. rules' = rules /\ rule' = rule
  BY DEF Call, DeleteCall, Store, Judge
<1> QED
  BY <1>1, <1>2, <1>3, <1>4, OneMoves

LEMMA ScanOrder ==
  ASSUME OrderInv, NEW t \in Threads, Scan(t)  PROVE OrderInv'
<1> DEFINE f == frame[t]
           x == ListOf(f)[f.i + 1]
<1>1. /\ Reading(f, rules, Len(rule)) /\ Len(rule) \in Nat /\ rule \in Seq(Rule)
      /\ rules \in Seq(1 .. Len(rule)) /\ Ascending(rules) /\ ListOf(f) = ListIn(f, rules)
  BY DEF OrderInv, Ids, ListOf, ListIn
<1>2. rules' = rules /\ rule' = rule
  BY DEF Scan
<1>3. CASE f.i < Len(ListOf(f))
  <2>1. PICK g : /\ Goto(t, g)
                 /\ g = [f EXCEPT !.i = @ + 1,
                                  !.out = IF f.path \in rule[x].scope THEN Append(@, x) ELSE @]
    <3>1. ~(f.i >= Len(ListOf(f)))
      BY <1>1, <1>3 DEF Reading, ListIn
    <3> QED
      BY <3>1 DEF Scan
  <2>2. Shaped(f)
    BY <1>1 DEF Reading
  <2>3. Shaped(g)
    BY <2>1, <2>2 DEF Shaped, Fields
  <2>4. g.i = f.i + 1 /\ g.src = f.src /\ (g.out = f.out \/ g.out = Append(f.out, x))
    BY <2>1, <2>2 DEF Shaped, Fields
  <2>5. Reading(g, rules, Len(rule))
    BY <1>1, <1>3, <2>3, <2>4, ReadingNext
  <2> QED
    BY <1>1, <1>2, <2>1, <2>5, OneMoves
<1>4. CASE ~(f.i < Len(ListOf(f)))
  <2>1. PICK g, list : /\ Goto(t, g)
                       /\ g = [f EXCEPT !.pc = "judge", !.src = Live, !.i = 0,
                                        !.out = <<>>, !.active = list]
    BY <1>4 DEF Scan
  <2>2. Reading(g, rules, Len(rule))
    BY <1>1, <2>1, DoneReads, ZenonT(60)
  <2> QED
    BY <1>1, <1>2, <2>1, <2>2, OneMoves
<1> QED
  BY <1>3, <1>4

LEMMA ConsumeOrder ==
  ASSUME OrderInv, NEW t \in Threads, ConsumeStep(t)  PROVE OrderInv'
<1> DEFINE f  == frame[t]
           id == Current(f)
<1>1. Reading(f, rules, Len(rule)) /\ Len(rule) \in Nat
  BY DEF OrderInv
<1>2. rules' = rules /\ rule' = [rule EXCEPT ![id] = Spend(rule[id])]
  BY DEF ConsumeStep
<1>3. rule' \in Seq(Rule) /\ Len(rule') = Len(rule)
  BY <1>2, SpentTyped DEF OrderInv
<1>4. PICK g : Goto(t, g) /\ (g = [f EXCEPT !.pc = "remove", !.victim = id] \/ g = Resume(t, f))
  BY DEF ConsumeStep
<1>5. Reading(g, rules, Len(rule))
  <2>1. CASE g = Resume(t, f)
    BY <1>1, <2>1, ResumeReads
  <2>2. CASE g = [f EXCEPT !.pc = "remove", !.victim = id]
    <3>1. Shaped(f)
      BY <1>1 DEF Reading
    <3>2. Shaped(g) /\ g.i = f.i /\ g.out = f.out /\ g.src = f.src
      BY <2>2, <3>1 DEF Shaped, Fields
    <3> QED
      BY <1>1, <3>2, ReadingSame
  <2> QED
    BY <1>4, <2>1, <2>2
<1> QED
  BY <1>2, <1>3, <1>4, <1>5, OneMoves

LEMMA RemoveOrder ==
  ASSUME LiveIsNoList, OrderInv, NEW t \in Threads, RemoveStep(t)  PROVE OrderInv'
<1> DEFINE f == frame[t]
           x == ListOf(f)[f.i + 1]
<1>1. /\ Reading(f, rules, Len(rule)) /\ Len(rule) \in Nat /\ rule \in Seq(Rule)
      /\ rules \in Seq(1 .. Len(rule)) /\ Ascending(rules) /\ ListOf(f) = ListIn(f, rules)
  BY DEF OrderInv, Ids, ListOf, ListIn
<1>2. rule' = rule
  BY DEF RemoveStep
<1>3. CASE f.i < Len(ListOf(f))
  <2>1. PICK g : /\ Goto(t, g) /\ rules' = rules
                 /\ g = [f EXCEPT !.i = @ + 1,
                                  !.out = IF x # f.victim THEN Append(@, x) ELSE @]
    <3>1. ~(f.i >= Len(ListOf(f)))
      BY <1>1, <1>3 DEF Reading, ListIn
    <3> QED
      BY <3>1 DEF RemoveStep
  <2>2. Shaped(f)
    BY <1>1 DEF Reading
  <2>3. Shaped(g)
    BY <2>1, <2>2 DEF Shaped, Fields
  <2>4. g.i = f.i + 1 /\ g.src = f.src /\ (g.out = f.out \/ g.out = Append(f.out, x))
    BY <2>1, <2>2 DEF Shaped, Fields
  <2>5. Reading(g, rules, Len(rule))
    BY <1>1, <1>3, <2>3, <2>4, ReadingNext
  <2> QED
    BY <1>1, <1>2, <2>1, <2>5, OneMoves
<1>4. CASE ~(f.i < Len(ListOf(f)))
  <2>1. Rebind(t, f.out, IF f.at = 0 THEN Idle ELSE Resume(t, f))
    BY <1>4 DEF RemoveStep
  <2>2. \A live : Reading(IF f.at = 0 THEN Idle ELSE Resume(t, f), live, Len(rule))
    BY <1>1, IdleReads, ResumeReads
  <2> QED
    BY <1>2, <2>1, <2>2, ListRebound
<1> QED
  BY <1>3, <1>4

LEMMA AddOrder ==
  ASSUME TemplatesTyped, OrderInv, ResetAdd \/ \E tpl \in Templates : InjectCall(tpl)
  PROVE  OrderInv'
<1>1. Len(rule) \in Nat /\ Loop \in Threads
  BY DEF OrderInv, Threads
<1>2. ASSUME NEW tpl \in Templates, InjectCall(tpl) PROVE OrderInv'
  <2>1. PICK r : /\ AddRule(r) /\ frame' = frame
                 /\ r = [id |-> Len(rule) + 1, kind |-> tpl.kind, scope |-> tpl.scope,
                         times |-> tpl.times, after |-> tpl.after]
    BY <1>2 DEF InjectCall
  <2>2. r \in Rule
    BY <1>1, <2>1 DEF TemplatesTyped, Rule
  <2> QED
    BY <2>1, <2>2, OneAdds
<1>3. CASE ResetAdd /\ rules' = rules /\ rule' = rule
  <2>1. Goto(Loop, Idle)
    BY <1>3 DEF ResetAdd
  <2>2. Reading(Idle, rules, Len(rule))
    BY <1>1, IdleReads
  <2> QED
    BY <1>1, <1>3, <2>1, <2>2, OneMoves DEF OrderInv
<1>4. ASSUME ResetAdd, NEW r \in Baseline(Len(rule) + 1), AddRule(r) PROVE OrderInv'
  <2>1. r \in Rule
    BY <1>1, PathAssumption, BaselineAssumption DEF Baseline, Rule, Kinds
  <2>2. Goto(Loop, Idle)
    BY <1>4 DEF ResetAdd
  <2> QED
    BY <1>4, <2>1, <2>2, OneAdds
<1> QED
  BY <1>2, <1>3, <1>4 DEF ResetAdd

LEMMA OrderStep ==
  ASSUME LiveIsNoList, TemplatesTyped, OrderInv, [Next]_vars  PROVE OrderInv'
<1>1. CASE UNCHANGED vars
  BY <1>1 DEF vars, OrderInv, Ids
<1>2. ASSUME NEW t \in Threads, Start(t) PROVE OrderInv'
  <2>1. CASE ClearCall(t)
    BY <2>1, ListEmptied DEF ClearCall
  <2>2. CASE t = Loop /\ ResetCall
    BY <2>2, ListEmptied DEF ResetCall
  <2> QED
    BY <1>2, <2>1, <2>2, PlainOrder, AddOrder DEF Start
<1>3. ASSUME NEW t \in Threads, Continue(t) PROVE OrderInv'
  <2>1. CASE t = Loop /\ ResetCounts
    <3>1. Goto(Loop, [Idle EXCEPT !.pc = "reset_add"]) /\ rules' = rules /\ rule' = rule
      BY <2>1 DEF ResetCounts
    <3>2. Len(rule) \in Nat /\ rule \in Seq(Rule)
      BY DEF OrderInv
    <3>3. PICK g : g = [Idle EXCEPT !.pc = "reset_add"]
      OBVIOUS
    <3>4. Reading(g, rules, Len(rule))
      <4>1. Shaped(g) /\ g.i = 0 /\ g.out = <<>> /\ g.src = Live
        BY <3>3, IdleShaped DEF Shaped, Fields
      <4> QED
        BY <3>2, <4>1, ReadingFresh
    <3> QED
      BY <2>1, <3>1, <3>2, <3>3, <3>4, OneMoves
  <2> QED
    BY <1>3, <2>1, PlainOrder, ScanOrder, ConsumeOrder, RemoveOrder, AddOrder DEF Continue
<1> QED
  BY <1>1, <1>2, <1>3 DEF Next

(***************************************************************************)
(* Counts: between the read and the store of a count on the loop, no other  *)
(* thread is about to store the count of the same path                      *)
(***************************************************************************)
Counting(t) ==
  /\ frame[t].path \in PathsOf(t) /\ frame[t].n \in Nat
  /\ frame[t].path \in LoopPaths => frame[t].n = counts[frame[t].path]

CountInv ==
  /\ counts \in [Path -> Nat] /\ served \in [Path -> Nat]
  /\ LoopCountsExact
  /\ \A t \in Threads : frame[t].pc = "store" => Counting(t)

EngineInv == OrderInv /\ CountInv

LEMMA PathsAreThreads ==
  /\ \A t \in Threads : PathsOf(t) \subseteq Path
  /\ PathsOf(Loop) = LoopPaths
  /\ \A t \in Workers : PathsOf(t) \cap LoopPaths = {}
BY PathsAssumption, ThreadAssumption DEF PathsOf, Threads

LEMMA IdleRests == Idle.pc = "idle" /\ Shaped(Idle)
BY DEF Idle, Shaped, Fields

LEMMA CountInit == Init => CountInv
BY IdleRests DEF Init, CountInv, LoopCountsExact, PathsAssumption

\* Steps that count nothing and start no counting.
LEMMA CountsKept ==
  ASSUME CountInv, UNCHANGED <<counts, served>>,
         \A u \in Threads : frame'[u].pc = "store" =>
           frame[u].pc = "store" /\ frame'[u].path = frame[u].path /\ frame'[u].n = frame[u].n
  PROVE  CountInv'
BY DEF CountInv, Counting, LoopCountsExact

\* One thread goes on to a frame that does not count.
LEMMA OneRests ==
  ASSUME EngineInv, UNCHANGED <<counts, served>>, NEW t \in Threads, NEW g,
         Goto(t, g), g.pc # "store" \/ g = frame[t]
  PROVE  CountInv'
<1>1. \A u \in Threads : frame'[u] = IF u = t THEN g ELSE frame[u]
  BY DEF EngineInv, OrderInv, Goto
<1> QED
  BY <1>1, CountsKept DEF EngineInv

LEMMA CallCounts ==
  ASSUME EngineInv, NEW t \in Threads, NEW p \in Path, Call(t, p)  PROVE CountInv'
<1>1. PICK g : Goto(t, g) /\ g = [Idle EXCEPT !.pc = "store", !.path = p, !.n = counts[p]]
  BY DEF Call
<1>2. g.path = p /\ g.n = counts[p]
  BY <1>1, IdleRests DEF Shaped, Fields
<1>3. /\ p \in PathsOf(t) /\ counts[p] \in Nat /\ counts' = counts /\ served' = served
  BY DEF Call, EngineInv, CountInv
<1>4. \A u \in Threads : frame'[u] = IF u = t THEN g ELSE frame[u]
  BY <1>1 DEF EngineInv, OrderInv, Goto
<1>5. ASSUME NEW u \in Threads, frame'[u].pc = "store" PROVE Counting(u)'
  BY <1>2, <1>3, <1>4, <1>5 DEF EngineInv, CountInv, Counting
<1> QED
  BY <1>3, <1>5 DEF EngineInv, CountInv, LoopCountsExact

LEMMA StoreCounts ==
  ASSUME EngineInv, NEW t \in Threads, Store(t)  PROVE CountInv'
<1> DEFINE f == frame[t]
           p == f.path
<1>1. /\ p \in PathsOf(t) /\ p \in Path /\ f.n \in Nat
      /\ p \in LoopPaths => f.n = counts[p]
  BY PathsAreThreads DEF Store, EngineInv, CountInv, Counting
<1>2. counts' = [counts EXCEPT ![p] = f.n + 1] /\ served' = [served EXCEPT ![p] = @ + 1]
  BY DEF Store
<1>3. /\ counts \in [Path -> Nat] /\ served \in [Path -> Nat]
      /\ counts' \in [Path -> Nat] /\ served' \in [Path -> Nat]
  BY <1>1, <1>2 DEF EngineInv, CountInv
<1>4. LoopCountsExact'
  BY <1>1, <1>2, <1>3, PathsAssumption DEF EngineInv, CountInv, LoopCountsExact
<1>5. PICK g : Goto(t, g) /\ g = [f EXCEPT !.pc = "scan", !.n = 0]
  BY DEF Store
<1>6. g.pc = "scan"
  BY <1>5 DEF EngineInv, OrderInv, Reading, Shaped, Fields
<1>7. \A u \in Threads : frame'[u] = IF u = t THEN g ELSE frame[u]
  BY <1>5 DEF EngineInv, OrderInv, Goto
<1>8. ASSUME NEW u \in Threads, frame'[u].pc = "store" PROVE Counting(u)'
  <2>1. u # t /\ frame'[u] = frame[u] /\ Counting(u)
    BY <1>6, <1>7, <1>8 DEF EngineInv, CountInv
  <2>2. frame[u].path \in LoopPaths => p # frame[u].path
    BY <1>1, <2>1, PathsAreThreads DEF Counting, Threads
  <2>3. frame[u].path \in LoopPaths => counts'[frame[u].path] = counts[frame[u].path]
    BY <1>2, <1>3, <2>2, PathsAssumption
  <2> QED
    BY <2>1, <2>3 DEF Counting
<1> QED
  BY <1>3, <1>4, <1>8 DEF CountInv

LEMMA ResetCountsCounts ==
  ASSUME EngineInv, ResetCounts  PROVE CountInv'
<1>1. PICK g : Goto(Loop, g) /\ g = [Idle EXCEPT !.pc = "reset_add"]
  BY DEF ResetCounts
<1>2. g.pc = "reset_add"
  BY <1>1, IdleRests DEF Shaped, Fields
<1>3. \A u \in Threads : frame'[u] = IF u = Loop THEN g ELSE frame[u]
  BY <1>1 DEF EngineInv, OrderInv, Goto, Threads
<1>4. ASSUME NEW u \in Threads, frame'[u].pc = "store" PROVE Counting(u)'
  <2>1. u \in Workers /\ frame'[u] = frame[u] /\ Counting(u)
    BY <1>2, <1>3, <1>4 DEF EngineInv, CountInv, Threads
  <2> QED
    BY <2>1, PathsAreThreads DEF Counting
<1>5. counts' \in [Path -> Nat] /\ served' \in [Path -> Nat] /\ LoopCountsExact'
  BY PathsAssumption DEF ResetCounts, LoopCountsExact
<1> QED
  BY <1>4, <1>5 DEF CountInv

\* evaluate, _consume and remove leave the counts alone.
LEMMA EvaluationCounts ==
  ASSUME EngineInv, NEW t \in Threads, Scan(t) \/ Judge(t) \/ ConsumeStep(t)
  PROVE  CountInv'
<1> DEFINE f == frame[t]
<1>1. UNCHANGED <<counts, served>> /\ f.pc # "store" /\ Reading(f, rules, Len(rule)) /\ Len(rule) \in Nat
  <2>1. UNCHANGED <<counts, served>> /\ f.pc \in {"scan", "judge", "consume"}
    BY DEF Scan, Judge, ConsumeStep
  <2> QED
    BY <2>1 DEF EngineInv, OrderInv
<1>2. Shaped(f) /\ Resume(t, f).pc \in {"judge", "idle"}
  BY <1>1, ResumeReads DEF Reading
<1>3. PICK g, j :
        /\ Goto(t, g)
        /\ \/ g = [f EXCEPT !.i = @ + 1,
                            !.out = IF f.path \in rule[ListOf(f)[f.i + 1]].scope
                                      THEN Append(@, ListOf(f)[f.i + 1]) ELSE @]
           \/ g = [f EXCEPT !.pc = "judge", !.src = Live, !.i = 0,
                            !.out = <<>>, !.active = f.out]
           \/ g = Idle
           \/ g = [f EXCEPT !.at = j]
           \/ g = [f EXCEPT !.pc = "consume", !.at = j]
           \/ g = [f EXCEPT !.pc = "remove", !.victim = Current(f)]
           \/ g = Resume(t, f)
  BY DEF Scan, Judge, ConsumeStep
<1>4. CASE g = Resume(t, f)
  BY <1>1, <1>2, <1>3, <1>4, OneRests
<1>5. CASE g # Resume(t, f)
  <2>1. g.pc # "store"
    BY <1>1, <1>2, <1>3, <1>5, IdleRests DEF Shaped, Fields
  <2> QED
    BY <1>1, <1>3, <2>1, OneRests
<1> QED
  BY <1>4, <1>5

LEMMA RemovalCounts ==
  ASSUME EngineInv, NEW t \in Threads, RemoveStep(t)  PROVE CountInv'
<1> DEFINE f == frame[t]
           x == ListOf(f)[f.i + 1]
<1>1. /\ UNCHANGED <<counts, served>> /\ f.pc = "remove" /\ Len(rule) \in Nat
      /\ \A u \in Threads : Reading(frame[u], rules, Len(rule))
  BY DEF RemoveStep, EngineInv, OrderInv
<1>2. \A u \in Threads : Shaped(frame[u])
  BY <1>1 DEF Reading
<1>3. CASE \E g : Goto(t, g) /\ g = [f EXCEPT !.i = @ + 1,
                                       !.out = IF x # f.victim THEN Append(@, x) ELSE @]
  <2>1. PICK g : Goto(t, g) /\ g = [f EXCEPT !.i = @ + 1,
                                       !.out = IF x # f.victim THEN Append(@, x) ELSE @]
    BY <1>3
  <2>2. g.pc # "store"
    BY <1>1, <1>2, <2>1 DEF Shaped, Fields
  <2> QED
    BY <1>1, <2>1, <2>2, OneRests
<1>4. CASE Rebind(t, f.out, IF f.at = 0 THEN Idle ELSE Resume(t, f))
  <2>1. frame'[t].pc # "store"
    BY <1>1, <1>4, IdleRests, ResumeReads DEF Rebind
  <2>2. ASSUME NEW u \in Threads, u # t
        PROVE  /\ frame'[u].pc = frame[u].pc /\ frame'[u].path = frame[u].path
               /\ frame'[u].n = frame[u].n
    <3>1. frame'[u] = frame[u] \/ frame'[u] = [frame[u] EXCEPT !.src = rules]
      BY <1>4, <2>2 DEF Rebind
    <3> QED
      BY <1>2, <3>1 DEF Shaped, Fields
  <2> QED
    BY <1>1, <2>1, <2>2, CountsKept DEF EngineInv
<1> QED
  BY <1>3, <1>4 DEF RemoveStep

\* The control plane starts no counting either.
LEMMA ControlCounts ==
  ASSUME EngineInv, NEW t \in Threads, NEW id, NEW tpl,
         DeleteCall(t, id) \/ ClearCall(t) \/ InjectCall(tpl) \/ ResetCall \/ ResetAdd
  PROVE  CountInv'
<1>1. UNCHANGED <<counts, served>> /\ Loop \in Threads
  BY DEF DeleteCall, ClearCall, InjectCall, ResetCall, ResetAdd, Threads
<1>2. CASE frame' = frame
  BY <1>1, <1>2, CountsKept DEF EngineInv
<1>3. CASE frame' # frame
  <2>1. PICK u, g :
          /\ u \in Threads /\ Goto(u, g)
          /\ \/ g = [Idle EXCEPT !.pc = "remove", !.victim = id, !.n = Len(rules)]
             \/ g = [Idle EXCEPT !.pc = "reset_counts"]
             \/ g = Idle
    BY <1>1, <1>3 DEF DeleteCall, ClearCall, InjectCall, ResetCall, ResetAdd
  <2>2. g.pc # "store"
    BY <2>1, IdleRests DEF Shaped, Fields
  <2> QED
    BY <1>1, <2>1, <2>2, OneRests
<1> QED
  BY <1>2, <1>3

LEMMA CountStep ==
  ASSUME EngineInv, [Next]_vars  PROVE CountInv'
<1>1. CASE UNCHANGED vars
  BY <1>1 DEF vars, EngineInv, CountInv, Counting, LoopCountsExact
<1>2. ASSUME NEW t \in Threads, Start(t) PROVE CountInv'
  BY <1>2, CallCounts, ControlCounts DEF Start
<1>3. ASSUME NEW t \in Threads, Continue(t) PROVE CountInv'
  BY <1>3, StoreCounts, ResetCountsCounts, EvaluationCounts, RemovalCounts, ControlCounts
  DEF Continue
<1> QED
  BY <1>1, <1>2, <1>3 DEF Next

(***************************************************************************)
(* Frames, field by field                                                   *)
(***************************************************************************)
Rec(pc, path, n, victim, src, i, out, active, at) ==
  [pc |-> pc, path |-> path, n |-> n, victim |-> victim, src |-> src, i |-> i,
   out |-> out, active |-> active, at |-> at]

LEMMA RecOf ==
  ASSUME NEW f, Shaped(f)
  PROVE  f = Rec(f.pc, f.path, f.n, f.victim, f.src, f.i, f.out, f.active, f.at)
BY DEF Rec, Shaped, Fields

LEMMA IdleRec == Idle = Rec("idle", "none", 0, NoRule, Live, 0, <<>>, <<>>, 0)
BY DEF Idle, Rec

LEMMA CallEdit ==
  ASSUME NEW p, NEW n, NEW g,
         g = [Idle EXCEPT !.pc = "store", !.path = p, !.n = n]
  PROVE  g = Rec("store", p, n, NoRule, Live, 0, <<>>, <<>>, 0)
<1>1. Shaped(g)
  BY IdleShaped DEF Shaped, Fields
<1>2. /\ g.pc = "store" /\ g.path = p /\ g.n = n /\ g.victim = NoRule
      /\ g.src = Live /\ g.i = 0
      /\ g.out = <<>> /\ g.active = <<>> /\ g.at = 0
  BY IdleShaped, IdleRec DEF Rec, Shaped, Fields
<1> QED
  BY <1>1, <1>2, RecOf

LEMMA DeleteEdit ==
  ASSUME NEW v, NEW n, NEW g,
         g = [Idle EXCEPT !.pc = "remove", !.victim = v, !.n = n]
  PROVE  g = Rec("remove", "none", n, v, Live, 0, <<>>, <<>>, 0)
<1>1. Shaped(g)
  BY IdleShaped DEF Shaped, Fields
<1>2. /\ g.pc = "remove" /\ g.path = "none" /\ g.n = n /\ g.victim = v
      /\ g.src = Live /\ g.i = 0
      /\ g.out = <<>> /\ g.active = <<>> /\ g.at = 0
  BY IdleShaped, IdleRec DEF Rec, Shaped, Fields
<1> QED
  BY <1>1, <1>2, RecOf

LEMMA ResetEdit ==
  ASSUME NEW a, NEW g,
         g = [Idle EXCEPT !.pc = a]
  PROVE  g = Rec(a, "none", 0, NoRule, Live, 0, <<>>, <<>>, 0)
<1>1. Shaped(g)
  BY IdleShaped DEF Shaped, Fields
<1>2. /\ g.pc = a /\ g.path = "none" /\ g.n = 0 /\ g.victim = NoRule
      /\ g.src = Live /\ g.i = 0
      /\ g.out = <<>> /\ g.active = <<>> /\ g.at = 0
  BY IdleShaped, IdleRec DEF Rec, Shaped, Fields
<1> QED
  BY <1>1, <1>2, RecOf

LEMMA StoreEdit ==
  ASSUME NEW f, Shaped(f), NEW g,
         g = [f EXCEPT !.pc = "scan", !.n = 0]
  PROVE  g = Rec("scan", f.path, 0, f.victim, f.src, f.i, f.out, f.active, f.at)
<1>1. Shaped(g)
  BY DEF Shaped, Fields
<1>2. /\ g.pc = "scan" /\ g.path = f.path /\ g.n = 0
      /\ g.victim = f.victim /\ g.src = f.src /\ g.i = f.i
      /\ g.out = f.out /\ g.active = f.active /\ g.at = f.at
  BY DEF Shaped, Fields
<1> QED
  BY <1>1, <1>2, RecOf

LEMMA ReadEdit ==
  ASSUME NEW f, Shaped(f), NEW o, NEW g,
         g = [f EXCEPT !.i = @ + 1, !.out = o]
  PROVE  g = Rec(f.pc, f.path, f.n, f.victim, f.src, f.i + 1, o, f.active, f.at)
<1>1. Shaped(g)
  BY DEF Shaped, Fields
<1>2. /\ g.pc = f.pc /\ g.path = f.path /\ g.n = f.n
      /\ g.victim = f.victim /\ g.src = f.src /\ g.i = f.i + 1
      /\ g.out = o /\ g.active = f.active /\ g.at = f.at
  BY DEF Shaped, Fields
<1> QED
  BY <1>1, <1>2, RecOf

LEMMA ScannedEdit ==
  ASSUME NEW f, Shaped(f), NEW s, NEW g,
         g = [f EXCEPT !.pc = "judge", !.src = Live, !.i = 0, !.out = <<>>, !.active = s]
  PROVE  g = Rec("judge", f.path, f.n, f.victim, Live, 0, <<>>, s, f.at)
<1>1. Shaped(g)
  BY DEF Shaped, Fields
<1>2. /\ g.pc = "judge" /\ g.path = f.path /\ g.n = f.n
      /\ g.victim = f.victim /\ g.src = Live /\ g.i = 0
      /\ g.out = <<>> /\ g.active = s /\ g.at = f.at
  BY DEF Shaped, Fields
<1> QED
  BY <1>1, <1>2, RecOf

LEMMA PassEdit ==
  ASSUME NEW f, Shaped(f), NEW j, NEW g,
         g = [f EXCEPT !.at = j]
  PROVE  g = Rec(f.pc, f.path, f.n, f.victim, f.src, f.i, f.out, f.active, j)
<1>1. Shaped(g)
  BY DEF Shaped, Fields
<1>2. /\ g.pc = f.pc /\ g.path = f.path /\ g.n = f.n
      /\ g.victim = f.victim /\ g.src = f.src /\ g.i = f.i
      /\ g.out = f.out /\ g.active = f.active /\ g.at = j
  BY DEF Shaped, Fields
<1> QED
  BY <1>1, <1>2, RecOf

LEMMA ApplyEdit ==
  ASSUME NEW f, Shaped(f), NEW j, NEW g,
         g = [f EXCEPT !.pc = "consume", !.at = j]
  PROVE  g = Rec("consume", f.path, f.n, f.victim, f.src, f.i, f.out, f.active, j)
<1>1. Shaped(g)
  BY DEF Shaped, Fields
<1>2. /\ g.pc = "consume" /\ g.path = f.path /\ g.n = f.n
      /\ g.victim = f.victim /\ g.src = f.src /\ g.i = f.i
      /\ g.out = f.out /\ g.active = f.active /\ g.at = j
  BY DEF Shaped, Fields
<1> QED
  BY <1>1, <1>2, RecOf

LEMMA RemoveEdit ==
  ASSUME NEW f, Shaped(f), NEW v, NEW g,
         g = [f EXCEPT !.pc = "remove", !.victim = v]
  PROVE  g = Rec("remove", f.path, f.n, v, f.src, f.i, f.out, f.active, f.at)
<1>1. Shaped(g)
  BY DEF Shaped, Fields
<1>2. /\ g.pc = "remove" /\ g.path = f.path /\ g.n = f.n
      /\ g.victim = v /\ g.src = f.src /\ g.i = f.i
      /\ g.out = f.out /\ g.active = f.active /\ g.at = f.at
  BY DEF Shaped, Fields
<1> QED
  BY <1>1, <1>2, RecOf

LEMMA ResumeEdit ==
  ASSUME NEW f, Shaped(f), NEW g,
         g = [f EXCEPT !.pc = "judge", !.src = Live, !.i = 0, !.out = <<>>, !.victim = NoRule]
  PROVE  g = Rec("judge", f.path, f.n, NoRule, Live, 0, <<>>, f.active, f.at)
<1>1. Shaped(g)
  BY DEF Shaped, Fields
<1>2. /\ g.pc = "judge" /\ g.path = f.path /\ g.n = f.n
      /\ g.victim = NoRule /\ g.src = Live /\ g.i = 0
      /\ g.out = <<>> /\ g.active = f.active /\ g.at = f.at
  BY DEF Shaped, Fields
<1> QED
  BY <1>1, <1>2, RecOf

LEMMA RebindEdit ==
  ASSUME NEW f, Shaped(f), NEW s, NEW g,
         g = [f EXCEPT !.src = s]
  PROVE  g = Rec(f.pc, f.path, f.n, f.victim, s, f.i, f.out, f.active, f.at)
<1>1. Shaped(g)
  BY DEF Shaped, Fields
<1>2. /\ g.pc = f.pc /\ g.path = f.path /\ g.n = f.n
      /\ g.victim = f.victim /\ g.src = s /\ g.i = f.i
      /\ g.out = f.out /\ g.active = f.active /\ g.at = f.at
  BY DEF Shaped, Fields
<1> QED
  BY <1>1, <1>2, RecOf

(***************************************************************************)
(* What each step does to the frame of its thread.                          *)
(***************************************************************************)
Rest(t) == \A u \in Threads : u # t => frame'[u] = frame[u]

LEMMA Went ==
  ASSUME OrderInv, NEW t \in Threads, NEW g, Goto(t, g)
  PROVE  frame'[t] = g /\ Rest(t)
BY DEF OrderInv, Goto, Rest

LEMMA FrameShaped == ASSUME OrderInv, NEW t \in Threads PROVE Shaped(frame[t])
BY DEF OrderInv, Reading

LEMMA CallFrame ==
  ASSUME OrderInv, NEW t \in Threads, NEW p, Call(t, p)
  PROVE  /\ frame'[t] = Rec("store", p, counts[p], NoRule, Live, 0, <<>>, <<>>, 0)
         /\ Rest(t)
<1>1. PICK g : Goto(t, g) /\ g = [Idle EXCEPT !.pc = "store", !.path = p, !.n = counts[p]]
  BY DEF Call
<1> QED
  BY <1>1, Went, CallEdit

LEMMA DeleteFrame ==
  ASSUME OrderInv, NEW t \in Threads, NEW id, DeleteCall(t, id)
  PROVE  /\ frame'[t] = Rec("remove", "none", Len(rules), id, Live, 0, <<>>, <<>>, 0)
         /\ Rest(t)
<1>1. PICK g : Goto(t, g) /\ g = [Idle EXCEPT !.pc = "remove", !.victim = id, !.n = Len(rules)]
  BY DEF DeleteCall
<1> QED
  BY <1>1, Went, DeleteEdit

LEMMA StoreFrame ==
  ASSUME OrderInv, NEW t \in Threads, Store(t), NEW f, f = frame[t]
  PROVE  /\ f.pc = "store"
         /\ frame'[t] = Rec("scan", f.path, 0, f.victim, f.src, f.i, f.out, f.active, f.at)
         /\ Rest(t)
<1>1. PICK g : f.pc = "store" /\ Goto(t, g) /\ g = [f EXCEPT !.pc = "scan", !.n = 0]
  BY DEF Store
<1> QED
  BY <1>1, Went, StoreEdit, FrameShaped

LEMMA ScanFrame ==
  ASSUME OrderInv, NEW t \in Threads, Scan(t), NEW f, f = frame[t],
         NEW x, x = ListIn(f, rules)[f.i + 1]
  PROVE  /\ f.pc = "scan" /\ Rest(t)
         /\ \/ /\ f.i < Len(ListIn(f, rules))
               /\ frame'[t] = Rec("scan", f.path, f.n, f.victim, f.src, f.i + 1,
                                  IF f.path \in rule[x].scope THEN Append(f.out, x) ELSE f.out,
                                  f.active, f.at)
            \/ /\ f.i >= Len(ListIn(f, rules))
               /\ frame'[t] = Rec("judge", f.path, f.n, f.victim, Live, 0, <<>>, f.out, f.at)
<1>1. Shaped(f) /\ f.pc = "scan" /\ ListOf(f) = ListIn(f, rules)
  BY FrameShaped DEF Scan, ListOf, ListIn
<1> DEFINE o == IF f.path \in rule[x].scope THEN Append(f.out, x) ELSE f.out
<1>2. ASSUME f.i < Len(ListIn(f, rules)), Goto(t, [f EXCEPT !.i = @ + 1, !.out = o])
      PROVE  Rest(t) /\ frame'[t] = Rec("scan", f.path, f.n, f.victim, f.src, f.i + 1,
                                        o, f.active, f.at)
  <2> HIDE DEF o
  <2>1. PICK g : Goto(t, g) /\ g = [f EXCEPT !.i = @ + 1, !.out = o]
    BY <1>2
  <2>2. g = Rec(f.pc, f.path, f.n, f.victim, f.src, f.i + 1, o, f.active, f.at)
    BY <1>1, <2>1, ReadEdit
  <2> QED
    BY <1>1, <2>1, <2>2, Went
<1>3. ASSUME NEW list, Goto(t, [f EXCEPT !.pc = "judge", !.src = Live, !.i = 0,
                                         !.out = <<>>, !.active = list])
      PROVE  Rest(t) /\ frame'[t] = Rec("judge", f.path, f.n, f.victim, Live, 0, <<>>,
                                        list, f.at)
  <2>1. PICK g : Goto(t, g) /\ g = [f EXCEPT !.pc = "judge", !.src = Live, !.i = 0,
                                              !.out = <<>>, !.active = list]
    BY <1>3
  <2> QED
    BY <1>1, <2>1, Went, ScannedEdit
<1>4. \/ /\ f.i < Len(ListIn(f, rules))
         /\ Goto(t, [f EXCEPT !.i = @ + 1, !.out = o])
      \/ /\ f.i >= Len(ListIn(f, rules))
         /\ Goto(t, [f EXCEPT !.pc = "judge", !.src = Live, !.i = 0,
                              !.out = <<>>, !.active = f.out])
  BY <1>1 DEF Scan
<1>5. CASE f.i < Len(ListIn(f, rules)) /\ Goto(t, [f EXCEPT !.i = @ + 1, !.out = o])
  BY <1>1, <1>2, <1>5
<1>6. CASE /\ f.i >= Len(ListIn(f, rules))
           /\ Goto(t, [f EXCEPT !.pc = "judge", !.src = Live, !.i = 0,
                                !.out = <<>>, !.active = f.out])
  BY <1>1, <1>3, <1>6
<1> QED
  BY <1>4, <1>5, <1>6

LEMMA JudgeFrame ==
  ASSUME OrderInv, NEW t \in Threads, Judge(t), NEW f, f = frame[t]
  PROVE  /\ f.pc = "judge" /\ Rest(t)
         /\ \/ /\ Ahead(f) = {} /\ frame'[t] = Idle
               /\ Answer("request", f.path, NoRule)
            \/ /\ reply' = reply
               /\ \E j \in Ahead(f) :
                    /\ \A k \in Ahead(f) \ {j} : Comes(f.active, j, k)
                    /\ \/ /\ rule[f.active[j]].kind = "rate_limit"
                          /\ ~Exceeds(counts[f.path], rule[f.active[j]])
                          /\ frame'[t] = Rec("judge", f.path, f.n, f.victim, f.src, f.i,
                                             f.out, f.active, j)
                       \/ /\ rule[f.active[j]].kind = "rate_limit" =>
                               Exceeds(counts[f.path], rule[f.active[j]])
                          /\ frame'[t] = Rec("consume", f.path, f.n, f.victim, f.src, f.i,
                                             f.out, f.active, j)
<1>1. Shaped(f) /\ f.pc = "judge"
  BY FrameShaped DEF Judge
<1>2. CASE Ahead(f) = {} /\ Goto(t, Idle) /\ Answer("request", f.path, NoRule)
  BY <1>1, <1>2, Went
<1>3. ASSUME reply' = reply, NEW j \in Ahead(f),
             \A k \in Ahead(f) \ {j} : Comes(f.active, j, k),
             \/ /\ rule[f.active[j]].kind = "rate_limit"
                /\ ~Exceeds(counts[f.path], rule[f.active[j]])
                /\ Goto(t, [f EXCEPT !.at = j])
             \/ /\ rule[f.active[j]].kind = "rate_limit" =>
                     Exceeds(counts[f.path], rule[f.active[j]])
                /\ Goto(t, [f EXCEPT !.pc = "consume", !.at = j])
      PROVE  /\ Rest(t)
             /\ \/ /\ rule[f.active[j]].kind = "rate_limit"
                   /\ ~Exceeds(counts[f.path], rule[f.active[j]])
                   /\ frame'[t] = Rec("judge", f.path, f.n, f.victim, f.src, f.i,
                                      f.out, f.active, j)
                \/ /\ rule[f.active[j]].kind = "rate_limit" =>
                        Exceeds(counts[f.path], rule[f.active[j]])
                   /\ frame'[t] = Rec("consume", f.path, f.n, f.victim, f.src, f.i,
                                      f.out, f.active, j)
  <2>1. CASE Goto(t, [f EXCEPT !.at = j])
    <3>1. PICK g : Goto(t, g) /\ g = [f EXCEPT !.at = j]
      BY <2>1
    <3>2. frame'[t] = g /\ Rest(t) /\ g = Rec("judge", f.path, f.n, f.victim, f.src, f.i,
                                              f.out, f.active, j)
      BY <1>1, <3>1, Went, PassEdit
    <3>3. CASE ~(rule[f.active[j]].kind = "rate_limit" /\ ~Exceeds(counts[f.path], rule[f.active[j]]))
      <4>1. PICK h : Goto(t, h) /\ h = [f EXCEPT !.pc = "consume", !.at = j]
        BY <1>3, <3>3
      <4> QED
        BY <1>1, <3>3, <4>1, Went, ApplyEdit
    <3> QED
      BY <3>2, <3>3
  <2>2. CASE Goto(t, [f EXCEPT !.pc = "consume", !.at = j])
    <3>1. PICK g : Goto(t, g) /\ g = [f EXCEPT !.pc = "consume", !.at = j]
      BY <2>2
    <3>2. frame'[t] = g /\ Rest(t) /\ g = Rec("consume", f.path, f.n, f.victim, f.src, f.i,
                                              f.out, f.active, j)
      BY <1>1, <3>1, Went, ApplyEdit
    <3>3. CASE rule[f.active[j]].kind = "rate_limit" /\ ~Exceeds(counts[f.path], rule[f.active[j]])
      <4>1. PICK h : Goto(t, h) /\ h = [f EXCEPT !.at = j]
        BY <1>3, <3>3
      <4> QED
        BY <1>1, <3>3, <4>1, Went, PassEdit
    <3> QED
      BY <3>2, <3>3
  <2> QED
    BY <1>3, <2>1, <2>2
<1> QED
  BY <1>1, <1>2, <1>3 DEF Judge

\* What Resume and AnswerOnResume make of a frame whose rule has been consumed.
Resumed(g, f) ==
  IF rule[Current(f)].kind = "latency"
    THEN /\ g = Rec("judge", f.path, f.n, NoRule, Live, 0, <<>>, f.active, f.at)
         /\ reply' = reply
    ELSE g = Idle /\ Answer("request", f.path, Current(f))

LEMMA ResumeIs ==
  ASSUME NEW t, NEW f, Shaped(f), AnswerOnResume(f)
  PROVE  Resumed(Resume(t, f), f)
<1>1. CASE rule[Current(f)].kind = "latency"
  <2>1. PICK g : g = [f EXCEPT !.pc = "judge", !.src = Live,
                               !.i = 0, !.out = <<>>, !.victim = NoRule]
    OBVIOUS
  <2>2. g = Rec("judge", f.path, f.n, NoRule, Live, 0, <<>>, f.active, f.at)
    BY <2>1, ResumeEdit
  <2>3. Resume(t, f) = g
    BY <1>1, <2>1 DEF Resume
  <2> QED
    BY <1>1, <2>2, <2>3 DEF Resumed, AnswerOnResume
<1>2. CASE rule[Current(f)].kind # "latency"
  BY <1>2 DEF Resumed, Resume, AnswerOnResume
<1> QED
  BY <1>1, <1>2

LEMMA ConsumeFrame ==
  ASSUME OrderInv, NEW t \in Threads, ConsumeStep(t), NEW f, f = frame[t],
         NEW r, r = Spend(rule[Current(f)])
  PROVE  /\ f.pc = "consume" /\ Rest(t)
         /\ rule' = [rule EXCEPT ![Current(f)] = r]
         /\ fired' = [fired EXCEPT ![Current(f)] = @ + 1]
         /\ \/ /\ Exhausted(r) /\ reply' = reply
               /\ frame'[t] = Rec("remove", f.path, f.n, Current(f), f.src, f.i, f.out,
                                  f.active, f.at)
            \/ ~Exhausted(r) /\ Resumed(frame'[t], f)
<1>1. Shaped(f) /\ f.pc = "consume"
  BY FrameShaped DEF ConsumeStep
<1>2. /\ rule' = [rule EXCEPT ![Current(f)] = r]
      /\ fired' = [fired EXCEPT ![Current(f)] = @ + 1]
  BY DEF ConsumeStep
<1>3. CASE Exhausted(r)
  <2>1. PICK g : Goto(t, g) /\ g = [f EXCEPT !.pc = "remove", !.victim = Current(f)]
    BY <1>3 DEF ConsumeStep
  <2>2. g = Rec("remove", f.path, f.n, Current(f), f.src, f.i, f.out, f.active, f.at)
    BY <1>1, <2>1, RemoveEdit
  <2>3. reply' = reply
    BY <1>3 DEF ConsumeStep
  <2> QED
    BY <1>1, <1>2, <1>3, <2>1, <2>2, <2>3, Went
<1>4. CASE ~Exhausted(r)
  <2>1. Goto(t, Resume(t, f)) /\ AnswerOnResume(f)
    BY <1>4 DEF ConsumeStep
  <2>2. Resumed(Resume(t, f), f)
    BY <1>1, <2>1, ResumeIs
  <2> QED
    BY <1>1, <1>2, <1>4, <2>1, <2>2, Went
<1> QED
  BY <1>3, <1>4

\* When remove binds its list, the other threads change no more than the list
\* they read.
RestBut(t) ==
  \A u \in Threads : u # t =>
    \/ frame'[u] = frame[u]
    \/ \E f \in {frame[u]} :
         /\ f.src = Live /\ f.i > 0
         /\ frame'[u] = Rec(f.pc, f.path, f.n, f.victim, rules, f.i, f.out, f.active, f.at)

LEMMA RemoveFrame ==
  ASSUME OrderInv, NEW t \in Threads, RemoveStep(t), NEW f, f = frame[t],
         NEW x, x = ListIn(f, rules)[f.i + 1]
  PROVE  /\ f.pc = "remove"
         /\ \/ /\ f.i < Len(ListIn(f, rules))
               /\ frame'[t] = Rec("remove", f.path, f.n, f.victim, f.src, f.i + 1,
                                  IF x # f.victim THEN Append(f.out, x) ELSE f.out,
                                  f.active, f.at)
               /\ Rest(t) /\ rules' = rules /\ reply' = reply
            \/ /\ f.i >= Len(ListIn(f, rules)) /\ RestBut(t) /\ rules' = f.out
               /\ IF f.at = 0
                    THEN /\ frame'[t] = Idle
                         /\ Answer(IF Len(f.out) # f.n THEN "deleted" ELSE "unknown",
                                   "none", f.victim)
                    ELSE Resumed(frame'[t], f)
<1>1. Shaped(f) /\ f.pc = "remove" /\ ListOf(f) = ListIn(f, rules)
  BY FrameShaped DEF RemoveStep, ListOf, ListIn
<1> DEFINE o == IF x # f.victim THEN Append(f.out, x) ELSE f.out
<1>2. ASSUME Goto(t, [f EXCEPT !.i = @ + 1, !.out = o])
      PROVE  Rest(t) /\ frame'[t] = Rec("remove", f.path, f.n, f.victim, f.src, f.i + 1,
                                        o, f.active, f.at)
  <2> HIDE DEF o
  <2>1. PICK g : Goto(t, g) /\ g = [f EXCEPT !.i = @ + 1, !.out = o]
    BY <1>2
  <2>2. g = Rec(f.pc, f.path, f.n, f.victim, f.src, f.i + 1, o, f.active, f.at)
    BY <1>1, <2>1, ReadEdit
  <2> QED
    BY <1>1, <2>1, <2>2, Went
<1>3. ASSUME NEW g, Rebind(t, f.out, g) PROVE frame'[t] = g /\ RestBut(t) /\ rules' = f.out
  <2>1. ASSUME NEW u \in Threads, u # t
        PROVE  \/ frame'[u] = frame[u]
               \/ \E e \in {frame[u]} :
                    /\ e.src = Live /\ e.i > 0
                    /\ frame'[u] = Rec(e.pc, e.path, e.n, e.victim, rules, e.i, e.out,
                                       e.active, e.at)
    <3> DEFINE e == frame[u]
    <3>1. CASE e.i > 0 /\ e.src = Live
      <4>1. PICK h : frame'[u] = h /\ h = [e EXCEPT !.src = rules]
        BY <1>3, <2>1, <3>1 DEF Rebind
      <4>2. Shaped(e)
        BY FrameShaped
      <4>3. h = Rec(e.pc, e.path, e.n, e.victim, rules, e.i, e.out, e.active, e.at)
        BY <4>1, <4>2, RebindEdit
      <4> QED
        BY <3>1, <4>1, <4>3
    <3>2. CASE ~(e.i > 0 /\ e.src = Live)
      BY <1>3, <2>1, <3>2 DEF Rebind
    <3> QED
      BY <3>1, <3>2
  <2>2. frame'[t] = g /\ rules' = f.out
    BY <1>3 DEF Rebind
  <2> QED
    BY <2>1, <2>2 DEF RestBut
<1>4. CASE /\ f.i < Len(ListIn(f, rules)) /\ rules' = rules /\ reply' = reply
           /\ Goto(t, [f EXCEPT !.i = @ + 1, !.out = o])
  BY <1>1, <1>2, <1>4
<1>5. CASE /\ f.i >= Len(ListIn(f, rules)) /\ f.at = 0 /\ Rebind(t, f.out, Idle)
           /\ Answer(IF Len(f.out) # f.n THEN "deleted" ELSE "unknown", "none", f.victim)
  BY <1>1, <1>3, <1>5
<1>6. CASE /\ f.i >= Len(ListIn(f, rules)) /\ f.at # 0 /\ Rebind(t, f.out, Resume(t, f))
           /\ AnswerOnResume(f)
  <2>1. Resumed(Resume(t, f), f)
    BY <1>1, <1>6, ResumeIs
  <2>2. frame'[t] = Resume(t, f) /\ RestBut(t) /\ rules' = f.out
    BY <1>3, <1>6
  <2> QED
    BY <1>1, <1>6, <2>1, <2>2
<1>7. \/ /\ f.i < Len(ListIn(f, rules)) /\ rules' = rules /\ reply' = reply
         /\ Goto(t, [f EXCEPT !.i = @ + 1, !.out = o])
      \/ /\ f.i >= Len(ListIn(f, rules)) /\ f.at = 0 /\ Rebind(t, f.out, Idle)
         /\ Answer(IF Len(f.out) # f.n THEN "deleted" ELSE "unknown", "none", f.victim)
      \/ /\ f.i >= Len(ListIn(f, rules)) /\ f.at # 0 /\ Rebind(t, f.out, Resume(t, f))
         /\ AnswerOnResume(f)
  BY <1>1 DEF RemoveStep
<1> QED
  BY <1>4, <1>5, <1>6, <1>7

LEMMA ResetFrame ==
  ASSUME OrderInv, NEW a, Goto(Loop, [Idle EXCEPT !.pc = a])
  PROVE  /\ frame'[Loop] = Rec(a, "none", 0, NoRule, Live, 0, <<>>, <<>>, 0)
         /\ Rest(Loop)
<1>1. PICK g : Goto(Loop, g) /\ g = [Idle EXCEPT !.pc = a]
  OBVIOUS
<1>2. Loop \in Threads
  BY DEF Threads
<1> QED
  BY <1>1, <1>2, Went, ResetEdit

(***************************************************************************)
(* Types and plans: the rest of the type invariant, and the order of the    *)
(* rules that evaluate has selected                                         *)
(***************************************************************************)
Planned(f, m) ==
  /\ f.pc \in {"idle", "store", "scan", "judge", "consume", "remove",
               "reset_counts", "reset_add"}
  /\ f.path \in Path \cup {"none"} /\ f.n \in Nat
  /\ f.active \in Seq(1 .. m) /\ Ascending(f.active) /\ f.at \in 0 .. Len(f.active)
  /\ f.pc = "consume" => f.at # 0
  /\ f.pc \in {"idle", "store", "scan"} => f.active = <<>> /\ f.at = 0

BookTyped ==
  /\ \A id \in Ids : rule[id].id = id
  /\ granted \in Seq(Int \cup {Persistent}) /\ Len(granted) = Len(rule)
  /\ fired \in Seq(Nat) /\ Len(fired) = Len(rule)
  /\ Len(rule) <= MaxRules /\ gone \subseteq 1 .. MaxRules
  /\ calls \in 0 .. MaxCalls

TypedInv == BookTyped /\ \A t \in Threads : Planned(frame[t], Len(rule))

LEMMA IdlePlanned == ASSUME NEW m \in Nat PROVE Planned(Idle, m)
<1>1. <<>> \in Seq(1 .. m) /\ DOMAIN <<>> = {} /\ Len(<<>>) = 0
  OBVIOUS
<1> QED
  BY <1>1, IdleRec DEF Rec, Planned, Ascending

\* Frames of operations that select nothing.
LEMMA BarePlanned ==
  ASSUME NEW m \in Nat, NEW a \in {"store", "remove", "reset_counts", "reset_add"},
         NEW p \in Path \cup {"none"}, NEW n \in Nat, NEW v
  PROVE  Planned(Rec(a, p, n, v, Live, 0, <<>>, <<>>, 0), m)
<1>1. <<>> \in Seq(1 .. m) /\ DOMAIN <<>> = {} /\ Len(<<>>) = 0
  OBVIOUS
<1> QED
  BY <1>1 DEF Rec, Planned, Ascending

\* The plan of f stands, whatever else happens to the frame.
LEMMA SamePlan ==
  ASSUME NEW f, NEW m \in Nat, Planned(f, m),
         NEW a \in {"judge", "remove"}, NEW n \in Nat, NEW v, NEW src, NEW i, NEW out
  PROVE  Planned(Rec(a, f.path, n, v, src, i, out, f.active, f.at), m)
BY DEF Rec, Planned

LEMMA FirstPlan ==
  ASSUME NEW f, NEW m \in Nat, Planned(f, m), f.pc \in {"store", "scan"},
         NEW n \in Nat, NEW v, NEW src, NEW i, NEW out
  PROVE  Planned(Rec("scan", f.path, n, v, src, i, out, f.active, f.at), m)
BY DEF Rec, Planned

LEMMA Replanned ==
  ASSUME NEW f, NEW m \in Nat, Planned(f, m), NEW src, NEW g,
         g = Rec(f.pc, f.path, f.n, f.victim, src, f.i, f.out, f.active, f.at)
  PROVE  Planned(g, m)
BY DEF Rec, Planned

LEMMA PlanWider ==
  ASSUME NEW f, NEW m \in Nat, Planned(f, m)  PROVE Planned(f, m + 1)
BY SeqWider DEF Planned

\* One thread moves, to a frame with a plan; the others keep theirs.
LEMMA PlansKept ==
  ASSUME TypedInv, NEW t \in Threads, Rest(t), Planned(frame'[t], Len(rule)),
         Len(rule') = Len(rule)
  PROVE  \A u \in Threads : Planned(frame'[u], Len(rule'))
BY DEF TypedInv, Rest

LEMMA BookKept ==
  ASSUME BookTyped, UNCHANGED <<rule, granted, fired, gone, calls>>  PROVE BookTyped'
BY DEF BookTyped, Ids

LEMMA TypedInit == Init => TypedInv
<1> SUFFICES ASSUME Init PROVE TypedInv
  OBVIOUS
<1>1. gone = {} /\ calls = 0 /\ calls \in 0 .. MaxCalls /\ \A t \in Threads : frame[t] = Idle
  BY BoundAssumption DEF Init
<1>2. CASE Baseline(1) = {}
  <2>1. rule = <<>> /\ granted = <<>> /\ fired = <<>>
    BY <1>2 DEF Init
  <2>2. Len(rule) = 0 /\ BookTyped
    BY <1>1, <2>1, BoundAssumption DEF BookTyped, Ids
  <2> QED
    BY <1>1, <2>2, IdlePlanned DEF TypedInv
<1>3. CASE Baseline(1) # {}
  <2>1. PICK r \in Baseline(1) : rule = <<r>> /\ granted = <<Persistent>> /\ fired = <<0>>
    BY <1>3 DEF Init
  <2>2. r.id = 1 /\ MaxRules >= 1
    BY <1>3, BoundAssumption DEF Baseline
  <2>3. Len(rule) = 1 /\ BookTyped
    BY <1>1, <2>1, <2>2, BoundAssumption DEF BookTyped, Ids
  <2> QED
    BY <1>1, <2>3, IdlePlanned DEF TypedInv
<1> QED
  BY <1>2, <1>3

LEMMA CallTyped ==
  ASSUME EngineInv, TypedInv, NEW t \in Threads, NEW p \in Path, Call(t, p)
  PROVE  TypedInv'
<1>1. /\ rule' = rule /\ granted' = granted /\ fired' = fired /\ gone' = gone
      /\ calls' = calls + 1 /\ calls < MaxCalls /\ Len(rule) \in Nat /\ counts[p] \in Nat
  BY DEF Call, EngineInv, OrderInv, CountInv
<1>2. BookTyped'
  BY <1>1, BoundAssumption DEF TypedInv, BookTyped, Ids
<1>3. Rest(t) /\ frame'[t] = Rec("store", p, counts[p], NoRule, Live, 0, <<>>, <<>>, 0)
  BY CallFrame DEF EngineInv
<1>4. Planned(frame'[t], Len(rule))
  BY <1>1, <1>3, BarePlanned
<1> QED
  BY <1>1, <1>2, <1>3, <1>4, PlansKept DEF TypedInv

LEMMA DeleteTyped ==
  ASSUME EngineInv, TypedInv, NEW t \in Threads, NEW id \in 1 .. MaxRules, DeleteCall(t, id)
  PROVE  TypedInv'
<1>1. /\ rule' = rule /\ granted' = granted /\ fired' = fired /\ gone' = gone \cup {id}
      /\ calls' = calls + 1 /\ calls < MaxCalls /\ Len(rule) \in Nat /\ Len(rules) \in Nat
  BY DEF DeleteCall, EngineInv, OrderInv
<1>2. BookTyped'
  BY <1>1, BoundAssumption DEF TypedInv, BookTyped, Ids
<1>3. Rest(t) /\ frame'[t] = Rec("remove", "none", Len(rules), id, Live, 0, <<>>, <<>>, 0)
  BY DeleteFrame DEF EngineInv
<1>4. Planned(frame'[t], Len(rule))
  BY <1>1, <1>3, BarePlanned
<1> QED
  BY <1>1, <1>2, <1>3, <1>4, PlansKept DEF TypedInv

LEMMA StoreTyped ==
  ASSUME EngineInv, TypedInv, NEW t \in Threads, Store(t)  PROVE TypedInv'
<1> DEFINE f == frame[t]
<1>1. UNCHANGED <<rule, granted, fired, gone, calls>> /\ Len(rule) \in Nat /\ Planned(f, Len(rule))
  BY DEF Store, EngineInv, OrderInv, TypedInv
<1>2. Rest(t) /\ frame'[t] = Rec("scan", f.path, 0, f.victim, f.src, f.i, f.out, f.active, f.at)
  BY StoreFrame DEF EngineInv
<1>3. Planned(frame'[t], Len(rule))
  <2>1. f.pc = "store" /\ 0 \in Nat
    BY DEF Store
  <2> QED
    BY <1>1, <1>2, <2>1, FirstPlan
<1> QED
  BY <1>1, <1>2, <1>3, PlansKept, BookKept DEF TypedInv

LEMMA ScanTyped ==
  ASSUME EngineInv, TypedInv, NEW t \in Threads, Scan(t)  PROVE TypedInv'
<1> DEFINE f == frame[t]
           x == ListIn(f, rules)[f.i + 1]
           o == IF f.path \in rule[x].scope THEN Append(f.out, x) ELSE f.out
<1>1. /\ UNCHANGED <<rule, granted, fired, gone, calls>> /\ Len(rule) \in Nat
      /\ Planned(f, Len(rule)) /\ Reading(f, rules, Len(rule))
  BY DEF Scan, EngineInv, OrderInv, TypedInv
<1>2. /\ Rest(t)
      /\ \/ frame'[t] = Rec("scan", f.path, f.n, f.victim, f.src, f.i + 1, o, f.active, f.at)
         \/ frame'[t] = Rec("judge", f.path, f.n, f.victim, Live, 0, <<>>, f.out, f.at)
  BY ScanFrame DEF EngineInv
<1>0. f.pc = "scan"
  BY DEF Scan
<1>3. CASE frame'[t] = Rec("scan", f.path, f.n, f.victim, f.src, f.i + 1, o, f.active, f.at)
  <2> HIDE DEF o
  <2>1. f.n \in Nat
    BY <1>1 DEF Planned
  <2>2. Planned(frame'[t], Len(rule))
    BY <1>0, <1>1, <1>3, <2>1, FirstPlan
  <2> QED
    BY <1>1, <1>2, <2>2, PlansKept, BookKept DEF TypedInv
<1>4. CASE frame'[t] = Rec("judge", f.path, f.n, f.victim, Live, 0, <<>>, f.out, f.at)
  <2>1. /\ f.out \in Seq(1 .. Len(rule)) /\ Ascending(f.out) /\ f.n \in Nat
        /\ f.path \in Path \cup {"none"}
    BY <1>1 DEF Planned, Reading
  <2>2. f.at = 0
    BY <1>0, <1>1 DEF Planned
  <2>3. Planned(frame'[t], Len(rule))
    BY <1>4, <2>1, <2>2 DEF Planned, Rec
  <2> QED
    BY <1>1, <1>2, <2>3, PlansKept, BookKept DEF TypedInv
<1> QED
  BY <1>2, <1>3, <1>4

LEMMA JudgeTyped ==
  ASSUME EngineInv, TypedInv, NEW t \in Threads, Judge(t)  PROVE TypedInv'
<1> DEFINE f == frame[t]
<1>0. UNCHANGED <<rule, granted, fired, gone, calls>>
  BY DEF Judge
<1>1. Len(rule) \in Nat /\ Planned(f, Len(rule)) /\ Len(rule') = Len(rule)
  BY <1>0 DEF EngineInv, OrderInv, TypedInv
<1>2. Rest(t)
  BY JudgeFrame DEF EngineInv
<1>3. Planned(frame'[t], Len(rule))
  <2>1. CASE frame'[t] = Idle
    BY <1>1, <2>1, IdlePlanned
  <2>2. CASE frame'[t] # Idle
    <3>1. PICK j, a :
            /\ j \in Ahead(f) /\ a \in {"judge", "consume"}
            /\ frame'[t] = Rec(a, f.path, f.n, f.victim, f.src, f.i, f.out, f.active, j)
      BY <2>2, JudgeFrame DEF EngineInv
    <3>2. j \in 1 .. Len(f.active) /\ Len(f.active) \in Nat
      BY <1>1, <3>1 DEF Ahead, Planned
    <3> QED
      BY <1>1, <3>1, <3>2 DEF Planned, Rec
  <2> QED
    BY <2>1, <2>2
<1> QED
  BY <1>0, <1>1, <1>2, <1>3, PlansKept, BookKept DEF TypedInv

\* What Spend makes of a rule, in the sequence of all rules.
LEMMA SpentRule ==
  ASSUME rule \in Seq(Rule), NEW id \in Ids, rule' = [rule EXCEPT ![id] = Spend(rule[id])]
  PROVE  /\ Len(rule') = Len(rule) /\ \A k \in Ids : k # id => rule'[k] = rule[k]
         /\ rule'[id].id = rule[id].id /\ rule'[id].kind = rule[id].kind
         /\ rule'[id].scope = rule[id].scope /\ rule'[id].after = rule[id].after
         /\ rule'[id].times = IF rule[id].times = Persistent THEN Persistent
                                                             ELSE rule[id].times - 1
<1> DEFINE r == rule[id]
<1>1. Len(rule) \in Nat /\ DOMAIN rule = Ids /\ r \in Rule
  BY DEF Ids
<1>2. rule'[id] = Spend(r) /\ Len(rule') = Len(rule) /\ \A k \in Ids : k # id => rule'[k] = rule[k]
  BY <1>1
<1>3. PICK n : n = IF r.times = Persistent THEN Persistent ELSE r.times - 1
  OBVIOUS
<1>4. Spend(r) = [r EXCEPT !.times = n]
  BY <1>1, <1>3 DEF Spend, Rule
<1> HIDE DEF r
<1>5. /\ Spend(r).id = r.id /\ Spend(r).kind = r.kind /\ Spend(r).scope = r.scope
      /\ Spend(r).after = r.after /\ Spend(r).times = n
  BY <1>1, <1>4 DEF Rule
<1> QED
  BY <1>2, <1>3, <1>5 DEF r

LEMMA ResumedPlanned ==
  ASSUME NEW f, NEW m \in Nat, Planned(f, m), NEW g, Resumed(g, f)  PROVE Planned(g, m)
<1>1. f.n \in Nat
  BY DEF Planned
<1>2. ASSUME g = Rec("judge", f.path, f.n, NoRule, Live, 0, <<>>, f.active, f.at)
      PROVE  Planned(g, m)
  BY <1>1, <1>2, SamePlan
<1> QED
  BY <1>2, IdlePlanned DEF Resumed

\* The position in turn is one of the list.
LEMMA CurrentRule ==
  ASSUME TypedInv, NEW t \in Threads, frame[t].pc = "consume"
  PROVE  /\ frame[t].at \in DOMAIN frame[t].active
         /\ Current(frame[t]) \in Ids /\ Current(frame[t]) \in Members(frame[t].active)
<1> DEFINE f == frame[t]
<1>1. f.active \in Seq(1 .. Len(rule)) /\ f.at \in 0 .. Len(f.active) /\ f.at # 0
  BY DEF TypedInv, Planned
<1>2. f.at \in 1 .. Len(f.active) /\ DOMAIN f.active = 1 .. Len(f.active)
  BY <1>1
<1>3. f.active[f.at] \in 1 .. Len(rule)
  BY <1>1, <1>2
<1> QED
  BY <1>2, <1>3 DEF Current, Ids, Members

LEMMA ConsumeTyped ==
  ASSUME EngineInv, TypedInv, NEW t \in Threads, ConsumeStep(t)  PROVE TypedInv'
<1> DEFINE f  == frame[t]
           id == Current(f)
           r  == Spend(rule[id])
<1>1. /\ UNCHANGED <<granted, gone, calls>> /\ Len(rule) \in Nat /\ rule \in Seq(Rule)
      /\ f.pc = "consume" /\ Planned(f, Len(rule))
  BY DEF ConsumeStep, EngineInv, OrderInv, TypedInv
<1>2. id \in Ids
  BY <1>1, CurrentRule
<1>3. /\ rule' = [rule EXCEPT ![id] = r] /\ fired' = [fired EXCEPT ![id] = @ + 1] /\ Rest(t)
      /\ \/ frame'[t] = Rec("remove", f.path, f.n, id, f.src, f.i, f.out, f.active, f.at)
         \/ Resumed(frame'[t], f)
  BY ConsumeFrame DEF EngineInv
<1>4. Len(rule') = Len(rule) /\ \A k \in Ids : rule'[k].id = rule[k].id
  BY <1>1, <1>2, <1>3, SpentRule
<1>5. fired' \in Seq(Nat) /\ Len(fired') = Len(fired)
  BY <1>2, <1>3 DEF TypedInv, BookTyped, Ids
<1>6. BookTyped'
  BY <1>1, <1>4, <1>5 DEF TypedInv, BookTyped, Ids
<1>7. Planned(frame'[t], Len(rule))
  <2>1. f.n \in Nat
    BY <1>1 DEF Planned
  <2> HIDE DEF f, id
  <2> QED
    BY <1>1, <1>3, <2>1, SamePlan, ResumedPlanned
<1> QED
  BY <1>3, <1>4, <1>6, <1>7, PlansKept DEF TypedInv

LEMMA RemoveTyped ==
  ASSUME EngineInv, TypedInv, NEW t \in Threads, RemoveStep(t)  PROVE TypedInv'
<1> DEFINE f == frame[t]
           x == ListIn(f, rules)[f.i + 1]
           o == IF x # f.victim THEN Append(f.out, x) ELSE f.out
<1>1. /\ UNCHANGED <<rule, granted, fired, gone, calls>> /\ Len(rule) \in Nat
      /\ \A u \in Threads : Planned(frame[u], Len(rule))
  BY DEF RemoveStep, EngineInv, OrderInv, TypedInv
<1>2. /\ Rest(t) \/ RestBut(t)
      /\ \/ frame'[t] = Rec("remove", f.path, f.n, f.victim, f.src, f.i + 1, o, f.active, f.at)
         \/ frame'[t] = Idle
         \/ Resumed(frame'[t], f)
  BY RemoveFrame DEF EngineInv
<1>3. Planned(frame'[t], Len(rule))
  <2>1. f.n \in Nat /\ Planned(f, Len(rule))
    BY <1>1 DEF Planned
  <2> HIDE DEF f, o
  <2> QED
    BY <1>1, <1>2, <2>1, SamePlan, IdlePlanned, ResumedPlanned
<1>4. ASSUME NEW u \in Threads, u # t PROVE Planned(frame'[u], Len(rule))
  <2>1. CASE frame'[u] = frame[u]
    BY <1>1, <2>1
  <2>2. CASE frame'[u] # frame[u]
    <3> DEFINE e == frame[u]
    <3>1. frame'[u] = Rec(e.pc, e.path, e.n, e.victim, rules, e.i, e.out, e.active, e.at)
      BY <1>2, <1>4, <2>2 DEF Rest, RestBut
    <3>2. Planned(e, Len(rule))
      BY <1>1
    <3> HIDE DEF e
    <3> QED
      BY <1>1, <3>1, <3>2, Replanned
  <2> QED
    BY <2>1, <2>2
<1> QED
  BY <1>1, <1>3, <1>4, BookKept DEF TypedInv

\* A new rule: its id is the next one.
LEMMA AddTyped ==
  ASSUME EngineInv, TypedInv, NEW r, r.id = Len(rule) + 1, r.times \in Int \cup {Persistent},
         AddRule(r), UNCHANGED gone, calls' = calls \/ (calls < MaxCalls /\ calls' = calls + 1),
         frame' = frame \/ Goto(Loop, Idle)
  PROVE  TypedInv'
<1>1. /\ Len(rule) \in Nat /\ rule' = Append(rule, r) /\ granted' = Append(granted, r.times)
      /\ fired' = Append(fired, 0) /\ Len(rule) < MaxRules /\ rule \in Seq(Rule)
  BY DEF AddRule, EngineInv, OrderInv
<1>2. /\ Len(rule') = Len(rule) + 1 /\ \A id \in Ids : rule'[id] = rule[id]
      /\ rule'[Len(rule) + 1] = r
  BY <1>1 DEF Ids
<1>3. /\ granted' \in Seq(Int \cup {Persistent}) /\ Len(granted') = Len(rule')
      /\ fired' \in Seq(Nat) /\ Len(fired') = Len(rule')
  BY <1>1, <1>2 DEF TypedInv, BookTyped
<1>4. BookTyped'
  <2>1. \A id \in 1 .. Len(rule) + 1 : rule'[id].id = id
    BY <1>1, <1>2 DEF TypedInv, BookTyped, Ids
  <2>2. Len(rule') <= MaxRules /\ calls' \in 0 .. MaxCalls
    BY <1>1, <1>2, BoundAssumption DEF TypedInv, BookTyped
  <2> QED
    BY <1>2, <1>3, <2>1, <2>2 DEF TypedInv, BookTyped, Ids
<1>5. \A u \in Threads : frame'[u] = frame[u] \/ frame'[u] = Idle
  BY DEF EngineInv, OrderInv, Goto
<1>6. ASSUME NEW u \in Threads PROVE Planned(frame'[u], Len(rule'))
  <2>1. Planned(frame[u], Len(rule) + 1)
    BY <1>1, PlanWider DEF TypedInv
  <2>2. Planned(Idle, Len(rule) + 1)
    BY <1>1, IdlePlanned
  <2> QED
    BY <1>2, <1>5, <2>1, <2>2
<1> QED
  BY <1>4, <1>6 DEF TypedInv

LEMMA InjectTyped ==
  ASSUME TemplatesTyped, EngineInv, TypedInv, NEW tpl \in Templates, InjectCall(tpl)
  PROVE  TypedInv'
<1>1. PICK r : /\ AddRule(r) /\ UNCHANGED <<gone, frame>>
               /\ calls < MaxCalls /\ calls' = calls + 1
               /\ r = [id |-> Len(rule) + 1, kind |-> tpl.kind, scope |-> tpl.scope,
                       times |-> tpl.times, after |-> tpl.after]
  BY DEF InjectCall
<1>2. r.id = Len(rule) + 1 /\ r.times \in Int \cup {Persistent}
  BY <1>1 DEF TemplatesTyped
<1> QED
  BY <1>1, <1>2, AddTyped

\* A clear or a reset means to drop every rule.
LEMMA SweptTyped ==
  ASSUME BookTyped, Len(rule) \in Nat, UNCHANGED <<rule, granted, fired>>,
         calls' = calls + 1, calls < MaxCalls, gone' = gone \cup Ids
  PROVE  BookTyped'
<1>1. gone' \subseteq 1 .. MaxRules
  <2>1. gone \subseteq 1 .. MaxRules /\ Len(rule) <= MaxRules /\ MaxRules \in Nat
    BY BoundAssumption DEF BookTyped
  <2>2. Ids \subseteq 1 .. MaxRules
    BY <2>1 DEF Ids
  <2> QED
    BY <2>1, <2>2
<1>2. calls' \in 0 .. MaxCalls
  BY BoundAssumption DEF BookTyped
<1> QED
  BY <1>1, <1>2 DEF BookTyped, Ids

LEMMA ResetTyped ==
  ASSUME EngineInv, TypedInv, ResetCall \/ ResetCounts \/ ResetAdd  PROVE TypedInv'
<1>1. Len(rule) \in Nat /\ Loop \in Threads
  BY DEF EngineInv, OrderInv, Threads
<1>2. ASSUME NEW a \in {"reset_counts", "reset_add"}, Goto(Loop, [Idle EXCEPT !.pc = a])
      PROVE  Rest(Loop) /\ Planned(frame'[Loop], Len(rule))
  <2>1. /\ frame'[Loop] = Rec(a, "none", 0, NoRule, Live, 0, <<>>, <<>>, 0)
        /\ Rest(Loop)
    BY <1>2, ResetFrame DEF EngineInv
  <2>2. 0 \in Nat /\ "none" \in Path \cup {"none"}
    OBVIOUS
  <2> QED
    BY <1>1, <2>1, <2>2, BarePlanned
<1>3. CASE ResetCall
  <2>1. /\ UNCHANGED <<rule, granted, fired>> /\ calls' = calls + 1 /\ calls < MaxCalls
        /\ gone' = gone \cup Ids /\ Goto(Loop, [Idle EXCEPT !.pc = "reset_counts"])
    BY <1>3 DEF ResetCall
  <2>2. BookTyped'
    BY <1>1, <2>1, SweptTyped DEF TypedInv
  <2>3. Rest(Loop) /\ Planned(frame'[Loop], Len(rule))
    BY <1>2, <2>1
  <2> QED
    BY <1>1, <2>1, <2>2, <2>3, PlansKept DEF TypedInv
<1>4. CASE ResetCounts
  <2>1. /\ UNCHANGED <<rule, granted, fired, gone, calls>>
        /\ Goto(Loop, [Idle EXCEPT !.pc = "reset_add"])
    BY <1>4 DEF ResetCounts
  <2>2. Rest(Loop) /\ Planned(frame'[Loop], Len(rule))
    BY <1>2, <2>1
  <2> QED
    BY <1>1, <2>1, <2>2, PlansKept, BookKept DEF TypedInv
<1>5. CASE ResetAdd /\ UNCHANGED <<rules, rule, granted, fired>>
  <2>1. Goto(Loop, Idle) /\ UNCHANGED <<gone, calls>>
    BY <1>5 DEF ResetAdd
  <2>2. Rest(Loop) /\ Planned(frame'[Loop], Len(rule))
    BY <1>1, <2>1, Went, IdlePlanned DEF EngineInv
  <2> QED
    BY <1>1, <1>5, <2>1, <2>2, PlansKept, BookKept DEF TypedInv
<1>6. ASSUME ResetAdd, NEW r \in Baseline(Len(rule) + 1), AddRule(r) PROVE TypedInv'
  <2>1. r.id = Len(rule) + 1 /\ r.times \in Int \cup {Persistent}
    BY <1>6 DEF Baseline
  <2>2. UNCHANGED <<gone, calls>> /\ Goto(Loop, Idle)
    BY <1>6 DEF ResetAdd
  <2> QED
    BY <1>6, <2>1, <2>2, AddTyped
<1> QED
  BY <1>3, <1>4, <1>5, <1>6 DEF ResetAdd

LEMMA ClearTyped ==
  ASSUME EngineInv, TypedInv, NEW t \in Threads, ClearCall(t)  PROVE TypedInv'
<1>1. /\ UNCHANGED <<rule, granted, fired, frame>> /\ calls' = calls + 1 /\ calls < MaxCalls
      /\ gone' = gone \cup Ids /\ Len(rule) \in Nat
  BY DEF ClearCall, EngineInv, OrderInv
<1>2. BookTyped'
  BY <1>1, SweptTyped DEF TypedInv
<1> QED
  BY <1>1, <1>2 DEF TypedInv

LEMMA TypedStep ==
  ASSUME TemplatesTyped, EngineInv, TypedInv, [Next]_vars  PROVE TypedInv'
<1>1. CASE UNCHANGED vars
  BY <1>1, BookKept DEF vars, TypedInv
<1>2. ASSUME NEW t \in Threads, Start(t) PROVE TypedInv'
  BY <1>2, CallTyped, DeleteTyped, ClearTyped, InjectTyped, ResetTyped DEF Start
<1>3. ASSUME NEW t \in Threads, Continue(t) PROVE TypedInv'
  BY <1>3, StoreTyped, ScanTyped, JudgeTyped, ConsumeTyped, RemoveTyped, ResetTyped DEF Continue
<1> QED
  BY <1>1, <1>2, <1>3 DEF Next

(***************************************************************************)
(* Rules under a disciplined use: the pool evaluates and nothing else, and  *)
(* a rule with `times' lists paths of the event loop only                   *)
(***************************************************************************)
Disciplined ==
  /\ WorkerOps \subseteq {"evaluate"}
  /\ \A tpl \in Templates : tpl.times = Persistent \/ tpl.scope \subseteq LoopPaths

Spent(times, n) == times # Persistent /\ n >= Budget(times)

\* Ahead, as a function of the rules.
AheadIn(book, active, at) ==
  {j \in DOMAIN active :
     \/ at = 0
     \/ Rank(book[active[at]]) < Rank(book[active[j]])
     \/ Rank(book[active[at]]) = Rank(book[active[j]]) /\ at < j}

\* The positions of f that may still be consumed.
Pending(f, book) ==
  AheadIn(book, f.active, f.at) \cup (IF f.pc = "consume" THEN {f.at} ELSE {})

\* A rule with `times' counts its firings down; on paths of the loop only.
AccountInv ==
  \A id \in Ids :
    IF rule[id].times = Persistent
      THEN granted[id] = Persistent
      ELSE /\ rule[id].scope \subseteq LoopPaths
           /\ granted[id] # Persistent /\ rule[id].times = granted[id] - fired[id]
           /\ fired[id] <= Budget(granted[id])

\* A thread of the pool is evaluating, and what it selects matches its path.
WorkerFits(f, book) ==
  /\ f.pc \in {"idle", "store", "scan", "judge", "consume"}
  /\ f.pc # "idle" => f.path \notin LoopPaths
  /\ \A id \in Members(f.active) \cup Members(f.out) : f.path \in book[id].scope

\* What the loop has selected and may still consume is not spent; a rule that it
\* removes is, and its copy of the list lacks nothing else.
LoopFits(f, live, book, g, n) ==
  /\ f.src = Live
  /\ f.pc \notin {"scan", "remove"} => f.i = 0
  /\ f.pc \in {"store", "scan"} => \A id \in Members(f.out) : ~Spent(g[id], n[id])
  /\ \A j \in Pending(f, book) : ~Spent(g[f.active[j]], n[f.active[j]])
  /\ f.pc = "remove" =>
       /\ f.at # 0 /\ f.victim = Current(f) /\ Spent(g[f.victim], n[f.victim])
       /\ f.i <= Len(live) /\ Members(f.out) = {live[k] : k \in 1 .. f.i} \ {f.victim}

\* A rule is in the list, or it is spent, or somebody dropped it; the only spent
\* rule in the list is the one being removed.
ListInv ==
  /\ gone \subseteq Ids /\ Members(rules) \cap gone = {}
  /\ \A id \in Ids \ gone : id \in Members(rules) \/ Spent(granted[id], fired[id])
  /\ \A id \in Members(rules) : Spent(granted[id], fired[id]) =>
       frame[Loop].pc = "remove" /\ frame[Loop].victim = id

SafeInv ==
  /\ AccountInv
  /\ \A t \in Workers : WorkerFits(frame[t], rule)
  /\ LoopFits(frame[Loop], rules, rule, granted, fired)
  /\ ListInv

LEMMA MembersOfEmpty == Members(<<>>) = {}
BY DEF Members

LEMMA MembersOfAppend ==
  ASSUME NEW S, NEW s \in Seq(S), NEW x \in S
  PROVE  Members(Append(s, x)) = Members(s) \cup {x}
<1>1. /\ Len(s) \in Nat /\ DOMAIN s = 1 .. Len(s)
      /\ DOMAIN Append(s, x) = 1 .. Len(s) + 1
      /\ \A k \in 1 .. Len(s) : Append(s, x)[k] = s[k]
      /\ Append(s, x)[Len(s) + 1] = x
  OBVIOUS
<1>2. 1 .. Len(s) + 1 = 1 .. Len(s) \cup {Len(s) + 1}
  BY <1>1
<1> QED
  BY <1>1, <1>2, Zenon DEF Members

LEMMA MembersTyped ==
  ASSUME NEW S, NEW s \in Seq(S)  PROVE Members(s) \subseteq S
BY DEF Members

LEMMA AheadIs ==
  ASSUME NEW f PROVE Ahead(f) = AheadIn(rule, f.active, f.at)
BY DEF Ahead, AheadIn, Comes

\* The kinds decide.
LEMMA AheadSame ==
  ASSUME NEW m \in Nat, NEW active \in Seq(1 .. m), NEW at \in 0 .. Len(active),
         NEW a, NEW b, \A id \in 1 .. m : a[id].kind = b[id].kind
  PROVE  AheadIn(a, active, at) = AheadIn(b, active, at)
<1>1. \A j \in DOMAIN active : Rank(a[active[j]]) = Rank(b[active[j]])
  BY DEF Rank
<1>2. at = 0 \/ at \in DOMAIN active
  OBVIOUS
<1> QED
  BY <1>1, <1>2 DEF AheadIn

\* Passing on to the next position leaves fewer.
LEMMA AheadShrinks ==
  ASSUME NEW m \in Nat, NEW active \in Seq(1 .. m), NEW at \in 0 .. Len(active),
         NEW book, NEW j \in AheadIn(book, active, at)
  PROVE  AheadIn(book, active, j) \subseteq AheadIn(book, active, at) \ {j}
<1>1. \A k \in DOMAIN active : Rank(book[active[k]]) \in Nat /\ k \in Nat
  BY DEF Rank
<1>2. j \in DOMAIN active /\ j # 0
  BY DEF AheadIn
<1>3. at = 0 \/ at \in DOMAIN active
  OBVIOUS
<1> QED
  BY <1>1, <1>2, <1>3 DEF AheadIn

LEMMA AheadOthers ==
  ASSUME NEW m \in Nat, NEW active \in Seq(1 .. m), NEW at \in DOMAIN active,
         NEW book, NEW j \in AheadIn(book, active, at)
  PROVE  j \in DOMAIN active /\ j # at
<1>1. at # 0 /\ at \in Nat /\ Rank(book[active[at]]) \in Nat
  BY DEF Rank
<1> QED
  BY <1>1 DEF AheadIn

LEMMA IdleFits ==
  ASSUME NEW live, NEW book, NEW g, NEW n
  PROVE  WorkerFits(Idle, book) /\ LoopFits(Idle, live, book, g, n)
<1>1. /\ Idle.pc = "idle" /\ Idle.src = Live /\ Idle.i = 0 /\ Idle.out = <<>>
      /\ Idle.active = <<>> /\ DOMAIN <<>> = {}
  BY DEF Idle
<1>2. Pending(Idle, book) = {}
  BY <1>1 DEF Pending, AheadIn
<1> QED
  BY <1>1, <1>2, MembersOfEmpty DEF WorkerFits, LoopFits

(***************************************************************************)
(* Discipline: the steps of the pool                                        *)
(***************************************************************************)
LEMMA LoopNotInPool == Loop \in Threads /\ Loop \notin Workers /\ Workers \subseteq Threads
BY ThreadAssumption DEF Threads

\* A thread of the pool moves and no rule changes.
LEMMA PoolMoves ==
  ASSUME EngineInv, TypedInv, SafeInv, NEW t \in Workers, Rest(t),
         WorkerFits(frame'[t], rule), UNCHANGED <<rules, rule, granted, gone>>,
         \A id \in Ids : Spent(granted[id], fired'[id]) <=> Spent(granted[id], fired[id]),
         AccountInv'
  PROVE  SafeInv'
<1> DEFINE f == frame[Loop]
<1>1. frame'[Loop] = f /\ \A u \in Workers : u # t => frame'[u] = frame[u]
  BY LoopNotInPool DEF Rest
<1>2. \A u \in Workers : WorkerFits(frame'[u], rule')
  BY <1>1 DEF SafeInv
<1>3. LoopFits(f, rules, rule, granted, fired)
  BY DEF SafeInv
<1>4. /\ Members(f.out) \subseteq Ids /\ f.active \in Seq(Ids) /\ f.at \in 0 .. Len(f.active)
      /\ f.pc = "consume" => f.at # 0
  BY LoopNotInPool, MembersTyped DEF EngineInv, OrderInv, Reading, TypedInv, Planned, Ids
<1>5. Pending(f, rule) \subseteq DOMAIN f.active
  BY <1>4 DEF Pending, AheadIn
<1>6. \A j \in Pending(f, rule) : f.active[j] \in Ids
  BY <1>4, <1>5
<1>7. f.at # 0 => Current(f) \in Ids
  BY <1>4 DEF Current
<1>8. LoopFits(f, rules, rule, granted, fired')
  BY <1>3, <1>4, <1>6, <1>7 DEF LoopFits
<1>9. Ids' = Ids /\ Members(rules) \subseteq Ids
  BY MembersTyped DEF Ids, EngineInv, OrderInv
<1>10. ListInv'
  BY <1>1, <1>9 DEF SafeInv, ListInv
<1> QED
  BY <1>1, <1>2, <1>8, <1>10 DEF SafeInv

\* ... and nothing is consumed either.
LEMMA PoolReads ==
  ASSUME EngineInv, TypedInv, SafeInv, NEW t \in Workers, Rest(t),
         WorkerFits(frame'[t], rule), UNCHANGED <<rules, rule, granted, fired, gone>>
  PROVE  SafeInv'
<1>1. AccountInv'
  BY DEF SafeInv, AccountInv, Ids
<1> QED
  BY <1>1, PoolMoves

LEMMA PoolCall ==
  ASSUME EngineInv, TypedInv, SafeInv, NEW t \in Workers, NEW p \in Path, Call(t, p)
  PROVE  SafeInv'
<1>1. t \in Threads
  BY LoopNotInPool
<1>2. /\ UNCHANGED <<rules, rule, granted, fired, gone>> /\ p \notin LoopPaths
  BY PathsAreThreads DEF Call
<1>3. frame'[t] = Rec("store", p, counts[p], NoRule, Live, 0, <<>>, <<>>, 0) /\ Rest(t)
  BY <1>1, CallFrame DEF EngineInv
<1>4. WorkerFits(frame'[t], rule)
  BY <1>2, <1>3, MembersOfEmpty DEF WorkerFits, Rec
<1> QED
  BY <1>2, <1>3, <1>4, PoolReads

LEMMA PoolStore ==
  ASSUME EngineInv, TypedInv, SafeInv, NEW t \in Workers, Store(t)  PROVE SafeInv'
<1> DEFINE f == frame[t]
<1>1. t \in Threads /\ WorkerFits(f, rule)
  BY LoopNotInPool DEF SafeInv
<1>2. UNCHANGED <<rules, rule, granted, fired, gone>>
  BY DEF Store
<1>3. /\ f.pc = "store"
      /\ frame'[t] = Rec("scan", f.path, 0, f.victim, f.src, f.i, f.out, f.active, f.at)
      /\ Rest(t)
  BY <1>1, StoreFrame DEF EngineInv
<1>4. WorkerFits(frame'[t], rule)
  BY <1>1, <1>3 DEF WorkerFits, Rec
<1> QED
  BY <1>2, <1>3, <1>4, PoolReads

LEMMA PoolScan ==
  ASSUME EngineInv, TypedInv, SafeInv, NEW t \in Workers, Scan(t)  PROVE SafeInv'
<1> DEFINE f == frame[t]
           x == ListIn(f, rules)[f.i + 1]
           o == IF f.path \in rule[x].scope THEN Append(f.out, x) ELSE f.out
<1>1. /\ t \in Threads /\ WorkerFits(f, rule) /\ Reading(f, rules, Len(rule))
      /\ rules \in Seq(1 .. Len(rule)) /\ Ids = 1 .. Len(rule)
  BY LoopNotInPool DEF SafeInv, EngineInv, OrderInv, Ids
<1>2. UNCHANGED <<rules, rule, granted, fired, gone>>
  BY DEF Scan
<1>3. /\ f.pc = "scan" /\ Rest(t)
      /\ \/ /\ f.i < Len(ListIn(f, rules))
            /\ frame'[t] = Rec("scan", f.path, f.n, f.victim, f.src, f.i + 1, o, f.active, f.at)
         \/ frame'[t] = Rec("judge", f.path, f.n, f.victim, Live, 0, <<>>, f.out, f.at)
  BY <1>1, ScanFrame DEF EngineInv
<1>4. CASE /\ f.i < Len(ListIn(f, rules))
           /\ frame'[t] = Rec("scan", f.path, f.n, f.victim, f.src, f.i + 1, o, f.active, f.at)
  <2>1. x \in Ids
    <3> DEFINE list == ListIn(f, rules)
    <3>1. list \in Seq(Ids)
      BY <1>1 DEF Reading, ListIn
    <3>2. f.i \in Nat /\ f.i < Len(list)
      BY <1>1, <1>4 DEF Reading
    <3> HIDE DEF list
    <3>3. list[f.i + 1] \in Ids
      BY <3>1, <3>2
    <3> QED
      BY <3>3 DEF list
  <2>2. f.out \in Seq(Ids)
    BY <1>1 DEF Reading
  <2>3. Members(Append(f.out, x)) = Members(f.out) \cup {x}
    BY <2>1, <2>2, MembersOfAppend
  <2>4. \A id \in Members(o) : f.path \in rule[id].scope
    BY <1>1, <2>3 DEF WorkerFits
  <2> HIDE DEF o
  <2>5. WorkerFits(frame'[t], rule)
    BY <1>1, <1>3, <1>4, <2>4 DEF WorkerFits, Rec
  <2> QED
    BY <1>2, <1>3, <2>5, PoolReads
<1>5. CASE frame'[t] = Rec("judge", f.path, f.n, f.victim, Live, 0, <<>>, f.out, f.at)
  <2>1. WorkerFits(frame'[t], rule)
    BY <1>1, <1>3, <1>5, MembersOfEmpty DEF WorkerFits, Rec
  <2> QED
    BY <1>2, <1>3, <2>1, PoolReads
<1> QED
  BY <1>3, <1>4, <1>5

LEMMA PoolJudge ==
  ASSUME EngineInv, TypedInv, SafeInv, NEW t \in Workers, Judge(t)  PROVE SafeInv'
<1> DEFINE f == frame[t]
<1>1. t \in Threads /\ WorkerFits(f, rule)
  BY LoopNotInPool DEF SafeInv
<1>2. UNCHANGED <<rules, rule, granted, fired, gone>>
  BY DEF Judge
<1>3. f.pc = "judge" /\ Rest(t)
  BY <1>1, JudgeFrame DEF EngineInv
<1>4. WorkerFits(frame'[t], rule)
  <2>1. CASE frame'[t] = Idle
    BY <2>1, IdleFits
  <2>2. CASE frame'[t] # Idle
    <3>1. PICK j, a :
            /\ a \in {"judge", "consume"}
            /\ frame'[t] = Rec(a, f.path, f.n, f.victim, f.src, f.i, f.out, f.active, j)
      BY <1>1, <2>2, JudgeFrame DEF EngineInv
    <3> QED
      BY <1>1, <1>3, <3>1 DEF WorkerFits, Rec
  <2> QED
    BY <2>1, <2>2
<1> QED
  BY <1>2, <1>3, <1>4, PoolReads

\* A thread of the pool consumes persistent rules only, and these stay as they are.
LEMMA PoolConsume ==
  ASSUME EngineInv, TypedInv, SafeInv, NEW t \in Workers, ConsumeStep(t)  PROVE SafeInv'
<1> DEFINE f  == frame[t]
           id == Current(f)
           r  == Spend(rule[id])
<1>1. /\ t \in Threads /\ WorkerFits(f, rule) /\ UNCHANGED <<rules, granted, gone>>
      /\ f.pc = "consume" /\ rule \in Seq(Rule) /\ fired \in Seq(Nat) /\ Len(fired) = Len(rule)
  BY LoopNotInPool DEF SafeInv, ConsumeStep, EngineInv, OrderInv, TypedInv, BookTyped
<1>2. id \in Ids /\ id \in Members(f.active)
  BY <1>1, CurrentRule
<1>3. rule[id].times = Persistent /\ granted[id] = Persistent
  BY <1>1, <1>2 DEF WorkerFits, SafeInv, AccountInv
<1>4. r = rule[id] /\ ~Exhausted(r)
  <2>1. rule[id] \in Rule
    BY <1>1, <1>2 DEF Ids
  <2>2. ASSUME NEW q \in Rule, q.times = Persistent PROVE Spend(q) = q /\ ~Exhausted(q)
    <3>1. Spend(q) = [q EXCEPT !.times = Persistent]
      BY <2>2 DEF Spend
    <3>2. Spend(q) = q
      BY <2>2, <3>1 DEF Rule
    <3> QED
      BY <2>2, <3>2 DEF Exhausted
  <2> HIDE DEF id
  <2> QED
    BY <1>3, <2>1, <2>2
<1>5. /\ Rest(t) /\ rule' = [rule EXCEPT ![id] = r] /\ fired' = [fired EXCEPT ![id] = @ + 1]
      /\ Resumed(frame'[t], f)
  <2> DEFINE q == r
  <2>1. /\ Rest(t) /\ rule' = [rule EXCEPT ![id] = q] /\ fired' = [fired EXCEPT ![id] = @ + 1]
        /\ Exhausted(q) \/ Resumed(frame'[t], f)
    BY <1>1, ConsumeFrame DEF EngineInv
  <2> QED
    BY <1>4, <2>1
<1>6. rule' = rule
  BY <1>1, <1>2, <1>4, <1>5 DEF Ids
<1>7. \A k \in Ids : k # id => fired'[k] = fired[k]
  BY <1>1, <1>5 DEF Ids
<1>8. \A k \in Ids : Spent(granted[k], fired'[k]) <=> Spent(granted[k], fired[k])
  BY <1>3, <1>7 DEF Spent
<1>9. AccountInv'
  BY <1>1, <1>3, <1>6, <1>7 DEF SafeInv, AccountInv, Ids
<1>10. WorkerFits(frame'[t], rule)
  <2>1. CASE frame'[t] = Idle
    BY <2>1, IdleFits
  <2>2. CASE frame'[t] = Rec("judge", f.path, f.n, NoRule, Live, 0, <<>>, f.active, f.at)
    BY <1>1, <2>2, MembersOfEmpty DEF WorkerFits, Rec
  <2> QED
    BY <1>5, <2>1, <2>2 DEF Resumed
<1> QED
  BY <1>1, <1>5, <1>6, <1>8, <1>9, <1>10, PoolMoves

(***************************************************************************)
(* Discipline: the steps of the loop                                        *)
(***************************************************************************)
\* The loop moves and changes no rule; it does not leave a removal.
LEMMA LoopReads ==
  ASSUME SafeInv, Rest(Loop), UNCHANGED <<rules, rule, granted, fired, gone>>,
         LoopFits(frame'[Loop], rules, rule, granted, fired),
         frame[Loop].pc = "remove" => /\ frame'[Loop].pc = "remove"
                                      /\ frame'[Loop].victim = frame[Loop].victim
  PROVE  SafeInv'
<1>1. \A u \in Workers : frame'[u] = frame[u]
  BY LoopNotInPool DEF Rest
<1>2. AccountInv'
  BY DEF SafeInv, AccountInv, Ids
<1>3. ListInv'
  BY DEF SafeInv, ListInv, Ids
<1> QED
  BY <1>1, <1>2, <1>3 DEF SafeInv

LEMMA LoopCall ==
  ASSUME EngineInv, TypedInv, SafeInv, NEW p \in Path, Call(Loop, p)
  PROVE  SafeInv'
<1>1. UNCHANGED <<rules, rule, granted, fired, gone>> /\ frame[Loop].pc = "idle"
  BY DEF Call, Resting
<1>2. frame'[Loop] = Rec("store", p, counts[p], NoRule, Live, 0, <<>>, <<>>, 0) /\ Rest(Loop)
  BY LoopNotInPool, CallFrame DEF EngineInv
<1>3. LoopFits(frame'[Loop], rules, rule, granted, fired)
  BY <1>2, MembersOfEmpty DEF LoopFits, Rec, Pending, AheadIn
<1> QED
  BY <1>1, <1>2, <1>3, LoopReads

LEMMA LoopStore ==
  ASSUME EngineInv, TypedInv, SafeInv, Store(Loop)  PROVE SafeInv'
<1> DEFINE f == frame[Loop]
<1>1. LoopFits(f, rules, rule, granted, fired) /\ UNCHANGED <<rules, rule, granted, fired, gone>>
  BY DEF SafeInv, Store
<1>2. /\ f.pc = "store" /\ Rest(Loop)
      /\ frame'[Loop] = Rec("scan", f.path, 0, f.victim, f.src, f.i, f.out, f.active, f.at)
  BY LoopNotInPool, StoreFrame DEF EngineInv
<1>3. LoopFits(frame'[Loop], rules, rule, granted, fired)
  BY <1>1, <1>2 DEF LoopFits, Rec, Pending
<1> QED
  BY <1>1, <1>2, <1>3, LoopReads

LEMMA LoopScan ==
  ASSUME EngineInv, TypedInv, SafeInv, Scan(Loop)  PROVE SafeInv'
<1> DEFINE f == frame[Loop]
           x == ListIn(f, rules)[f.i + 1]
           o == IF f.path \in rule[x].scope THEN Append(f.out, x) ELSE f.out
<1>1. /\ LoopFits(f, rules, rule, granted, fired) /\ Reading(f, rules, Len(rule))
      /\ rules \in Seq(1 .. Len(rule)) /\ Ids = 1 .. Len(rule)
      /\ UNCHANGED <<rules, rule, granted, fired, gone>>
  BY LoopNotInPool DEF SafeInv, EngineInv, OrderInv, Ids, Scan
<1>2. /\ f.pc = "scan" /\ Rest(Loop)
      /\ \/ /\ f.i < Len(ListIn(f, rules))
            /\ frame'[Loop] = Rec("scan", f.path, f.n, f.victim, f.src, f.i + 1, o, f.active, f.at)
         \/ frame'[Loop] = Rec("judge", f.path, f.n, f.victim, Live, 0, <<>>, f.out, f.at)
  BY LoopNotInPool, ScanFrame DEF EngineInv
<1>3. f.at = 0 /\ f.active = <<>> /\ f.out \in Seq(Ids) /\ ListIn(f, rules) = rules
  <2>1. Planned(f, Len(rule))
    BY LoopNotInPool DEF TypedInv
  <2> QED
    BY <1>1, <1>2, <2>1 DEF Planned, Reading, LoopFits, ListIn
<1>4. CASE /\ f.i < Len(ListIn(f, rules))
           /\ frame'[Loop] = Rec("scan", f.path, f.n, f.victim, f.src, f.i + 1, o, f.active, f.at)
  <2>1. x \in Ids /\ x \in Members(rules)
    BY <1>1, <1>3, <1>4 DEF Reading, Members
  <2>2. ~Spent(granted[x], fired[x])
    BY <1>2, <2>1 DEF SafeInv, ListInv
  <2>3. Members(Append(f.out, x)) = Members(f.out) \cup {x}
    BY <1>3, <2>1, MembersOfAppend
  <2>4. \A id \in Members(o) : ~Spent(granted[id], fired[id])
    BY <1>1, <1>2, <2>2, <2>3 DEF LoopFits
  <2> HIDE DEF o
  <2>5. LoopFits(frame'[Loop], rules, rule, granted, fired)
    BY <1>1, <1>2, <1>4, <2>4 DEF LoopFits, Rec, Pending
  <2> QED
    BY <1>1, <1>2, <2>5, LoopReads
<1>5. CASE frame'[Loop] = Rec("judge", f.path, f.n, f.victim, Live, 0, <<>>, f.out, f.at)
  <2>1. \A j \in DOMAIN f.out : ~Spent(granted[f.out[j]], fired[f.out[j]])
    BY <1>1, <1>2 DEF LoopFits, Members
  <2>2. LoopFits(frame'[Loop], rules, rule, granted, fired)
    BY <1>5, <2>1 DEF LoopFits, Rec, Pending, AheadIn
  <2> QED
    BY <1>1, <1>2, <2>2, LoopReads
<1> QED
  BY <1>2, <1>4, <1>5

LEMMA LoopJudge ==
  ASSUME EngineInv, TypedInv, SafeInv, Judge(Loop)  PROVE SafeInv'
<1> DEFINE f == frame[Loop]
<1>1. LoopFits(f, rules, rule, granted, fired)
  BY DEF SafeInv
<1>2. UNCHANGED <<rules, rule, granted, fired, gone>>
  BY DEF Judge
<1>3. f.pc = "judge" /\ Rest(Loop)
  BY LoopNotInPool, JudgeFrame DEF EngineInv
<1>4. LoopFits(frame'[Loop], rules, rule, granted, fired)
  <2>1. CASE frame'[Loop] = Idle
    BY <2>1, IdleFits
  <2>2. CASE frame'[Loop] # Idle
    <3>1. PICK j, a :
            /\ a \in {"judge", "consume"} /\ j \in Ahead(f)
            /\ frame'[Loop] = Rec(a, f.path, f.n, f.victim, f.src, f.i, f.out, f.active, j)
      BY LoopNotInPool, <2>2, JudgeFrame DEF EngineInv
    <3>2. /\ Len(rule) \in Nat /\ f.active \in Seq(1 .. Len(rule)) /\ f.at \in 0 .. Len(f.active)
      BY LoopNotInPool DEF EngineInv, OrderInv, TypedInv, Planned
    <3>3. j \in AheadIn(rule, f.active, f.at)
      BY <3>1, AheadIs
    <3>4. AheadIn(rule, f.active, j) \subseteq AheadIn(rule, f.active, f.at) \ {j}
      BY <3>2, <3>3, AheadShrinks
    <3>5. Pending(frame'[Loop], rule) \subseteq Pending(f, rule)
      BY <1>3, <3>1, <3>3, <3>4 DEF Pending, Rec
    <3>6. frame'[Loop].active = f.active
      BY <3>1 DEF Rec
    <3> QED
      BY <1>1, <1>3, <3>1, <3>5, <3>6 DEF LoopFits, Rec
  <2> QED
    BY <2>1, <2>2
<1> QED
  BY <1>2, <1>3, <1>4, LoopReads

\* Only the scopes of the rules matter to the frames of the pool.
LEMMA PoolFits ==
  ASSUME EngineInv, TypedInv, SafeInv, NEW u \in Workers, NEW book,
         \A k \in Ids : book[k].scope = rule[k].scope
  PROVE  WorkerFits(frame[u], book)
<1>1. frame[u].active \in Seq(Ids) /\ frame[u].out \in Seq(Ids)
  BY LoopNotInPool DEF EngineInv, OrderInv, Reading, TypedInv, Planned, Ids
<1>2. Members(frame[u].active) \subseteq Ids /\ Members(frame[u].out) \subseteq Ids
  BY <1>1, MembersTyped
<1> QED
  BY <1>2 DEF SafeInv, WorkerFits

\* Counting down reaches zero just when the firings reach the budget.
LEMMA CountedDown ==
  ASSUME NEW g \in Int, NEW n \in Nat, ~Spent(g, n), NEW r, r.times = g - n - 1
  PROVE  (Spent(g, n + 1) <=> Exhausted(r)) /\ n + 1 <= Budget(g)
<1>1. g - n - 1 \in Int /\ r.times # Persistent /\ g # Persistent
  BY TimesAssumption
<1> QED
  BY <1>1 DEF Spent, Exhausted, Budget

LEMMA LoopConsume ==
  ASSUME EngineInv, TypedInv, SafeInv, ConsumeStep(Loop)  PROVE SafeInv'
<1> DEFINE f  == frame[Loop]
           id == Current(f)
           r  == Spend(rule[id])
<1>1. /\ LoopFits(f, rules, rule, granted, fired) /\ UNCHANGED <<rules, granted, gone>>
      /\ f.pc = "consume" /\ rule \in Seq(Rule) /\ fired \in Seq(Nat) /\ Len(fired) = Len(rule)
      /\ granted \in Seq(Int \cup {Persistent}) /\ Len(granted) = Len(rule)
  BY DEF SafeInv, ConsumeStep, EngineInv, OrderInv, TypedInv, BookTyped
<1>2. id \in Ids /\ f.at \in DOMAIN f.active
  BY <1>1, LoopNotInPool, CurrentRule
<1>3. /\ Len(rule) \in Nat /\ f.active \in Seq(1 .. Len(rule)) /\ Ascending(f.active)
      /\ f.at \in 0 .. Len(f.active)
  BY LoopNotInPool DEF EngineInv, OrderInv, TypedInv, Planned
<1>4. /\ Rest(Loop) /\ rule' = [rule EXCEPT ![id] = r] /\ fired' = [fired EXCEPT ![id] = @ + 1]
      /\ \/ /\ Exhausted(r)
            /\ frame'[Loop] = Rec("remove", f.path, f.n, id, f.src, f.i, f.out, f.active, f.at)
         \/ ~Exhausted(r) /\ Resumed(frame'[Loop], f)
  BY LoopNotInPool, ConsumeFrame DEF EngineInv
<1>5. /\ Len(rule') = Len(rule) /\ \A k \in Ids : k # id => rule'[k] = rule[k]
      /\ rule'[id].kind = rule[id].kind /\ rule'[id].scope = rule[id].scope
      /\ rule'[id].times = IF rule[id].times = Persistent THEN Persistent
                                                          ELSE rule[id].times - 1
  BY <1>1, <1>2, <1>4, SpentRule
<1>6. rule'[id] = r /\ fired'[id] = fired[id] + 1 /\ \A k \in Ids : k # id => fired'[k] = fired[k]
  BY <1>1, <1>2, <1>4 DEF Ids
<1>7. fired[id] \in Nat /\ granted[id] \in Int \cup {Persistent}
  BY <1>1, <1>2 DEF Ids
<1>8. ~Spent(granted[id], fired[id])
  BY <1>1 DEF LoopFits, Pending, Current
<1>9. (Spent(granted[id], fired'[id]) <=> Exhausted(r)) /\
      (granted[id] # Persistent => fired'[id] <= Budget(granted[id]))
  <2>1. CASE rule[id].times = Persistent
    BY <1>2, <1>5, <1>6, <2>1 DEF SafeInv, AccountInv, Spent, Exhausted
  <2>2. CASE rule[id].times # Persistent
    <3>1. granted[id] # Persistent /\ rule[id].times = granted[id] - fired[id]
      BY <1>2, <2>2 DEF SafeInv, AccountInv
    <3>2. granted[id] \in Int /\ r.times = granted[id] - fired[id] - 1
      BY <1>5, <1>6, <1>7, <2>2, <3>1
    <3> QED
      BY <1>6, <1>7, <1>8, <3>1, <3>2, CountedDown
  <2> QED
    BY <2>1, <2>2
<1>10. AccountInv'
  <2>1. ASSUME NEW k \in Ids
        PROVE  IF rule'[k].times = Persistent
                 THEN granted[k] = Persistent
                 ELSE /\ rule'[k].scope \subseteq LoopPaths
                      /\ granted[k] # Persistent /\ rule'[k].times = granted[k] - fired'[k]
                      /\ fired'[k] <= Budget(granted[k])
    <3>1. CASE k # id
      BY <1>5, <1>6, <3>1 DEF SafeInv, AccountInv
    <3>2. CASE k = id /\ rule[id].times = Persistent
      BY <1>5, <2>1, <3>2 DEF SafeInv, AccountInv
    <3>3. CASE k = id /\ rule[id].times # Persistent
      <4>1. /\ granted[id] # Persistent /\ rule[id].times = granted[id] - fired[id]
            /\ rule[id].scope \subseteq LoopPaths
        BY <1>2, <3>3 DEF SafeInv, AccountInv
      <4>2. granted[id] \in Int /\ rule'[id].times = granted[id] - fired'[id]
        BY <1>5, <1>6, <1>7, <3>3, <4>1
      <4>3. fired'[id] \in Nat /\ rule'[id].times \in Int
        BY <1>6, <1>7, <4>2
      <4>4. rule'[id].times # Persistent /\ rule'[id].scope = rule[id].scope
        BY <1>5, <4>3, TimesAssumption
      <4> HIDE DEF id
      <4> QED
        BY <1>9, <3>3, <4>1, <4>2, <4>4
    <3> QED
      BY <3>1, <3>2, <3>3
  <2> QED
    BY <1>1, <1>5, <2>1 DEF AccountInv, Ids
<1>11. \A u \in Workers : WorkerFits(frame'[u], rule')
  <2>1. \A k \in Ids : rule'[k].scope = rule[k].scope
    BY <1>5
  <2>2. \A u \in Workers : frame'[u] = frame[u]
    BY <1>4, LoopNotInPool DEF Rest
  <2> QED
    BY <2>1, <2>2, PoolFits
<1>12. AheadIn(rule', f.active, f.at) = AheadIn(rule, f.active, f.at)
  <2>1. \A k \in 1 .. Len(rule) : rule'[k].kind = rule[k].kind
    BY <1>5 DEF Ids
  <2> QED
    BY <1>3, <2>1, AheadSame
<1>13. ASSUME NEW j \in AheadIn(rule', f.active, f.at)
       PROVE  ~Spent(granted[f.active[j]], fired'[f.active[j]])
  <2>1. j \in AheadIn(rule, f.active, f.at) /\ j \in DOMAIN f.active /\ j # f.at
    BY <1>2, <1>3, <1>12, <1>13, AheadOthers
  <2>2. f.active[j] # id /\ f.active[j] \in Ids
    BY <1>2, <1>3, <2>1, SMTT(20) DEF Ascending, Current, Ids
  <2>3. ~Spent(granted[f.active[j]], fired[f.active[j]])
    BY <1>1, <2>1 DEF LoopFits, Pending
  <2> QED
    BY <1>6, <2>2, <2>3
<1>14. f.i = 0 /\ f.out = <<>> /\ f.src = Live
  <2>1. Reading(f, rules, Len(rule))
    BY LoopNotInPool DEF EngineInv, OrderInv
  <2> QED
    BY <1>1, <2>1 DEF LoopFits, Reading
<1>15. LoopFits(frame'[Loop], rules, rule', granted, fired')
  <2>1. CASE /\ Exhausted(r)
             /\ frame'[Loop] = Rec("remove", f.path, f.n, id, f.src, f.i, f.out, f.active, f.at)
    <3>1. ASSUME NEW g, g = frame'[Loop] PROVE LoopFits(g, rules, rule', granted, fired')
      <4>1. /\ g.pc = "remove" /\ g.victim = id /\ g.src = Live /\ g.i = 0 /\ g.out = <<>>
            /\ g.active = f.active /\ g.at = f.at
        BY <1>14, <2>1, <3>1 DEF Rec
      <4>2. Pending(g, rule') = AheadIn(rule', f.active, f.at) /\ Current(g) = id
        BY <4>1 DEF Pending, Current
      <4>3. Members(g.out) = {rules[k] : k \in 1 .. g.i} \ {g.victim} /\ g.i <= Len(rules)
        BY <4>1, MembersOfEmpty DEF EngineInv, OrderInv
      <4>4. g.at # 0 /\ Spent(granted[id], fired'[id])
        BY <1>2, <1>3, <1>9, <2>1, <4>1
      <4> QED
        BY <1>13, <4>1, <4>2, <4>3, <4>4 DEF LoopFits
    <3> QED
      BY <3>1
  <2>2. CASE frame'[Loop] = Rec("judge", f.path, f.n, NoRule, Live, 0, <<>>, f.active, f.at)
    BY <1>13, <2>2 DEF LoopFits, Rec, Pending
  <2>3. CASE frame'[Loop] = Idle
    BY <2>3, IdleFits
  <2> QED
    BY <1>4, <2>1, <2>2, <2>3 DEF Resumed
<1>16. ListInv'
  <2>1. ASSUME NEW k \in Members(rules), Spent(granted[k], fired'[k])
        PROVE  frame'[Loop].pc = "remove" /\ frame'[Loop].victim = k
    <3>0. k \in Ids
      BY MembersTyped DEF EngineInv, OrderInv
    <3>1. k = id
      BY <1>1, <1>6, <2>1, <3>0 DEF SafeInv, ListInv
    <3>2. Exhausted(r)
      BY <1>9, <2>1, <3>1
    <3> QED
      BY <1>4, <3>1, <3>2 DEF Rec
  <2>2. \A k \in Ids \ gone : k \in Members(rules) \/ Spent(granted[k], fired'[k])
    <3>1. ASSUME Spent(granted[id], fired[id]) PROVE FALSE
      BY <1>8, <3>1
    <3> QED
      BY <1>6, <3>1 DEF SafeInv, ListInv
  <2> QED
    BY <1>1, <1>5, <2>1, <2>2 DEF SafeInv, ListInv, Ids
<1> QED
  BY <1>1, <1>10, <1>11, <1>15, <1>16 DEF SafeInv

LEMMA LoopRemove ==
  ASSUME EngineInv, TypedInv, SafeInv, RemoveStep(Loop)  PROVE SafeInv'
<1> DEFINE f == frame[Loop]
           x == ListIn(f, rules)[f.i + 1]
           o == IF x # f.victim THEN Append(f.out, x) ELSE f.out
<1>1. /\ LoopFits(f, rules, rule, granted, fired) /\ Reading(f, rules, Len(rule))
      /\ rules \in Seq(Ids) /\ Len(rules) \in Nat
      /\ UNCHANGED <<rule, granted, fired, gone>>
  BY LoopNotInPool DEF SafeInv, EngineInv, OrderInv, RemoveStep
<1>2. /\ f.pc = "remove"
      /\ \/ /\ f.i < Len(ListIn(f, rules)) /\ Rest(Loop) /\ rules' = rules
            /\ frame'[Loop] = Rec("remove", f.path, f.n, f.victim, f.src, f.i + 1, o, f.active, f.at)
         \/ /\ f.i >= Len(ListIn(f, rules)) /\ RestBut(Loop) /\ rules' = f.out
            /\ f.at # 0 => Resumed(frame'[Loop], f)
  BY LoopNotInPool, RemoveFrame DEF EngineInv
<1>3. /\ ListIn(f, rules) = rules /\ f.at # 0 /\ f.victim = Current(f) /\ f.i \in Nat
      /\ Members(f.out) = {rules[k] : k \in 1 .. f.i} \ {f.victim} /\ f.i <= Len(rules)
      /\ f.out \in Seq(Ids)
  BY <1>1, <1>2 DEF LoopFits, ListIn, Reading, Ids
<1>4. CASE /\ f.i < Len(rules) /\ Rest(Loop) /\ rules' = rules
           /\ frame'[Loop] = Rec("remove", f.path, f.n, f.victim, f.src, f.i + 1, o, f.active, f.at)
  <2>1. x = rules[f.i + 1] /\ x \in Ids /\ f.i + 1 <= Len(rules)
    BY <1>1, <1>3, <1>4
  <2>2. Members(o) = {rules[k] : k \in 1 .. f.i + 1} \ {f.victim}
    <3>1. Members(Append(f.out, x)) = Members(f.out) \cup {x}
      BY <1>3, <2>1, MembersOfAppend
    <3>2. 1 .. f.i + 1 = 1 .. f.i \cup {f.i + 1}
      BY <1>3
    <3>3. {rules[k] : k \in 1 .. f.i + 1} = {rules[k] : k \in 1 .. f.i} \cup {x}
      BY <2>1, <3>2, Zenon
    <3> HIDE DEF x, f
    <3> QED
      BY <1>3, <3>1, <3>3
  <2>3. ASSUME NEW g, g = frame'[Loop] PROVE LoopFits(g, rules, rule, granted, fired)
    <3> HIDE DEF o
    <3>1. /\ g.pc = "remove" /\ g.victim = f.victim /\ g.src = Live /\ g.i = f.i + 1 /\ g.out = o
          /\ g.active = f.active /\ g.at = f.at
      BY <1>1, <1>4, <2>3 DEF Rec, LoopFits
    <3>2. Pending(g, rule) = Pending(f, rule) /\ Current(g) = Current(f)
      BY <1>2, <3>1 DEF Pending, Current
    <3> QED
      BY <1>1, <1>2, <2>1, <2>2, <3>1, <3>2 DEF LoopFits
  <2>4. frame'[Loop].pc = "remove" /\ frame'[Loop].victim = f.victim
    BY <1>4 DEF Rec
  <2> QED
    BY <1>1, <1>4, <2>3, <2>4, LoopReads
<1>5. CASE /\ f.i >= Len(rules) /\ RestBut(Loop) /\ rules' = f.out /\ Resumed(frame'[Loop], f)
  <2>1. Members(rules') = Members(rules) \ {f.victim}
    <3>1. f.i = Len(rules) /\ DOMAIN rules = 1 .. Len(rules)
      BY <1>1, <1>3, <1>5
    <3>2. Members(rules) = {rules[k] : k \in 1 .. f.i}
      BY <3>1 DEF Members
    <3> HIDE DEF f
    <3> QED
      BY <1>3, <1>5, <3>2
  <2>2. LoopFits(frame'[Loop], rules', rule, granted, fired)
    <3>1. CASE frame'[Loop] = Rec("judge", f.path, f.n, NoRule, Live, 0, <<>>, f.active, f.at)
      BY <1>1, <1>2, <3>1 DEF LoopFits, Rec, Pending
    <3>2. CASE frame'[Loop] = Idle
      BY <3>2, IdleFits
    <3> QED
      BY <1>5, <3>1, <3>2 DEF Resumed
  <2>3. \A u \in Workers : WorkerFits(frame'[u], rule)
    <3> SUFFICES ASSUME NEW u \in Workers PROVE WorkerFits(frame'[u], rule)
      OBVIOUS
    <3>1. WorkerFits(frame[u], rule)
      BY DEF SafeInv
    <3>2. CASE frame'[u] = frame[u]
      BY <3>1, <3>2
    <3>3. CASE frame'[u] # frame[u]
      <4> DEFINE e == frame[u]
      <4>1. frame'[u] = Rec(e.pc, e.path, e.n, e.victim, rules, e.i, e.out, e.active, e.at)
        BY <1>5, <3>3, LoopNotInPool DEF RestBut
      <4> QED
        BY <3>1, <4>1 DEF WorkerFits, Rec
    <3> QED
      BY <3>2, <3>3
  <2>4. ListInv'
    <3>1. Spent(granted[f.victim], fired[f.victim])
      BY <1>1, <1>2 DEF LoopFits
    <3>2. \A id \in Members(rules') : ~Spent(granted[id], fired[id])
      BY <2>1 DEF SafeInv, ListInv
    <3>3. \A id \in Ids \ gone : id \in Members(rules') \/ Spent(granted[id], fired[id])
      BY <2>1, <3>1 DEF SafeInv, ListInv
    <3>4. gone \subseteq Ids /\ Members(rules') \cap gone = {}
      BY <2>1 DEF SafeInv, ListInv
    <3> QED
      BY <1>1, <3>2, <3>3, <3>4 DEF ListInv, Ids
  <2>5. AccountInv'
    BY <1>1 DEF SafeInv, AccountInv, Ids
  <2> QED
    BY <1>1, <2>2, <2>3, <2>4, <2>5 DEF SafeInv
<1> QED
  BY <1>2, <1>3, <1>4, <1>5

\* A rule is added while the loop is at rest or at the end of a reset.
LEMMA LoopAdds ==
  ASSUME EngineInv, TypedInv, SafeInv, NEW r, AddRule(r), UNCHANGED gone,
         r.times \in Int \cup {Persistent}, r.times = Persistent \/ r.scope \subseteq LoopPaths,
         \/ frame'[Loop] = Idle /\ frame[Loop].pc # "remove"
         \/ frame'[Loop] = frame[Loop] /\ frame[Loop].pc = "idle",
         \A u \in Workers : frame'[u] = frame[u]
  PROVE  SafeInv'
<1> DEFINE m == Len(rule) + 1
<1>1. /\ Len(rule) \in Nat /\ rule' = Append(rule, r) /\ granted' = Append(granted, r.times)
      /\ fired' = Append(fired, 0) /\ rules' = Append(rules, m)
      /\ rule \in Seq(Rule) /\ rules \in Seq(Ids) /\ Ids = 1 .. Len(rule)
      /\ granted \in Seq(Int \cup {Persistent}) /\ Len(granted) = Len(rule)
      /\ fired \in Seq(Nat) /\ Len(fired) = Len(rule)
  BY DEF AddRule, EngineInv, OrderInv, TypedInv, BookTyped, Ids
<1>2. /\ Len(rule') = m /\ Ids' = Ids \cup {m} /\ m \notin Ids
      /\ \A id \in Ids : /\ rule'[id] = rule[id] /\ granted'[id] = granted[id]
                         /\ fired'[id] = fired[id]
      /\ rule'[m] = r /\ granted'[m] = r.times /\ fired'[m] = 0
  BY <1>1 DEF Ids
<1>3. Members(rules') = Members(rules) \cup {m} /\ Members(rules) \subseteq Ids
  <2>1. rules \in Seq(1 .. m) /\ m \in 1 .. m
    BY <1>1, SeqWider
  <2> QED
    BY <1>1, <2>1, MembersOfAppend, MembersTyped
<1> HIDE DEF m
<1>4. ~Spent(r.times, 0) /\ (r.times # Persistent => 0 <= Budget(r.times) /\ r.times = r.times - 0)
  BY DEF Spent, Budget
<1>5. AccountInv'
  <2>1. ASSUME NEW id \in Ids' 
        PROVE  IF rule'[id].times = Persistent
                 THEN granted'[id] = Persistent
                 ELSE /\ rule'[id].scope \subseteq LoopPaths
                      /\ granted'[id] # Persistent /\ rule'[id].times = granted'[id] - fired'[id]
                      /\ fired'[id] <= Budget(granted'[id])
    <3>1. CASE id \in Ids
      BY <1>2, <3>1 DEF SafeInv, AccountInv
    <3>2. CASE id = m
      BY <1>2, <1>4, <3>2
    <3> QED
      BY <1>2, <3>1, <3>2
  <2> QED
    BY <2>1 DEF AccountInv
<1>6. \A u \in Workers : WorkerFits(frame'[u], rule')
  BY <1>2, PoolFits
<1>7. LoopFits(frame'[Loop], rules', rule', granted', fired')
  <2>1. CASE frame'[Loop] = Idle
    BY <2>1, IdleFits
  <2>2. CASE frame'[Loop] = frame[Loop] /\ frame[Loop].pc = "idle"
    <3> DEFINE f == frame[Loop]
    <3>1. f.active = <<>> /\ LoopFits(f, rules, rule, granted, fired)
      BY <2>2, LoopNotInPool DEF SafeInv, TypedInv, Planned
    <3>2. Pending(f, rule') = {}
      BY <2>2, <3>1 DEF Pending, AheadIn
    <3> QED
      BY <2>2, <3>1, <3>2 DEF LoopFits
  <2> QED
    BY <2>1, <2>2
<1>8. ListInv'
  <2>1. gone \subseteq Ids' /\ Members(rules') \cap gone = {}
    BY <1>2, <1>3 DEF SafeInv, ListInv
  <2>2. \A id \in Ids' \ gone : id \in Members(rules') \/ Spent(granted'[id], fired'[id])
    BY <1>2, <1>3 DEF SafeInv, ListInv
  <2>3. \A id \in Members(rules') : ~Spent(granted'[id], fired'[id])
    BY <1>2, <1>3, <1>4 DEF SafeInv, ListInv
  <2> QED
    BY <2>1, <2>2, <2>3 DEF ListInv
<1> QED
  BY <1>5, <1>6, <1>7, <1>8 DEF SafeInv

LEMMA LoopInjects ==
  ASSUME Disciplined, TemplatesTyped, EngineInv, TypedInv, SafeInv,
         NEW tpl \in Templates, InjectCall(tpl)
  PROVE  SafeInv'
<1>1. PICK r : /\ AddRule(r) /\ UNCHANGED <<gone, frame>> /\ frame[Loop].pc = "idle"
               /\ r = [id |-> Len(rule) + 1, kind |-> tpl.kind, scope |-> tpl.scope,
                       times |-> tpl.times, after |-> tpl.after]
  BY DEF InjectCall, Resting
<1>2. r.times \in Int \cup {Persistent} /\ (r.times = Persistent \/ r.scope \subseteq LoopPaths)
  BY <1>1 DEF Disciplined, TemplatesTyped
<1> QED
  BY <1>1, <1>2, LoopAdds

LEMMA LoopResets ==
  ASSUME EngineInv, TypedInv, SafeInv, ResetCall \/ ResetCounts \/ ResetAdd  PROVE SafeInv'
<1>1. ASSUME NEW a \in {"reset_counts", "reset_add"}, Goto(Loop, [Idle EXCEPT !.pc = a])
      PROVE  /\ Rest(Loop) /\ frame'[Loop].pc = a
             /\ \A live, book, g, n : LoopFits(frame'[Loop], live, book, g, n)
  <2>1. frame'[Loop] = Rec(a, "none", 0, NoRule, Live, 0, <<>>, <<>>, 0) /\ Rest(Loop)
    BY <1>1, ResetFrame DEF EngineInv
  <2> QED
    BY <2>1 DEF LoopFits, Rec, Pending, AheadIn
<1>2. CASE ResetCall
  <2>1. /\ UNCHANGED <<rule, granted, fired>> /\ rules' = <<>> /\ gone' = gone \cup Ids
        /\ Goto(Loop, [Idle EXCEPT !.pc = "reset_counts"])
    BY <1>2 DEF ResetCall
  <2>2. /\ Rest(Loop) /\ \A live, book, g, n : LoopFits(frame'[Loop], live, book, g, n)
    BY <1>1, <2>1
  <2>3. \A u \in Workers : WorkerFits(frame'[u], rule)
    BY <2>2, LoopNotInPool DEF Rest, SafeInv
  <2>4. AccountInv'
    BY <2>1 DEF SafeInv, AccountInv, Ids
  <2>5. ListInv'
    BY <2>1, MembersOfEmpty DEF SafeInv, ListInv, Ids
  <2> QED
    BY <2>1, <2>2, <2>3, <2>4, <2>5 DEF SafeInv
<1>3. CASE ResetCounts
  <2>1. /\ UNCHANGED <<rules, rule, granted, fired, gone>> /\ frame[Loop].pc = "reset_counts"
        /\ Goto(Loop, [Idle EXCEPT !.pc = "reset_add"])
    BY <1>3 DEF ResetCounts
  <2> QED
    BY <1>1, <2>1, LoopReads
<1>4. CASE ResetAdd
  <2>1. frame[Loop].pc = "reset_add" /\ UNCHANGED gone /\ Goto(Loop, Idle)
    BY <1>4 DEF ResetAdd
  <2>2. frame'[Loop] = Idle /\ Rest(Loop)
    BY <2>1, LoopNotInPool, Went DEF EngineInv
  <2>3. CASE UNCHANGED <<rules, rule, granted, fired>>
    BY <2>1, <2>2, <2>3, IdleFits, LoopReads
  <2>4. ASSUME NEW r \in Baseline(Len(rule) + 1), AddRule(r) PROVE SafeInv'
    <3>1. r.times = Persistent
      BY <2>4 DEF Baseline
    <3>2. \A u \in Workers : frame'[u] = frame[u]
      BY <2>2, LoopNotInPool DEF Rest
    <3> QED
      BY <2>1, <2>2, <2>4, <3>1, <3>2, LoopAdds
  <2> QED
    BY <1>4, <2>3, <2>4 DEF ResetAdd
<1> QED
  BY <1>2, <1>3, <1>4

(***************************************************************************)
(* Discipline: the invariant                                                *)
(***************************************************************************)
LEMMA SafeInit == Init => SafeInv
<1> SUFFICES ASSUME Init PROVE SafeInv
  OBVIOUS
<1>1. \A t \in Threads : frame[t] = Idle
  BY DEF Init
<1>2. /\ \A t \in Workers : WorkerFits(frame[t], rule)
      /\ LoopFits(frame[Loop], rules, rule, granted, fired)
  BY <1>1, IdleFits, LoopNotInPool
<1>3. CASE Baseline(1) = {}
  <2>1. rule = <<>> /\ rules = <<>> /\ gone = {} /\ Len(<<>>) = 0
    BY <1>3 DEF Init
  <2>2. Ids = {}
    BY <2>1 DEF Ids
  <2> QED
    BY <1>2, <2>1, <2>2, MembersOfEmpty DEF SafeInv, AccountInv, ListInv
<1>4. CASE Baseline(1) # {}
  <2>1. PICK r \in Baseline(1) :
          /\ rule = <<r>> /\ rules = <<1>> /\ granted = <<Persistent>> /\ gone = {}
    BY <1>4 DEF Init
  <2>2. r.times = Persistent /\ Ids = {1} /\ Members(rules) = {1}
    BY <1>4, <2>1 DEF Baseline, Ids, Members
  <2> QED
    BY <1>2, <2>1, <2>2 DEF SafeInv, AccountInv, ListInv, Spent
<1> QED
  BY <1>3, <1>4

LEMMA SafeStep ==
  ASSUME Disciplined, TemplatesTyped, EngineInv, TypedInv, SafeInv, [Next]_vars
  PROVE  SafeInv'
<1>1. CASE UNCHANGED vars
  BY <1>1 DEF vars, SafeInv, AccountInv, ListInv, Ids
<1>2. ASSUME NEW t \in Threads, Start(t) PROVE SafeInv'
  <2>1. ~(\E id : DeleteCall(t, id)) /\ ~ClearCall(t)
    BY DEF Disciplined, DeleteCall, ClearCall
  <2>2. t \in Workers \/ t = Loop
    BY DEF Threads
  <2> QED
    BY <1>2, <2>1, <2>2, PoolCall, LoopCall, LoopInjects, LoopResets DEF Start
<1>3. ASSUME NEW t \in Threads, Continue(t) PROVE SafeInv'
  <2>1. CASE t \in Workers
    <3>1. ~RemoveStep(t) /\ t # Loop
      BY <2>1, LoopNotInPool DEF RemoveStep, SafeInv, WorkerFits
    <3> QED
      BY <1>3, <2>1, <3>1, PoolStore, PoolScan, PoolJudge, PoolConsume DEF Continue
  <2>2. CASE t = Loop
    BY <1>3, <2>2, LoopStore, LoopScan, LoopJudge, LoopConsume, LoopRemove, LoopResets
    DEF Continue
  <2> QED
    BY <2>1, <2>2 DEF Threads
<1> QED
  BY <1>1, <1>2, <1>3 DEF Next

(***************************************************************************)
(* Theorems                                                                 *)
(***************************************************************************)
LEMMA EngineInvariance ==
  ASSUME LiveIsNoList, TemplatesTyped  PROVE Spec => [](EngineInv /\ TypedInv)
<1>1. Init => EngineInv /\ TypedInv
  BY OrderInit, CountInit, TypedInit DEF EngineInv
<1>2. EngineInv /\ TypedInv /\ [Next]_vars => (EngineInv /\ TypedInv)'
  BY OrderStep, CountStep, TypedStep DEF EngineInv
<1> QED
  BY <1>1, <1>2, PTL DEF Spec

\* Lists, frames and histories keep their types, whoever runs in between: a rule
\* is always found under its id, and a rule to be consumed is in its list.
THEOREM EngineTyped ==
  ASSUME LiveIsNoList, TemplatesTyped  PROVE Spec => []TypeOK
<1>1. EngineInv /\ TypedInv => TypeOK
  <2> SUFFICES ASSUME EngineInv, TypedInv PROVE TypeOK
    OBVIOUS
  <2>1. ASSUME NEW t \in Threads PROVE FrameOK(frame[t])
    <3>1. Reading(frame[t], rules, Len(rule)) /\ Planned(frame[t], Len(rule))
      BY DEF EngineInv, OrderInv, TypedInv
    <3> QED
      BY <3>1 DEF Reading, Planned, FrameOK, Ids
  <2>2. DOMAIN frame = Threads
    BY DEF EngineInv, OrderInv
  <2> QED
    BY <2>1, <2>2 DEF EngineInv, OrderInv, CountInv, TypedInv, BookTyped, TypeOK
<1> QED
  BY <1>1, EngineInvariance, PTL

\* injection.py:90-98: however appends, removals, clears and resets of different
\* threads overlap, every list is in the order of the ids and holds no rule twice.
THEOREM ListsInOrder ==
  ASSUME LiveIsNoList, TemplatesTyped  PROVE Spec => []OldestFirst
<1>1. EngineInv /\ TypedInv => OldestFirst
  BY DEF EngineInv, OrderInv, Reading, TypedInv, Planned, OldestFirst
<1> QED
  BY <1>1, EngineInvariance, PTL

\* injection.py:75-76: the two steps of observe lose no request of a path that
\* the event loop serves, whatever the pool does in between.
THEOREM LoopCounts ==
  ASSUME LiveIsNoList, TemplatesTyped  PROVE Spec => []LoopCountsExact
<1>1. EngineInv => LoopCountsExact
  BY DEF EngineInv, CountInv
<1> QED
  BY <1>1, EngineInvariance, PTL

LEMMA SafeInvariance ==
  ASSUME LiveIsNoList, TemplatesTyped, Disciplined  PROVE Spec => []SafeInv
<1>1. Init => EngineInv /\ TypedInv /\ SafeInv
  BY OrderInit, CountInit, TypedInit, SafeInit DEF EngineInv
<1>2. EngineInv /\ TypedInv /\ SafeInv /\ [Next]_vars => (EngineInv /\ TypedInv /\ SafeInv)'
  BY OrderStep, CountStep, TypedStep, SafeStep DEF EngineInv
<1> QED
  BY <1>1, <1>2, PTL DEF Spec

\* injection.py:6-7: a rule with `times' fires no more often than that.
THEOREM RulesBudgeted ==
  ASSUME LiveIsNoList, TemplatesTyped, Disciplined  PROVE Spec => []BudgetRespected
<1>1. SafeInv => BudgetRespected
  BY DEF SafeInv, AccountInv, BudgetRespected
<1> QED
  BY <1>1, SafeInvariance, PTL

\* injection.py:96-98: rebuilding the list loses no rule but the one that is spent.
THEOREM RulesStay ==
  ASSUME LiveIsNoList, TemplatesTyped, Disciplined  PROVE Spec => []RulesKept
<1>1. SafeInv => RulesKept
  BY DEF SafeInv, ListInv, Spent, RulesKept
<1> QED
  BY <1>1, SafeInvariance, PTL

\* ... and brings back none that a reset had cleared.
THEOREM RulesStayGone ==
  ASSUME LiveIsNoList, TemplatesTyped, Disciplined  PROVE Spec => []RulesGone
<1>1. SafeInv => RulesGone
  BY DEF SafeInv, ListInv, RulesGone
<1> QED
  BY <1>1, SafeInvariance, PTL
=============================================================================
