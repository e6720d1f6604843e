-------------------------- MODULE RuleBook_proofs --------------------------
(***************************************************************************)
(* The atomic engine for all paths, templates and limits: the baseline rate *)
(* limit holds while its rule stands, and transient rules keep within their *)
(* budget.                                                                  *)
(***************************************************************************)
EXTENDS RuleBook, SequenceTheorems, WellFoundedInduction, TLAPS

\* Rules as POST /__admin/inject expects them: it checks the kind, and takes the
\* types of the other fields on trust.
TemplatesTyped ==
  Templates \subseteq [kind : Kinds, scope : SUBSET Path, times : Int \cup {Persistent}, after : Nat]

(***************************************************************************)
(* A request that some rule can refuse is refused                           *)
(***************************************************************************)
LEMMA LeastNat ==
  ASSUME NEW T \in SUBSET Nat, T # {}
  PROVE  \E i \in T : \A j \in T : i <= j
<1> DEFINE R == {ss \in Nat \X Nat : ss[1] < ss[2]}
<1>1. IsWellFoundedOn(R, Nat)
  BY NatLessThanWellFounded DEF OpToRel
<1> HIDE DEF R
<1>2. PICK i \in T : \A j \in T : ~ (<<j, i>> \in R)
  BY <1>1, WFMin
<1>3. ASSUME NEW j \in T PROVE i <= j
  <2>1. i \in Nat /\ j \in Nat
    OBVIOUS
  <2>2. j < i => <<j, i>> \in R
    BY <2>1 DEF R
  <2>3. ~ (j < i)
    BY <1>2, <2>2
  <2> QED
    BY <2>1, <2>3
<1> QED
  BY <1>3

LEMMA RankIsNat == \A r : Rank(r) \in Nat
BY DEF Rank

\* Of the rules that can answer, one comes before all others.
LEMMA SomeoneAnswers ==
  ASSUME NEW B, \A r \in B : r.id \in Nat, NEW p, NEW n, Refusing(B, p, n) # {}
  PROVE  Answering(B, p, n) # {}
<1> DEFINE F == Refusing(B, p, n)
           ranks == {Rank(r) : r \in F}
<1>1. \A r \in F : r.id \in Nat
  BY DEF Refusing, Active
<1> HIDE DEF F
<1>2. ranks \in SUBSET Nat /\ ranks # {}
  BY RankIsNat DEF F
<1>3. PICK k \in ranks : \A j \in ranks : k <= j
  BY <1>2, LeastNat
<1> DEFINE ids == {r.id : r \in {s \in F : Rank(s) = k}}
<1>4. ids \in SUBSET Nat /\ ids # {}
  BY <1>1, <1>3
<1>5. PICK i \in ids : \A j \in ids : i <= j
  BY <1>4, LeastNat
<1>6. PICK r \in F : Rank(r) = k /\ r.id = i
  BY <1>5
<1>7. ASSUME NEW s \in F PROVE Precedes(r, s)
  <2>1. k <= Rank(s) /\ k \in Nat /\ Rank(s) \in Nat
    BY <1>2, <1>3, RankIsNat
  <2>2. CASE Rank(s) = k
    BY <1>5, <1>6, <2>2 DEF Precedes
  <2>3. CASE Rank(s) # k
    BY <1>6, <2>1, <2>3 DEF Precedes
  <2> QED
    BY <2>2, <2>3
<1> QED
  BY <1>6, <1>7 DEF Answering, F

\* The rules that a request uses are rules of the book, and those it leaves
\* are rules of the book or renewed ones.
LEMMA ConsumedInBook == \A B, p, n : Consumed(B, p, n) \subseteq B
BY DEF Consumed, Answering, Delaying, Refusing, Active, OfKind

LEMMA ConsumeLeaves ==
  ASSUME NEW B, NEW S \in SUBSET B, NEW r \in Consume(B, S)
  PROVE  \/ r \in B \ S
         \/ \E s \in S : /\ s.times = Persistent \/ s.times > 1
                         /\ r = Renewed(s)
BY DEF Consume

(***************************************************************************)
(* The inductive invariant                                                  *)
(***************************************************************************)
Typed ==
  /\ book \subseteq Rule /\ \A r \in book : r.id \in Ids
  /\ granted \in Seq(Int \cup {Persistent}) /\ fired \in Seq(Nat) /\ Len(fired) = Len(granted)
  /\ counts \in [Path -> Nat] /\ passed \in [Path -> Nat]
  /\ baseline \in 0 .. Len(granted)

UniqueIds == \A r, s \in book : r.id = s.id => r = s

\* Only what was counted can have passed.
PassedCounted == \A p \in Path : passed[p] <= counts[p]

\* While it stands, the rule of the last reset is as the environment wants it.
BaselineIntact == \A r \in book : r.id = baseline => r \in Baseline(baseline)

\* A transient rule in the book has what it was granted less what it fired; it
\* is there with nothing left only if it never fired.
Ledger ==
  \A r \in book : /\ r.times = Persistent <=> granted[r.id] = Persistent
                  /\ r.times # Persistent =>
                       /\ r.times + fired[r.id] = granted[r.id]
                       /\ r.times < 1 => fired[r.id] = 0

BookInv ==
  Typed /\ UniqueIds /\ PassedCounted /\ BaselineIntact /\ RateLimitHolds /\ Ledger /\ BudgetRespected

LEMMA BaselineIs ==
  ASSUME NEW id \in Nat \ {0}, NEW r \in Baseline(id)
  PROVE  /\ r = [id |-> id, kind |-> "rate_limit", scope |-> DataPaths,
                 times |-> Persistent, after |-> RateLimitAfter]
         /\ RateLimitAfter \in Nat /\ r \in Rule
<1>1. /\ r = [id |-> id, kind |-> "rate_limit", scope |-> DataPaths,
              times |-> Persistent, after |-> RateLimitAfter]
      /\ RateLimitAfter \in Nat
  BY BaselineAssumption DEF Baseline
<1>2. "rate_limit" \in Kinds /\ DataPaths \in SUBSET Path
  BY PathAssumption DEF Kinds
<1> QED
  BY <1>1, <1>2 DEF Rule

LEMMA RenewedIs ==
  ASSUME NEW r \in Rule, r.times = Persistent \/ r.times > 1
  PROVE  /\ Renewed(r) \in Rule /\ Renewed(r).id = r.id
         /\ r.times = Persistent => Renewed(r) = r
         /\ r.times # Persistent =>
              /\ r.times \in Int /\ r.times > 1
              /\ Renewed(r).times = r.times - 1 /\ Renewed(r).times # Persistent
<1>1. CASE r.times = Persistent
  BY <1>1 DEF Renewed
<1>2. CASE r.times # Persistent
  <2>1. r.times \in Int /\ r.times - 1 \in Int /\ r.times > 1
    BY <1>2 DEF Rule
  <2>2. Renewed(r) = [r EXCEPT !.times = r.times - 1]
    BY <1>2 DEF Renewed
  <2> QED
    BY <1>2, <2>1, <2>2, TimesAssumption DEF Rule
<1> QED
  BY <1>1, <1>2

(***************************************************************************)
(* Requests                                                                 *)
(***************************************************************************)
\* What one request of path p does, spelled out.
LEMMA RequestFacts ==
  ASSUME BookInv, NEW p \in Path, Request(p), NEW used, used = Consumed(book, p, counts[p] + 1)
  PROVE  /\ used \subseteq book /\ book' = Consume(book, used)
         /\ counts' = [counts EXCEPT ![p] = counts[p] + 1]
         /\ passed' = passed \/ passed' = [passed EXCEPT ![p] = passed[p] + 1]
         /\ fired' = [i \in Ids |-> IF i \in IdsOf(used) THEN fired[i] + 1 ELSE fired[i]]
         /\ granted' = granted /\ baseline' = baseline
         /\ Ids' = Ids
         /\ \A i \in Ids : fired[i] \in Nat
  BY ConsumedInBook DEF Request, BookInv, Typed, Ids

\* Each rule left was there, and is the same or has one firing less.
LEMMA Leaves ==
  ASSUME BookInv, NEW used \in SUBSET book, NEW r \in Consume(book, used)
  PROVE  \E s \in book : /\ r.id = s.id /\ r \in Rule /\ s \in Rule
                         /\ \/ r = s /\ (s.times = Persistent \/ s \notin used)
                            \/ /\ s \in used /\ s.times # Persistent /\ r.times # Persistent
                               /\ s.times \in Int /\ s.times > 1 /\ r.times = s.times - 1 /\ r = Renewed(s)
<1>1. CASE r \in book \ used
  BY <1>1 DEF BookInv, Typed
<1>2. ASSUME NEW s \in used, s.times = Persistent \/ s.times > 1, r = Renewed(s)
      PROVE  /\ r.id = s.id /\ r \in Rule /\ s \in Rule
             /\ \/ r = s /\ s.times = Persistent
                \/ /\ s \in used /\ s.times # Persistent /\ r.times # Persistent
                   /\ s.times \in Int /\ s.times > 1 /\ r.times = s.times - 1 /\ r = Renewed(s)
  <2>1. s \in Rule
    BY DEF BookInv, Typed
  <2> QED
    BY <1>2, <2>1, RenewedIs
<1> QED
  BY <1>1, <1>2, ConsumeLeaves

LEMMA RequestInv ==
  ASSUME BookInv, NEW p \in Path, Request(p)  PROVE BookInv'
<1> DEFINE used == Consumed(book, p, counts[p] + 1)
<1>0. /\ used \subseteq book /\ book' = Consume(book, used)
      /\ counts' = [counts EXCEPT ![p] = counts[p] + 1]
      /\ passed' = passed \/ passed' = [passed EXCEPT ![p] = passed[p] + 1]
      /\ fired' = [i \in Ids |-> IF i \in IdsOf(used) THEN fired[i] + 1 ELSE fired[i]]
      /\ granted' = granted /\ baseline' = baseline
      /\ Ids' = Ids
      /\ \A i \in Ids : fired[i] \in Nat
  BY RequestFacts
<1> HIDE DEF used
<1>1. \A r \in book' : \E s \in book :
        /\ r.id = s.id /\ r \in Rule /\ s \in Rule
        /\ \/ r = s /\ (s.times = Persistent \/ s \notin used)
           \/ /\ s \in used /\ s.times # Persistent /\ r.times # Persistent
              /\ s.times \in Int /\ s.times > 1 /\ r.times = s.times - 1 /\ r = Renewed(s)
  BY <1>0, Leaves
<1>2. Typed'
  <2>1. book' \subseteq Rule /\ \A r \in book' : r.id \in Ids
    BY <1>1 DEF BookInv, Typed
  <2>2. fired' \in Seq(Nat) /\ Len(fired') = Len(granted)
    <3>1. fired' \in [1 .. Len(granted) -> Nat] /\ Len(granted) \in Nat
      BY <1>0 DEF Ids, BookInv, Typed
    <3> QED
      BY <3>1, SeqDef, LenProperties
  <2>3. counts' \in [Path -> Nat] /\ passed' \in [Path -> Nat]
    BY <1>0 DEF BookInv, Typed
  <2> QED
    BY <1>0, <2>1, <2>2, <2>3 DEF BookInv, Typed
<1>3. UniqueIds'
  <2> SUFFICES ASSUME NEW r \in book', NEW r2 \in book', r.id = r2.id PROVE r = r2
    BY DEF UniqueIds
  <2>1. PICK s \in book : /\ r.id = s.id
                          /\ \/ r = s /\ (s.times = Persistent \/ s \notin used)
                             \/ s \in used /\ s.times # Persistent /\ r = Renewed(s)
    BY <1>1
  <2>2. PICK s2 \in book : /\ r2.id = s2.id
                           /\ \/ r2 = s2 /\ (s2.times = Persistent \/ s2 \notin used)
                              \/ s2 \in used /\ s2.times # Persistent /\ r2 = Renewed(s2)
    BY <1>1
  <2>3. s = s2
    BY <2>1, <2>2 DEF BookInv, UniqueIds
  <2> QED
    BY <2>1, <2>2, <2>3
<1>4. PassedCounted'
  BY <1>0 DEF BookInv, PassedCounted, Typed
<1>5. BaselineIntact'
  <2> SUFFICES ASSUME NEW r \in book', r.id = baseline PROVE r \in Baseline(baseline)
    BY <1>0 DEF BaselineIntact
  <2>1. PICK s \in book : /\ r.id = s.id
                          /\ r = s \/ s.times # Persistent
    BY <1>1
  <2>2. s \in Baseline(baseline) /\ baseline \in Nat \ {0}
    BY <2>1 DEF BookInv, BaselineIntact, Typed, Rule
  <2>3. s.times = Persistent
    BY <2>2, BaselineIs
  <2> QED
    BY <2>1, <2>2, <2>3
<1>6. RateLimitHolds'
  <2> SUFFICES ASSUME NEW r \in book', r.id = baseline, NEW q \in DataPaths
               PROVE  passed'[q] <= RateLimitAfter
    BY <1>0 DEF RateLimitHolds, IdsOf
  <2>1. PICK s \in book : s.id = baseline
    BY <1>1
  <2>2. s \in Baseline(baseline) /\ baseline \in Nat \ {0}
    BY <2>1 DEF BookInv, BaselineIntact, Typed, Rule
  <2>3. s.kind = "rate_limit" /\ s.scope = DataPaths /\ s.after = RateLimitAfter /\ RateLimitAfter \in Nat
    BY <2>2, BaselineIs
  <2>4. passed[q] <= RateLimitAfter
    BY <2>1 DEF BookInv, RateLimitHolds, IdsOf
  <2>5. q \in Path /\ passed[q] \in Nat /\ counts[q] \in Nat /\ passed[q] <= counts[q]
    BY PathAssumption DEF BookInv, Typed, PassedCounted
  <2>6. CASE q # p \/ passed' = passed
    BY <1>0, <2>4, <2>5, <2>6 DEF BookInv, Typed
  <2>7. CASE q = p /\ passed' # passed
    <3>1. Answering(book, p, counts[p] + 1) = {}
      BY <2>7 DEF Request
    <3>2. Refusing(book, p, counts[p] + 1) = {}
      BY <3>1, SomeoneAnswers DEF BookInv, Typed, Rule
    <3>3. s \notin Refusing(book, p, counts[p] + 1)
      BY <3>2
    <3>4. ~ (counts[p] + 1 > RateLimitAfter)
      BY <2>1, <2>3, <2>7, <3>3 DEF Refusing, Active
    <3>5. passed'[q] = passed[q] + 1
      BY <1>0, <2>5, <2>7 DEF BookInv, Typed
    <3> QED
      BY <2>3, <2>5, <2>7, <3>4, <3>5
  <2> QED
    BY <2>6, <2>7
<1>7. Ledger'
  <2> SUFFICES ASSUME NEW r \in book'
               PROVE  /\ r.times = Persistent <=> granted[r.id] = Persistent
                      /\ r.times # Persistent =>
                           /\ r.times + fired'[r.id] = granted[r.id]
                           /\ r.times < 1 => fired'[r.id] = 0
    BY <1>0 DEF Ledger
  <2>1. PICK s \in book :
          /\ r.id = s.id /\ r \in Rule /\ s \in Rule
          /\ \/ r = s /\ (s.times = Persistent \/ s \notin used)
             \/ /\ s \in used /\ s.times # Persistent /\ r.times # Persistent
                /\ s.times \in Int /\ s.times > 1 /\ r.times = s.times - 1 /\ r = Renewed(s)
    BY <1>1
  <2>2. /\ s.times = Persistent <=> granted[s.id] = Persistent
        /\ s.times # Persistent => s.times + fired[s.id] = granted[s.id]
                                   /\ (s.times < 1 => fired[s.id] = 0)
        /\ s.id \in Ids /\ fired[s.id] \in Nat
    BY <1>0 DEF BookInv, Ledger, Typed
  <2>3. s \notin used => fired'[s.id] = fired[s.id]
    <3>1. s \notin used => s.id \notin IdsOf(used)
      BY <1>0 DEF BookInv, UniqueIds, IdsOf
    <3> QED
      BY <1>0, <2>2, <3>1
  <2>4. s \in used => fired'[s.id] = fired[s.id] + 1
    BY <1>0, <2>2 DEF IdsOf
  <2>5. CASE r = s /\ (s.times = Persistent \/ s \notin used)
    BY <2>2, <2>3, <2>5
  <2>6. CASE /\ s \in used /\ s.times # Persistent /\ r.times # Persistent
             /\ s.times \in Int /\ s.times > 1 /\ r.times = s.times - 1 /\ r = Renewed(s)
    BY <2>1, <2>2, <2>4, <2>6
  <2> QED
    BY <2>1, <2>5, <2>6
<1>8. BudgetRespected'
  <2> SUFFICES ASSUME NEW i \in Ids, granted[i] # Persistent PROVE fired'[i] <= Budget(granted[i])
    BY <1>0 DEF BudgetRespected
  <2>1. granted[i] \in Int /\ fired[i] \in Nat /\ fired[i] <= Budget(granted[i])
    BY <1>0 DEF BookInv, BudgetRespected, Typed, Ids
  <2>2. CASE i \notin IdsOf(used)
    BY <1>0, <2>1, <2>2
  <2>3. ASSUME NEW s \in used, s.id = i PROVE fired[i] + 1 <= Budget(granted[i])
    <3>1. s \in book /\ s \in Rule
      BY <1>0 DEF BookInv, Typed
    <3>2. s.times # Persistent /\ s.times \in Int
          /\ s.times + fired[i] = granted[i] /\ (s.times < 1 => fired[i] = 0)
      BY <2>3, <3>1 DEF BookInv, Ledger, Rule
    <3> QED
      BY <2>1, <3>2 DEF Budget
  <2> QED
    BY <1>0, <2>2, <2>3 DEF IdsOf
<1> QED
  BY <1>2, <1>3, <1>4, <1>5, <1>6, <1>7, <1>8 DEF BookInv

(***************************************************************************)
(* The other operations                                                     *)
(***************************************************************************)
LEMMA BookInit == Init => BookInv
<1> SUFFICES ASSUME Init PROVE BookInv
  OBVIOUS
<1>1. CASE Baseline(1) = {}
  <2>1. /\ book = {} /\ granted = <<>> /\ fired = <<>> /\ baseline = 0
        /\ counts = [p \in Path |-> 0] /\ passed = [p \in Path |-> 0]
    BY <1>1 DEF Init, NoRule
  <2> QED
    BY <2>1 DEF BookInv, Typed, Ids, UniqueIds, PassedCounted, BaselineIntact, RateLimitHolds, IdsOf,
                Ledger, BudgetRespected
<1>2. CASE Baseline(1) # {}
  <2>1. /\ book = Baseline(1) /\ granted = <<Persistent>> /\ fired = <<0>> /\ baseline = 1
        /\ counts = [p \in Path |-> 0] /\ passed = [p \in Path |-> 0]
    BY <1>2 DEF Init
  <2>2. \A r \in book : r \in Rule /\ r.id = 1 /\ r.times = Persistent
    BY <2>1, BaselineIs
  <2>3. RateLimitAfter \in Nat
    BY <1>2, BaselineIs
  <2>4. granted \in Seq(Int \cup {Persistent}) /\ fired \in Seq(Nat)
        /\ Len(granted) = 1 /\ Len(fired) = 1 /\ granted[1] = Persistent
    BY <2>1
  <2>5. Typed
    BY <2>1, <2>2, <2>4 DEF Typed, Ids
  <2>6. UniqueIds
    BY <2>1, <2>2, BaselineIs DEF UniqueIds
  <2>7. PassedCounted /\ BaselineIntact /\ RateLimitHolds
    BY <2>1, <2>3, PathAssumption DEF PassedCounted, BaselineIntact, RateLimitHolds
  <2>8. Ledger /\ BudgetRespected
    BY <2>2, <2>4 DEF Ledger, BudgetRespected, Ids
  <2> QED
    BY <2>5, <2>6, <2>7, <2>8 DEF BookInv
<1> QED
  BY <1>1, <1>2

\* A rule added under a fresh id disturbs no other.
LEMMA Appended ==
  ASSUME Typed, NEW times \in Int \cup {Persistent},
         granted' = Append(granted, times), fired' = Append(fired, 0)
  PROVE  /\ granted' \in Seq(Int \cup {Persistent}) /\ fired' \in Seq(Nat)
         /\ Len(granted) \in Nat
         /\ Len(granted') = Len(granted) + 1 /\ Len(fired') = Len(granted')
         /\ \A i \in Ids : granted'[i] = granted[i] /\ fired'[i] = fired[i]
         /\ granted'[NextId] = times /\ fired'[NextId] = 0
         /\ Ids' = Ids \cup {NextId} /\ NextId \notin Ids /\ NextId \in Nat \ {0}
<1>1. granted \in Seq(Int \cup {Persistent}) /\ fired \in Seq(Nat) /\ Len(fired) = Len(granted)
      /\ Len(granted) \in Nat
  BY LenProperties DEF Typed
<1>2. /\ granted' \in Seq(Int \cup {Persistent}) /\ Len(granted') = Len(granted) + 1
      /\ \A i \in 1 .. Len(granted) : granted'[i] = granted[i]
      /\ granted'[Len(granted) + 1] = times
  BY <1>1, AppendProperties
<1>3. /\ fired' \in Seq(Nat) /\ Len(fired') = Len(fired) + 1
      /\ \A i \in 1 .. Len(fired) : fired'[i] = fired[i]
      /\ fired'[Len(fired) + 1] = 0
  BY <1>1, AppendProperties
<1>4. Ids' = Ids \cup {NextId} /\ NextId \notin Ids /\ NextId \in Nat \ {0}
  BY <1>1, <1>2 DEF Ids, NextId
<1> QED
  BY <1>1, <1>2, <1>3, <1>4 DEF Ids, NextId

LEMMA InjectInv ==
  ASSUME TemplatesTyped, BookInv, NEW t \in Templates, Inject(t)  PROVE BookInv'
<1> DEFINE new == [id |-> NextId, kind |-> t.kind, scope |-> t.scope, times |-> t.times, after |-> t.after]
<1>1. t.times \in Int \cup {Persistent} /\ t.kind \in Kinds /\ t.scope \in SUBSET Path /\ t.after \in Nat
  BY DEF TemplatesTyped
<1>2. /\ granted' = Append(granted, t.times) /\ fired' = Append(fired, 0)
      /\ book' = book \cup {new} /\ UNCHANGED <<counts, passed, baseline>>
  BY DEF Inject
<1>3. /\ granted' \in Seq(Int \cup {Persistent}) /\ fired' \in Seq(Nat)
      /\ Len(granted) \in Nat
      /\ Len(granted') = Len(granted) + 1 /\ Len(fired') = Len(granted')
      /\ \A i \in Ids : granted'[i] = granted[i] /\ fired'[i] = fired[i]
      /\ granted'[NextId] = t.times /\ fired'[NextId] = 0
      /\ Ids' = Ids \cup {NextId} /\ NextId \notin Ids /\ NextId \in Nat \ {0}
  BY <1>1, <1>2, Appended DEF BookInv
<1>4. new \in Rule /\ new.id = NextId /\ new.times = t.times
  BY <1>1, <1>3 DEF Rule
<1> HIDE DEF new
<1>5. \A r \in book' : (r \in book /\ r.id \in Ids) \/ r = new
  BY <1>2 DEF BookInv, Typed
<1>6. baseline # NextId
  BY <1>3 DEF BookInv, Typed, NextId
<1>7. Typed'
  BY <1>2, <1>3, <1>4, <1>5 DEF BookInv, Typed
<1>8. UniqueIds'
  BY <1>3, <1>4, <1>5 DEF BookInv, UniqueIds
<1>9. PassedCounted' /\ BaselineIntact' /\ RateLimitHolds'
  BY <1>2, <1>4, <1>5, <1>6 DEF BookInv, PassedCounted, BaselineIntact, RateLimitHolds, IdsOf
<1>10. Ledger'
  <2> SUFFICES ASSUME NEW r \in book'
               PROVE  /\ r.times = Persistent <=> granted'[r.id] = Persistent
                      /\ r.times # Persistent =>
                           /\ r.times + fired'[r.id] = granted'[r.id]
                           /\ r.times < 1 => fired'[r.id] = 0
    BY DEF Ledger
  <2>1. CASE r = new
    <3>1. r.times = granted'[r.id] /\ fired'[r.id] = 0 /\ r.times \in Int \cup {Persistent}
      BY <1>1, <1>3, <1>4, <2>1
    <3> QED
      BY <3>1
  <2>2. CASE r \in book /\ r.id \in Ids
    BY <1>3, <2>2 DEF BookInv, Ledger
  <2> QED
    BY <1>5, <2>1, <2>2
<1>11. BudgetRespected'
  <2> SUFFICES ASSUME NEW i \in Ids', granted'[i] # Persistent PROVE fired'[i] <= Budget(granted'[i])
    BY DEF BudgetRespected
  <2>1. CASE i \in Ids
    BY <1>3, <2>1 DEF BookInv, BudgetRespected
  <2>2. CASE i = NextId
    <3>1. granted'[i] \in Int /\ fired'[i] = 0
      BY <1>1, <1>3, <2>2
    <3> QED
      BY <3>1 DEF Budget
  <2> QED
    BY <1>3, <2>1, <2>2
<1> QED
  BY <1>7, <1>8, <1>9, <1>10, <1>11 DEF BookInv

\* Taking rules out of the book is harmless.
LEMMA ShrinkInv ==
  ASSUME BookInv, book' \subseteq book, UNCHANGED <<granted, fired, counts, passed, baseline>>
  PROVE  BookInv'
<1>1. Ids' = Ids
  BY DEF Ids
<1>2. Typed' /\ UniqueIds' /\ PassedCounted' /\ BaselineIntact'
  BY <1>1 DEF BookInv, Typed, UniqueIds, PassedCounted, BaselineIntact
<1>3. RateLimitHolds' /\ Ledger' /\ BudgetRespected'
  BY <1>1 DEF BookInv, RateLimitHolds, IdsOf, Ledger, BudgetRespected
<1> QED
  BY <1>2, <1>3 DEF BookInv

LEMMA ResetInv == ASSUME BookInv, Reset PROVE BookInv'
<1>1. CASE Baseline(NextId) = {}
  <2>1. /\ book' = {} /\ granted' = granted /\ fired' = fired /\ baseline' = 0
        /\ counts' = [p \in Path |-> 0] /\ passed' = [p \in Path |-> 0]
    BY <1>1 DEF Reset, NoRule
  <2>2. Ids' = Ids /\ 0 \in 0 .. Len(granted)
    BY <2>1, LenProperties DEF Ids, BookInv, Typed
  <2>3. Typed' /\ UniqueIds' /\ PassedCounted' /\ BaselineIntact'
    BY <2>1, <2>2 DEF BookInv, Typed, UniqueIds, PassedCounted, BaselineIntact
  <2>4. RateLimitHolds' /\ Ledger' /\ BudgetRespected'
    BY <2>1, <2>2 DEF BookInv, RateLimitHolds, IdsOf, Ledger, BudgetRespected
  <2> QED
    BY <2>3, <2>4 DEF BookInv
<1>2. CASE Baseline(NextId) # {}
  <2>1. /\ book' = Baseline(NextId) /\ granted' = Append(granted, Persistent)
        /\ fired' = Append(fired, 0) /\ baseline' = NextId
        /\ counts' = [p \in Path |-> 0] /\ passed' = [p \in Path |-> 0]
    BY <1>2 DEF Reset
  <2>2. /\ granted' \in Seq(Int \cup {Persistent}) /\ fired' \in Seq(Nat)
        /\ Len(granted) \in Nat
        /\ Len(granted') = Len(granted) + 1 /\ Len(fired') = Len(granted')
        /\ \A i \in Ids : granted'[i] = granted[i] /\ fired'[i] = fired[i]
        /\ granted'[NextId] = Persistent /\ fired'[NextId] = 0
        /\ Ids' = Ids \cup {NextId} /\ NextId \notin Ids /\ NextId \in Nat \ {0}
    BY <2>1, Appended DEF BookInv
  <2>3. ASSUME NEW r \in book' PROVE r \in Rule /\ r.id = NextId /\ r.times = Persistent
    <3>1. r \in Baseline(NextId)
      BY <2>1
    <3>2. /\ r = [id |-> NextId, kind |-> "rate_limit", scope |-> DataPaths,
                  times |-> Persistent, after |-> RateLimitAfter]
          /\ r \in Rule
      BY <3>1, <2>2, BaselineIs
    <3> QED
      BY <3>2
  <2>4. RateLimitAfter \in Nat
    BY <1>2, <2>2, BaselineIs
  <2>5. Typed'
    <3>1. NextId \in 0 .. Len(granted')
      BY <2>2 DEF NextId
    <3> QED
      BY <2>1, <2>2, <2>3, <3>1 DEF Typed
  <2>6. UniqueIds'
    BY <2>1, <2>2, BaselineIs DEF UniqueIds
  <2>7. PassedCounted' /\ BaselineIntact' /\ RateLimitHolds'
    BY <2>1, <2>4, PathAssumption DEF PassedCounted, BaselineIntact, RateLimitHolds, Baseline
  <2>8. Ledger' /\ BudgetRespected'
    BY <2>2, <2>3 DEF Ledger, BudgetRespected, BookInv
  <2> QED
    BY <2>5, <2>6, <2>7, <2>8 DEF BookInv
<1> QED
  BY <1>1, <1>2

LEMMA BookStep ==
  ASSUME TemplatesTyped, BookInv, [Next]_vars  PROVE BookInv'
<1>1. ASSUME NEW id \in 1 .. MaxRules, Delete(id) PROVE BookInv'
  <2>1. book' \subseteq book /\ UNCHANGED <<granted, fired, counts, passed, baseline>>
    BY <1>1 DEF Delete
  <2> QED
    BY <2>1, ShrinkInv
<1>2. CASE Clear \/ UNCHANGED vars
  <2>1. book' \subseteq book /\ UNCHANGED <<granted, fired, counts, passed, baseline>>
    BY <1>2 DEF Clear, vars
  <2> QED
    BY <2>1, ShrinkInv
<1> QED
  BY <1>1, <1>2, RequestInv, InjectInv, ResetInv DEF Next

LEMMA BookInvariance ==
  ASSUME TemplatesTyped  PROVE Spec => []BookInv
<1>1. BookInv /\ [Next]_vars => BookInv'
  BY BookStep
<1> QED
  BY <1>1, BookInit, PTL DEF Spec

(***************************************************************************)
(* Theorems                                                                 *)
(***************************************************************************)
\* injection.py:138-140: while the rule of the last reset stands, no data path
\* lets through more than rate_limit_after requests, whatever else is injected,
\* deleted or consumed: some rule answers every request beyond.
THEOREM RateLimited ==
  ASSUME TemplatesTyped  PROVE Spec => []RateLimitHolds
<1>1. BookInv => RateLimitHolds
  BY DEF BookInv
<1> QED
  BY <1>1, BookInvariance, PTL

\* injection.py:6-7: one operation at a time, a rule with `times' fires no more
\* than that.
THEOREM WithinBudget ==
  ASSUME TemplatesTyped  PROVE Spec => []BudgetRespected
<1>1. BookInv => BudgetRespected
  BY DEF BookInv
<1> QED
  BY <1>1, BookInvariance, PTL
=============================================================================
