---------------------------- MODULE Report_proofs ----------------------------
(***************************************************************************)
(* Reports on any world of the generator, for any bodies.                   *)
(***************************************************************************)
EXTENDS ReportProperties, FiniteSetTheorems, SequenceTheorems, WellFoundedInduction, TLAPS

(***************************************************************************)
(* Recursion over positions.  The provers have no induction scheme to       *)
(* apply: what they lack is said here once, of sets and functions.          *)
(***************************************************************************)
LEMMA LeastOf ==
  ASSUME NEW T \in SUBSET Nat, T # {}
  PROVE  \E i \in T : \A j \in T : i <= j
<1> DEFINE R == {x \in Nat \X Nat : x[1] < x[2]}
<1>1. IsWellFoundedOn(R, Nat)
  BY NatLessThanWellFounded DEF OpToRel
<1> HIDE DEF R
<1>2. PICK i \in T : \A j \in T : ~ (<<j, i>> \in R)
  BY <1>1, WFMin
<1>3. ASSUME NEW j \in T  PROVE i <= j
  <2>1. i \in Nat /\ j \in Nat
    OBVIOUS
  <2>2. j < i => <<j, i>> \in R
    BY <2>1 DEF R
  <2>3. ~ (j < i)
    BY <1>2, <2>2
  <2> QED
    BY <2>1, <2>3
<1> QED
  BY <1>3


\* A set that goes from each number to the next holds them all.
LEMMA Climb ==
  ASSUME NEW n \in Nat, NEW P, 0 \in P, \A i \in 1 .. n : i - 1 \in P => i \in P
  PROVE  \A i \in 0 .. n : i \in P
<1> DEFINE T == (0 .. n) \ P
<1> SUFFICES ASSUME T # {} PROVE FALSE
  OBVIOUS
<1> T \in SUBSET Nat
  OBVIOUS
<1>1. PICK i \in T : \A j \in T : i <= j
  <2> HIDE DEF T
  <2> QED
    BY LeastOf
<1>2. i \in 1 .. n /\ i - 1 \in 0 .. n
  BY <1>1
<1>3. i - 1 \in P
  BY <1>1, <1>2
<1> QED
  BY <1>1, <1>2, <1>3


\* A step g, taken n times from a.
Iterates(f, n, a, g) == f[0] = a /\ \A i \in 1 .. n : f[i] = g[<<i, f[i - 1]>>]

LEMMA IterationExists ==
  ASSUME NEW n \in Nat, NEW S, NEW a \in S, NEW g \in [(1 .. n) \X S -> S]
  PROVE  \E f \in [0 .. n -> S] : Iterates(f, n, a, g)
<1> DEFINE P == {m \in 0 .. n : \E f \in [0 .. m -> S] :
                   f[0] = a /\ \A i \in 1 .. m : f[i] = g[<<i, f[i - 1]>>]}
<1>1. 0 \in P
  <2> DEFINE e == [i \in 0 .. 0 |-> a]
  <2>1. e \in [0 .. 0 -> S] /\ e[0] = a /\ \A i \in 1 .. 0 : e[i] = g[<<i, e[i - 1]>>]
    OBVIOUS
  <2> HIDE DEF e
  <2> QED
    BY <2>1
<1>2. ASSUME NEW m \in 1 .. n, m - 1 \in P  PROVE m \in P
  <2>1. PICK f \in [0 .. m - 1 -> S] :
          f[0] = a /\ \A i \in 1 .. m - 1 : f[i] = g[<<i, f[i - 1]>>]
    BY <1>2
  <2> DEFINE h == [i \in 0 .. m |-> IF i = m THEN g[<<m, f[m - 1]>>] ELSE f[i]]
  <2>2. f[m - 1] \in S
    BY <2>1
  <2>3. g[<<m, f[m - 1]>>] \in S
    BY <2>2
  <2>4. h \in [0 .. m -> S]
    BY <2>3
  <2>5. h[0] = a
    BY <2>1
  <2>6. ASSUME NEW i \in 1 .. m  PROVE h[i] = g[<<i, h[i - 1]>>]
    <3>1. h[i - 1] = f[i - 1]
      OBVIOUS
    <3>2. CASE i = m
      <4>1. h[m] = g[<<m, f[m - 1]>>] /\ h[m - 1] = f[m - 1]
        OBVIOUS
      <4> HIDE DEF h
      <4> QED
        BY <3>2, <4>1
    <3>3. CASE i # m
      <4>1. h[i] = f[i] /\ i \in 1 .. m - 1
        BY <3>3
      <4>2. f[i] = g[<<i, f[i - 1]>>]
        BY <2>1, <4>1
      <4> QED
        BY <3>1, <4>1, <4>2
    <3> QED
      BY <3>2, <3>3
  <2> HIDE DEF h
  <2> QED
    BY <2>4, <2>5, <2>6
<1>3. n \in P
  <2> HIDE DEF P
  <2> QED
    <3>1. \A m \in 1 .. n : m - 1 \in P => m \in P
      BY <1>2, Zenon
    <3>2. \A m \in 0 .. n : m \in P
      BY <1>1, <3>1, Climb, Zenon
    <3> QED
      BY <3>2
<1> QED
  BY <1>3 DEF Iterates

(***************************************************************************)
(* Lists                                                                    *)
(***************************************************************************)
\* What Picked is made of.
Picks(f, s, I) ==
  /\ f[0] = <<>> /\ Picked(s, I) = f[Len(s)]
  /\ \A i \in 1 .. Len(s) : f[i] = f[i - 1] \o (IF i \in I THEN <<s[i]>> ELSE <<>>)

LEMMA PickedIs ==
  ASSUME NEW S, NEW s \in Seq(S), NEW I
  PROVE  \E f \in [0 .. Len(s) -> Seq(S)] : Picks(f, s, I)
<1>0. PICK n \in Nat : n = Len(s)
  OBVIOUS
<1> DEFINE Step(i, t) == t \o (IF i \in I THEN <<s[i]>> ELSE <<>>)
           Rec(f) == f = [i \in 0 .. n |-> IF i = 0 THEN <<>> ELSE Step(i, f[i - 1])]
           g == [x \in (1 .. n) \X Seq(S) |-> Step(x[1], x[2])]
<1>1. PICK e \in Seq(S) : e = <<>>
  <2>1. <<>> \in Seq(S)
    OBVIOUS
  <2> QED
    BY <2>1, Zenon
<1>2. ASSUME NEW i \in 1 .. n, NEW t \in Seq(S)  PROVE Step(i, t) \in Seq(S)
  BY <1>0
<1>3. /\ g \in [(1 .. n) \X Seq(S) -> Seq(S)]
      /\ \A i \in 1 .. n, t \in Seq(S) : g[<<i, t>>] = Step(i, t)
  <2> HIDE DEF Step
  <2> QED
    BY <1>2
<1> HIDE DEF g
<1>4. PICK f \in [0 .. n -> Seq(S)] :
        f[0] = e /\ \A i \in 1 .. n : f[i] = g[<<i, f[i - 1]>>]
  <2> DEFINE T == Seq(S)
  <2>1. e \in T /\ g \in [(1 .. n) \X T -> T]
    BY <1>3
  <2> HIDE DEF T
  <2>2. \E f \in [0 .. n -> T] : Iterates(f, n, e, g)
    BY <2>1, IterationExists
  <2> QED
    BY <2>2 DEF T, Iterates
<1>5. Rec(f)
  <2> HIDE DEF Step
  <2>1. ASSUME NEW i \in 0 .. n, i # 0  PROVE f[i] = Step(i, f[i - 1])
    <3>1. i \in 1 .. n /\ i - 1 \in 0 .. n
      BY <2>1
    <3>2. f[i - 1] \in Seq(S)
      BY <1>4, <3>1
    <3>3. f[i] = g[<<i, f[i - 1]>>]
      BY <1>4, <2>1
    <3> QED
      BY <1>3, <3>1, <3>2, <3>3
  <2>2. f[0] = <<>>
    BY <1>1, <1>4
  <2>3. f = [i \in 0 .. n |-> f[i]]
    BY <1>4
  <2> QED
    BY <2>1, <2>2, <2>3
<1>6. Picked(s, I) = (CHOOSE h : Rec(h))[n]
  BY <1>0 DEF Picked
<1> DEFINE h == CHOOSE f_ : Rec(f_)
<1>7. Rec(h)
  <2> HIDE DEF Rec
  <2> QED
    BY <1>5
<1> HIDE DEF h
<1>8. h[0] = <<>> /\ \A i \in 1 .. n : h[i] = Step(i, h[i - 1])
  <2> HIDE DEF Step
  <2> QED
    BY <1>7
<1> DEFINE P == {i \in 0 .. n : h[i] \in Seq(S)}
<1>9. \A i \in 0 .. n : i \in P
  <2> HIDE DEF Step
  <2>1. 0 \in P /\ \A i \in 1 .. n : i - 1 \in P => i \in P
    <3>1. 0 \in P
      <4>1. h[0] = e
        BY <1>1, <1>8
      <4> QED
        BY <4>1
    <3>2. ASSUME NEW i \in 1 .. n, i - 1 \in P  PROVE i \in P
      BY <1>2, <1>8, <3>2
    <3> QED
      BY <3>1, <3>2
  <2> HIDE DEF P
  <2> QED
    BY <1>1, <2>1, Climb
<1>10. h \in [0 .. n -> Seq(S)]
  <2>1. h = [i \in 0 .. n |-> h[i]]
    <3> HIDE DEF Step
    <3> QED
      BY <1>7
  <2> QED
    BY <1>9, <2>1
<1> QED
  BY <1>0, <1>6, <1>8, <1>10 DEF h, Picks

\* What FlattenSeq is made of.
LEMMA FlattenIs ==
  ASSUME NEW S, NEW seqs \in Seq(Seq(S))
  PROVE  \E f \in [0 .. Len(seqs) -> Seq(S)] :
           /\ f[0] = <<>> /\ FlattenSeq(seqs) = f[Len(seqs)]
           /\ \A i \in 1 .. Len(seqs) : f[i] = f[i - 1] \o seqs[i]
<1>0. PICK n \in Nat : n = Len(seqs) /\ DOMAIN seqs = 1 .. n
  OBVIOUS
<1> DEFINE T == Seq(S)
           Step(i, t) == t \o seqs[i]
           base == <<>>
           Rec(f) == f = [i \in 1 .. n |-> IF i = 1 THEN seqs[i] ELSE Step(i, f[i - 1])]
           g == [x \in (1 .. n) \X T |-> Step(x[1], x[2])]
<1>1. base \in T
  OBVIOUS
<1>2. /\ \A i \in 1 .. n, t \in T : Step(i, t) \in T
      /\ \A i \in 1 .. n : Step(i, base) = seqs[i]
  <2>1. ASSUME NEW i \in 1 .. n  PROVE seqs[i] \in Seq(S)
    BY <1>0
  <2>2. ASSUME NEW i \in 1 .. n, NEW t \in T  PROVE t \o seqs[i] \in T
    BY <2>1
  <2>3. ASSUME NEW i \in 1 .. n  PROVE <<>> \o seqs[i] = seqs[i]
    BY <2>1
  <2> QED
    BY <2>2, <2>3
<1> HIDE DEF T
<1>3. /\ g \in [(1 .. n) \X T -> T]
      /\ \A i \in 1 .. n, t \in T : g[<<i, t>>] = Step(i, t)
  <2> HIDE DEF Step
  <2> QED
    BY <1>2
<1> HIDE DEF g
<1>4. PICK f \in [0 .. n -> T] : Iterates(f, n, base, g)
  <2>1. g \in [(1 .. n) \X T -> T]
    BY <1>3
  <2> HIDE DEF base
  <2> QED
    BY <1>1, <2>1, IterationExists
<1>5. f[0] = base /\ \A i \in 1 .. n : f[i] = Step(i, f[i - 1])
  <2> HIDE DEF base, Step
  <2>1. ASSUME NEW i \in 1 .. n  PROVE f[i] = Step(i, f[i - 1])
    <3>1. f[i - 1] \in T
      OBVIOUS
    <3>2. f[i] = g[<<i, f[i - 1]>>]
      BY <1>4 DEF Iterates
    <3> QED
      BY <1>3, <3>1, <3>2
  <2> QED
    BY <1>4, <2>1 DEF Iterates
<1>6. FlattenSeq(seqs) = f[n]
  <2>1. CASE n = 0
    <3>1. seqs = <<>>
      BY <1>0, <2>1
    <3>2. FlattenSeq(seqs) = seqs
      BY <1>0, <2>1 DEF FlattenSeq
    <3> QED
      BY <1>5, <2>1, <3>1, <3>2
  <2>2. CASE n # 0
    <3> DEFINE e == [i \in 1 .. n |-> f[i]]
    <3>1. Rec(e)
      <4> HIDE DEF base, Step
      <4>1. ASSUME NEW i \in 1 .. n  PROVE e[i] = IF i = 1 THEN seqs[i] ELSE Step(i, e[i - 1])
        <5>1. CASE i = 1
          BY <1>2, <1>5, <5>1
        <5>2. CASE i # 1
          <6>1. i - 1 \in 1 .. n
            BY <5>2
          <6> QED
            BY <1>5, <5>2, <6>1
        <5> QED
          BY <5>1, <5>2
      <4> HIDE DEF e
      <4>2. e = [i \in 1 .. n |-> e[i]]
        BY DEF e
      <4> QED
        BY <4>1, <4>2
    <3> DEFINE h == CHOOSE f_ : Rec(f_)
    <3>2. FlattenSeq(seqs) = h[n]
      <4>1. Len(seqs) # 0
        BY <1>0, <2>2
      <4> QED
        BY <1>0, <4>1, Zenon DEF FlattenSeq
    <3>3. Rec(h)
      <4> HIDE DEF Rec, e
      <4> QED
        BY <3>1
    <3> HIDE DEF h, e, Step, base
    <3>4. \A i \in 1 .. n : h[i] = IF i = 1 THEN seqs[i] ELSE Step(i, h[i - 1])
      BY <3>3
    <3> DEFINE P == {i \in 0 .. n : i = 0 \/ h[i] = f[i]}
    <3>5. \A i \in 0 .. n : i \in P
      <4>1. 0 \in P
        OBVIOUS
      <4>2. ASSUME NEW i \in 1 .. n, i - 1 \in P  PROVE i \in P
        <5>1. CASE i = 1
          BY <1>2, <1>5, <3>4, <5>1
        <5>2. CASE i # 1
          <6>1. h[i - 1] = f[i - 1]
            BY <4>2, <5>2
          <6>2. h[i] = Step(i, h[i - 1]) /\ f[i] = Step(i, f[i - 1])
            BY <1>5, <3>4, <5>2
          <6> QED
            BY <6>1, <6>2
        <5> QED
          BY <5>1, <5>2
      <4> HIDE DEF P
      <4> QED
        BY <4>1, <4>2, Climb
    <3> QED
      BY <2>2, <3>2, <3>5
  <2> QED
    BY <2>1, <2>2
<1> QED
  BY <1>0, <1>5, <1>6 DEF T

\* The members of the lists, all of them and no other.
LEMMA FlattenMembers ==
  ASSUME NEW S, NEW seqs \in Seq(Seq(S))
  PROVE  /\ FlattenSeq(seqs) \in Seq(S)
         /\ \A i \in DOMAIN seqs : \A j \in DOMAIN seqs[i] : seqs[i][j] \in ToSet(FlattenSeq(seqs))
         /\ \A x \in ToSet(FlattenSeq(seqs)) : \E i \in DOMAIN seqs : x \in ToSet(seqs[i])
<1>0. PICK n \in Nat : n = Len(seqs)
  OBVIOUS
<1>1. PICK f \in [0 .. n -> Seq(S)] :
        /\ f[0] = <<>> /\ FlattenSeq(seqs) = f[n]
        /\ \A i \in 1 .. n : f[i] = f[i - 1] \o seqs[i]
  BY <1>0, FlattenIs
<1>2. ASSUME NEW u \in Seq(S), NEW v \in Seq(S)
      PROVE  ToSet(u \o v) = ToSet(u) \cup ToSet(v)
  <2>1. ASSUME NEW i \in DOMAIN (u \o v)  PROVE (u \o v)[i] \in ToSet(u) \cup ToSet(v)
    BY DEF ToSet
  <2>2. ASSUME NEW i \in DOMAIN u  PROVE u[i] \in ToSet(u \o v)
    <3>1. i \in DOMAIN (u \o v) /\ (u \o v)[i] = u[i]
      OBVIOUS
    <3> QED
      BY <3>1 DEF ToSet
  <2>3. ASSUME NEW i \in DOMAIN v  PROVE v[i] \in ToSet(u \o v)
    <3>1. Len(u) + i \in DOMAIN (u \o v) /\ (u \o v)[Len(u) + i] = v[i]
      OBVIOUS
    <3> QED
      BY <3>1 DEF ToSet
  <2> QED
    BY <2>1, <2>2, <2>3 DEF ToSet
<1> DEFINE P == {i \in 0 .. n : ToSet(f[i]) = UNION {ToSet(seqs[k]) : k \in 1 .. i}}
<1>3. \A i \in 0 .. n : i \in P
  <2>1. 0 \in P
    BY <1>1 DEF ToSet
  <2>2. ASSUME NEW i \in 1 .. n, i - 1 \in P  PROVE i \in P
    <3>1. f[i - 1] \in Seq(S) /\ seqs[i] \in Seq(S) /\ f[i] = f[i - 1] \o seqs[i]
      <4>1. i - 1 \in 0 .. n /\ i \in DOMAIN seqs
        BY <1>0
      <4>2. f[i - 1] \in Seq(S)
        BY <1>1, <4>1, Zenon
      <4>3. seqs[i] \in Seq(S)
        BY <4>1
      <4>4. f[i] = f[i - 1] \o seqs[i]
        BY <1>1
      <4> QED
        BY <4>2, <4>3, <4>4
    <3>2. ToSet(f[i]) = ToSet(f[i - 1]) \cup ToSet(seqs[i])
      BY <1>2, <3>1
    <3>3. ToSet(f[i - 1]) = UNION {ToSet(seqs[k]) : k \in 1 .. i - 1}
      BY <2>2
    <3>4. \A k : k \in 1 .. i <=> k \in 1 .. i - 1 \/ k = i
      OBVIOUS
    <3>5. UNION {ToSet(seqs[k]) : k \in 1 .. i} =
            (UNION {ToSet(seqs[k]) : k \in 1 .. i - 1}) \cup ToSet(seqs[i])
      BY <3>4
    <3>6. ToSet(f[i]) = UNION {ToSet(seqs[k]) : k \in 1 .. i}
      BY <3>2, <3>3, <3>5, Zenon
    <3>7. i \in 0 .. n
      OBVIOUS
    <3> QED
      BY <3>6, <3>7, Zenon
  <2> HIDE DEF P
  <2> QED
    BY <2>1, <2>2, Climb
<1>4. ToSet(FlattenSeq(seqs)) = UNION {ToSet(seqs[k]) : k \in 1 .. n} /\ DOMAIN seqs = 1 .. n
  <2>1. n \in P
    BY <1>3
  <2> QED
    BY <1>0, <1>1, <2>1
<1>5. FlattenSeq(seqs) \in Seq(S)
  BY <1>1
<1>6. ASSUME NEW i \in DOMAIN seqs, NEW j \in DOMAIN seqs[i]
      PROVE  seqs[i][j] \in ToSet(FlattenSeq(seqs))
  <2>1. seqs[i][j] \in ToSet(seqs[i])
    BY DEF ToSet
  <2> QED
    BY <1>4, <2>1
<1>7. ASSUME NEW x \in ToSet(FlattenSeq(seqs))  PROVE \E i \in DOMAIN seqs : x \in ToSet(seqs[i])
  BY <1>4
<1> QED
  BY <1>5, <1>6, <1>7

\* The members at the places, and no other.
LEMMA PickedMembers ==
  ASSUME NEW S, NEW s \in Seq(S), NEW I
  PROVE  /\ Picked(s, I) \in Seq(S)
         /\ \A x \in ToSet(Picked(s, I)) : \E i \in DOMAIN s \cap I : x = s[i]
<1>0. PICK n \in Nat : n = Len(s)
  OBVIOUS
<1>1. PICK f \in [0 .. n -> Seq(S)] :
        /\ f[0] = <<>> /\ Picked(s, I) = f[n]
        /\ \A i \in 1 .. n : f[i] = f[i - 1] \o (IF i \in I THEN <<s[i]>> ELSE <<>>)
  <2>1. PICK f \in [0 .. Len(s) -> Seq(S)] : Picks(f, s, I)
    BY PickedIs
  <2> QED
    BY <1>0, <2>1, Zenon DEF Picks
<1> DEFINE P == {i \in 0 .. n : \A x \in ToSet(f[i]) : \E k \in DOMAIN s \cap I : x = s[k]}
<1>2. \A i \in 0 .. n : i \in P
  <2>1. 0 \in P
    BY <1>1 DEF ToSet
  <2>2. ASSUME NEW i \in 1 .. n, i - 1 \in P  PROVE i \in P
    <3>1. f[i - 1] \in Seq(S) /\ i \in DOMAIN s /\ s[i] \in S
      BY <1>0
    <3>2. CASE i \in I
      <4>1. f[i] = f[i - 1] \o <<s[i]>>
        BY <1>1, <3>2
      <4>2. ASSUME NEW k \in DOMAIN f[i]  PROVE f[i][k] \in ToSet(f[i - 1]) \cup {s[i]}
        <5>1. PICK m \in Nat : m = Len(f[i - 1]) /\ DOMAIN f[i - 1] = 1 .. m
          BY <3>1
        <5>2. k \in 1 .. m + 1
          BY <3>1, <4>1, <5>1
        <5>3. CASE k \in 1 .. m
          <6>1. f[i][k] = f[i - 1][k]
            BY <3>1, <4>1, <5>1, <5>3
          <6> QED
            BY <5>1, <5>3, <6>1 DEF ToSet
        <5>4. CASE k = m + 1
          <6>1. f[i][k] = s[i]
            BY <3>1, <4>1, <5>1, <5>4
          <6> QED
            BY <6>1
        <5> QED
          BY <5>2, <5>3, <5>4
      <4>3. ToSet(f[i]) \subseteq ToSet(f[i - 1]) \cup {s[i]}
        BY <4>2 DEF ToSet
      <4>4. ASSUME NEW x \in ToSet(f[i])  PROVE \E k \in DOMAIN s \cap I : x = s[k]
        BY <2>2, <3>1, <3>2, <4>3
      <4> QED
        BY <4>4
    <3>3. CASE i \notin I
      <4>1. f[i] = f[i - 1] \o <<>>
        BY <1>1, <3>3
      <4>2. f[i] = f[i - 1]
        BY <3>1, <4>1
      <4> QED
        BY <2>2, <4>2
    <3> QED
      BY <3>2, <3>3
  <2> HIDE DEF P
  <2> QED
    BY <2>1, <2>2, Climb
<1> QED
  BY <1>1, <1>2

\* What is picked of the first n of a list: their places, in order and all.
Selection(g, t, s, I, n) ==
  /\ g \in [1 .. Len(t) -> 1 .. n]
  /\ \A a \in 1 .. Len(t) : g[a] \in I /\ t[a] = s[g[a]]
  /\ \A a, b \in 1 .. Len(t) : a < b => g[a] < g[b]
  /\ \A k \in 1 .. n : k \in I => \E a \in 1 .. Len(t) : g[a] = k

LEMMA SelectionGrows ==
  ASSUME NEW S, NEW s, NEW I, NEW n \in Nat \ {0}, s[n] \in S,
         NEW t \in Seq(S), NEW g, Selection(g, t, s, I, n - 1)
  PROVE  \E h : Selection(h, t \o (IF n \in I THEN <<s[n]>> ELSE <<>>), s, I, n)
<1>0. PICK m \in Nat : m = Len(t)
  OBVIOUS
<1>1. /\ g \in [1 .. m -> 1 .. n - 1]
      /\ \A a \in 1 .. m : g[a] \in I /\ t[a] = s[g[a]] /\ g[a] \in 1 .. n - 1
      /\ \A a, b \in 1 .. m : a < b => g[a] < g[b]
      /\ \A k \in 1 .. n - 1 : k \in I => \E a \in 1 .. m : g[a] = k
  BY <1>0 DEF Selection
<1>2. CASE n \in I
  <2> DEFINE x == s[n]
             u == t \o <<x>>
             h == [a \in 1 .. m + 1 |-> IF a = m + 1 THEN n ELSE g[a]]
  <2> HIDE DEF x
  <2>1. /\ Len(u) = m + 1 /\ u[m + 1] = x
        /\ \A a \in 1 .. m : u[a] = t[a]
    BY <1>0 DEF x
  <2> HIDE DEF u
  <2>2. h[m + 1] = n /\ \A a \in 1 .. m : h[a] = g[a]
    OBVIOUS
  <2>3. h \in [1 .. m + 1 -> 1 .. n]
    BY <1>1
  <2> HIDE DEF h
  <2>4. ASSUME NEW a \in 1 .. m + 1  PROVE h[a] \in I /\ u[a] = s[h[a]]
    <3>1. CASE a = m + 1
      BY <1>2, <2>1, <2>2, <3>1 DEF x
    <3>2. CASE a # m + 1
      <4>1. a \in 1 .. m
        BY <3>2
      <4> QED
        BY <1>1, <2>1, <2>2, <4>1
    <3> QED
      BY <3>1, <3>2
  <2>5. ASSUME NEW a \in 1 .. m + 1, NEW b \in 1 .. m + 1, a < b  PROVE h[a] < h[b]
    <3>1. a \in 1 .. m /\ h[a] = g[a] /\ g[a] \in 1 .. n - 1
      BY <1>1, <2>2, <2>5
    <3>2. CASE b = m + 1
      BY <2>2, <3>1, <3>2
    <3>3. CASE b # m + 1
      <4>1. b \in 1 .. m
        BY <3>3
      <4> QED
        BY <1>1, <2>2, <2>5, <3>1, <4>1
    <3> QED
      BY <3>2, <3>3
  <2>6. ASSUME NEW k \in 1 .. n, k \in I  PROVE \E a \in 1 .. m + 1 : h[a] = k
    <3>1. CASE k = n
      BY <2>2, <3>1
    <3>2. CASE k # n
      <4>1. k \in 1 .. n - 1
        BY <3>2
      <4>2. PICK a \in 1 .. m : g[a] = k
        BY <1>1, <2>6, <4>1
      <4>3. a \in 1 .. m + 1 /\ h[a] = k
        BY <2>2, <4>2
      <4> QED
        BY <4>3
    <3> QED
      BY <3>1, <3>2
  <2>7. Selection(h, u, s, I, n)
    BY <2>1, <2>3, <2>4, <2>5, <2>6 DEF Selection
  <2>8. u = t \o (IF n \in I THEN <<s[n]>> ELSE <<>>)
    BY <1>2 DEF u, x
  <2> QED
    BY <2>7, <2>8
<1>3. CASE n \notin I
  <2>1. t \o (IF n \in I THEN <<s[n]>> ELSE <<>>) = t
    <3>1. t \o <<>> = t
      OBVIOUS
    <3> QED
      BY <1>3, <3>1
  <2>2. g \in [1 .. m -> 1 .. n]
    BY <1>1
  <2>3. \A k \in 1 .. n : k \in I => k \in 1 .. n - 1
    BY <1>3
  <2>4. Selection(g, t, s, I, n)
    BY <1>0, <1>1, <2>2, <2>3 DEF Selection
  <2> QED
    BY <2>1, <2>4
<1> QED
  BY <1>2, <1>3

LEMMA PickedSelects ==
  ASSUME NEW S, NEW s \in Seq(S), NEW I
  PROVE  /\ Picked(s, I) \in Seq(S)
         /\ \E g : Selection(g, Picked(s, I), s, I, Len(s))
<1>0. PICK n \in Nat : n = Len(s) /\ \A i \in 1 .. n : s[i] \in S
  OBVIOUS
<1>1. PICK f \in [0 .. n -> Seq(S)] : Picks(f, s, I)
  BY <1>0, PickedIs
<1>2. /\ f[0] = <<>> /\ Picked(s, I) = f[n]
      /\ \A i \in 1 .. n : f[i] = f[i - 1] \o (IF i \in I THEN <<s[i]>> ELSE <<>>)
  BY <1>0, <1>1 DEF Picks
<1> DEFINE P == {i \in 0 .. n : \E g : Selection(g, f[i], s, I, i)}
<1>3. 0 \in P
  <2> DEFINE g == [a \in 1 .. 0 |-> 0]
  <2>1. Len(f[0]) = 0 /\ g \in [1 .. 0 -> 1 .. 0]
    BY <1>2
  <2> HIDE DEF g
  <2>2. Selection(g, f[0], s, I, 0)
    BY <2>1 DEF Selection
  <2> QED
    BY <2>2
<1>4. ASSUME NEW i \in 1 .. n, i - 1 \in P  PROVE i \in P
  <2>1. PICK g : Selection(g, f[i - 1], s, I, i - 1)
    BY <1>4
  <2>2. f[i - 1] \in Seq(S) /\ i \in Nat \ {0} /\ s[i] \in S
    BY <1>0
  <2>3. \E h : Selection(h, f[i - 1] \o (IF i \in I THEN <<s[i]>> ELSE <<>>), s, I, i)
    BY <2>1, <2>2, SelectionGrows
  <2>4. \E h : Selection(h, f[i], s, I, i)
    BY <1>2, <2>3
  <2> QED
    BY <2>4
<1>5. n \in P
  <2> HIDE DEF P
  <2>1. \A i \in 1 .. n : i - 1 \in P => i \in P
    BY <1>4, Zenon
  <2>2. \A i \in 0 .. n : i \in P
    BY <1>3, <2>1, Climb, Zenon
  <2> QED
    BY <2>2
<1> QED
  BY <1>0, <1>2, <1>5

\* The members picked, all of them and no other.
LEMMA PickedSet ==
  ASSUME NEW S, NEW s \in Seq(S), NEW I
  PROVE  ToSet(Picked(s, I)) = {s[i] : i \in DOMAIN s \cap I}
<1> DEFINE t == Picked(s, I)
<1>1. PICK g : Selection(g, t, s, I, Len(s))
  BY PickedSelects, Zenon
<1>2. t \in Seq(S)
  BY PickedSelects, Zenon
<1> HIDE DEF t
<1>3. DOMAIN t = 1 .. Len(t) /\ DOMAIN s = 1 .. Len(s)
  BY <1>2
<1>4. ASSUME NEW a \in DOMAIN t  PROVE t[a] \in {s[i] : i \in DOMAIN s \cap I}
  BY <1>1, <1>3 DEF Selection
<1>5. ASSUME NEW i \in DOMAIN s \cap I  PROVE s[i] \in ToSet(t)
  <2>1. PICK a \in 1 .. Len(t) : g[a] = i
    BY <1>1, <1>3 DEF Selection
  <2>2. t[a] = s[i]
    BY <1>1, <2>1 DEF Selection
  <2> QED
    BY <1>3, <2>2 DEF ToSet
<1>6. ToSet(t) \subseteq {s[i] : i \in DOMAIN s \cap I}
  BY <1>4 DEF ToSet
<1> QED
  BY <1>5, <1>6 DEF t

\* The keys of a dict: each of them, once.
LEMMA InsertedKeys ==
  ASSUME NEW S, NEW s \in Seq(S)
  PROVE  /\ Inserted(s) \in Seq(S) /\ ToSet(Inserted(s)) = ToSet(s)
         /\ \A a, b \in DOMAIN Inserted(s) : a # b => Inserted(s)[a] # Inserted(s)[b]
<1> DEFINE I == {i \in DOMAIN s : \A j \in 1 .. i - 1 : s[j] # s[i]}
           t == Picked(s, I)
<1>0. Inserted(s) = t /\ DOMAIN s = 1 .. Len(s) /\ Len(s) \in Nat
  BY DEF Inserted
<1>1. \A i \in I : i \in 1 .. Len(s) /\ \A j \in I : j # i => s[j] # s[i]
  BY <1>0
<1>2. ASSUME NEW i \in DOMAIN s  PROVE \E j \in DOMAIN s \cap I : s[j] = s[i]
  <2> DEFINE T == {j \in DOMAIN s : s[j] = s[i]}
  <2>1. T \in SUBSET Nat /\ T # {}
    BY <1>0
  <2>2. PICK j \in T : \A k \in T : j <= k
    <3> HIDE DEF T
    <3> QED
      BY <2>1, LeastOf
  <2>3. ASSUME NEW k \in 1 .. j - 1  PROVE s[k] # s[j]
    <3>1. k \in DOMAIN s
      BY <1>0, <2>2
    <3>2. k \notin T
      BY <1>0, <2>2
    <3> QED
      BY <2>2, <3>1, <3>2
  <2> QED
    BY <2>2, <2>3
<1> HIDE DEF I
<1>3. ToSet(t) = {s[i] : i \in DOMAIN s \cap I}
  BY PickedSet
<1>4. PICK g : Selection(g, t, s, I, Len(s))
  BY PickedSelects, Zenon
<1>5. t \in Seq(S)
  BY PickedSelects, Zenon
<1> HIDE DEF t
<1>6. ToSet(t) = ToSet(s)
  BY <1>2, <1>3 DEF ToSet
<1>7. ASSUME NEW a \in DOMAIN t, NEW b \in DOMAIN t, a # b  PROVE t[a] # t[b]
  <2>1. a \in 1 .. Len(t) /\ b \in 1 .. Len(t) /\ (a < b \/ b < a)
    BY <1>5, <1>7
  <2>2. /\ g[a] \in I /\ g[b] \in I /\ t[a] = s[g[a]] /\ t[b] = s[g[b]]
        /\ g[a] < g[b] \/ g[b] < g[a]
    BY <1>4, <2>1 DEF Selection
  <2>3. g[a] \in Int /\ g[b] \in Int
    BY <1>1, <2>2
  <2>4. g[a] # g[b]
    BY <2>2, <2>3
  <2> QED
    BY <1>1, <2>2, <2>4
<1> QED
  BY <1>0, <1>5, <1>6, <1>7

(***************************************************************************)
(* Volumes                                                                  *)
(***************************************************************************)
LEMMA MinIs ==
  ASSUME NEW S, \E x \in S : \A y \in S : x <= y
  PROVE  Min(S) \in S /\ \A y \in S : Min(S) <= y
BY DEF Min

LEMMA MaxIs ==
  ASSUME NEW S, \E x \in S : \A y \in S : x >= y
  PROVE  Max(S) \in S /\ \A y \in S : Max(S) >= y
BY DEF Max

LEMMA MaxOfTwo ==
  ASSUME NEW x \in Int, NEW y \in Int
  PROVE  Max({x, y}) = IF x >= y THEN x ELSE y
BY DEF Max

LEMMA MinOfTwo ==
  ASSUME NEW x \in Int, NEW y \in Int
  PROVE  Min({x, y}) = IF x <= y THEN x ELSE y
BY DEF Min

\* At most 64 percents of a volume are born, at least 85 come.
LEMMA BornFit ==
  ASSUME NEW d \in History, NEW p \in PlannedNew(d), NEW o \in Organic(d)
  PROVE  p \in Nat /\ o \in Nat /\ p <= o
<1> DEFINE V == Volume[d]
<1>1. V \in Nat \ {0}
  BY VolumeAssumption DEF History
<1>2. PICK a \in 50 .. 64 : p = Max({1, Rounded(V, a)})
  BY DEF PlannedNew, NewShare
<1>3. PICK b \in 85 .. 115 : o = Rounded(V, b)
  BY DEF Organic
<1> HIDE DEF V
<1>4. V * a \in Nat /\ V * b \in Nat /\ V * a <= V * b /\ V * b >= 85
  <2>1. V * a \in Nat /\ V * b \in Nat
    BY <1>1
  <2>2. V * a <= V * b
    BY <1>1
  <2>3. V * b >= 1 * b
    BY <1>1
  <2> QED
    BY <2>1, <2>2, <2>3
<1> DEFINE A == V * a
           B == V * b
<1> HIDE DEF A, B
<1>5. /\ Rounded(V, a) = (A + 50) \div 100 /\ Rounded(V, b) = (B + 50) \div 100
      /\ A \in Nat /\ B \in Nat /\ A <= B /\ B >= 85
  BY <1>4 DEF A, B, Rounded
<1>6. /\ Rounded(V, a) \in Nat /\ Rounded(V, b) \in Nat
      /\ Rounded(V, a) <= Rounded(V, b) /\ Rounded(V, b) >= 1
  BY <1>5
<1> QED
  BY <1>2, <1>3, <1>6, MaxOfTwo

LEMMA ExtrasAreLists ==
  ASSUME NEW i \in 1 .. Len(Campaigns), NEW d \in Int
  PROVE  Extras(i, d) \in SUBSET Seq(1 .. Len(Campaigns))
<1> DEFINE c == Campaigns[i]
<1>1. c.start \in Int /\ c.end \in Int /\ c.extra \in Nat
  BY CampaignAssumption
<1> HIDE DEF c
<1>2. Ramp(c, d) \in Int
  <2>1. ASSUME NEW x \in Int, NEW y \in Int  PROVE Min({5, x, y}) \in Int
    <3>1. \E z \in {5, x, y} : \A w \in {5, x, y} : z <= w
      <4>1. CASE 5 <= x /\ 5 <= y
        BY <4>1
      <4>2. CASE x <= 5 /\ x <= y
        BY <4>2
      <4>3. CASE y <= 5 /\ y <= x
        BY <4>3
      <4> QED
        BY <4>1, <4>2, <4>3
    <3>2. Min({5, x, y}) \in {5, x, y}
      BY <3>1, MinIs, Zenon
    <3> QED
      BY <3>2
  <2>2. d - c.start + 1 \in Int /\ c.end - d + 1 \in Int
    BY <1>1
  <2> QED
    BY <2>1, <2>2 DEF Ramp
<1>3. ASSUME NEW percent \in {70, 100, 130}
      PROVE  (c.extra * Ramp(c, d) * percent + 250) \div 500 \in Int
  BY <1>1, <1>2
<1>4. ASSUME NEW m \in Int  PROVE [n \in 1 .. m |-> i] \in Seq(1 .. Len(Campaigns))
  <2>1. i \in 1 .. Len(Campaigns)
    BY CampaignAssumption
  <2>2. CASE m >= 0
    BY <2>1, <2>2
  <2>3. CASE m < 0
    <3>1. 1 .. m = 1 .. 0
      BY <2>3
    <3> QED
      BY <2>1, <3>1
  <2> QED
    BY <2>2, <2>3
<1> QED
  BY <1>3, <1>4 DEF Extras, c

LEMMA AllExtrasAreLists ==
  ASSUME NEW d \in Int
  PROVE  AllExtras(d) \in SUBSET Seq(1 .. Len(Campaigns))
<1>0. PICK n \in Nat : n = Len(Campaigns)
  BY CampaignAssumption
<1> DEFINE T == SUBSET Seq(1 .. Len(Campaigns))
           Step(i, t) == {u \o f : u \in t, f \in Extras(i, d)}
           base == {<<>>}
           Rec(f) == f = [i \in 0 .. n |-> IF i = 0 THEN base ELSE Step(i, f[i - 1])]
           g == [x \in (1 .. n) \X T |-> Step(x[1], x[2])]
<1>1. base \in T
  OBVIOUS
<1>2. ASSUME NEW i \in 1 .. n, NEW t \in T  PROVE Step(i, t) \in T
  <2>1. Extras(i, d) \in SUBSET Seq(1 .. Len(Campaigns))
    BY <1>0, ExtrasAreLists
  <2>2. ASSUME NEW u \in t, NEW f \in Extras(i, d)  PROVE u \o f \in Seq(1 .. Len(Campaigns))
    BY <2>1
  <2>3. ASSUME NEW w \in Step(i, t)  PROVE w \in Seq(1 .. Len(Campaigns))
    <3>1. PICK u \in t, f \in Extras(i, d) : w = u \o f
      OBVIOUS
    <3> QED
      BY <2>2, <3>1
  <2> HIDE DEF Step
  <2> QED
    BY <2>3
<1> HIDE DEF T
<1>3. /\ g \in [(1 .. n) \X T -> T]
      /\ \A i \in 1 .. n, t \in T : g[<<i, t>>] = Step(i, t)
  <2> HIDE DEF Step
  <2> QED
    BY <1>2
<1> HIDE DEF g
<1>4. PICK f \in [0 .. n -> T] : Iterates(f, n, base, g)
  <2>1. g \in [(1 .. n) \X T -> T]
    BY <1>3
  <2> HIDE DEF base
  <2> QED
    BY <1>1, <2>1, IterationExists
<1>5. Rec(f)
  <2> HIDE DEF Step
  <2>1. ASSUME NEW i \in 0 .. n, i # 0  PROVE f[i] = Step(i, f[i - 1])
    <3>1. i \in 1 .. n /\ f[i - 1] \in T
      BY <2>1
    <3>2. f[i] = g[<<i, f[i - 1]>>]
      BY <1>4, <3>1 DEF Iterates
    <3> QED
      BY <1>3, <3>1, <3>2
  <2>2. f[0] = base
    BY <1>4 DEF Iterates
  <2> HIDE DEF base
  <2> QED
    BY <2>1, <2>2
<1> DEFINE h == CHOOSE f_ : Rec(f_)
<1>6. AllExtras(d) = h[n]
  BY <1>0 DEF AllExtras
<1>7. Rec(h)
  <2> HIDE DEF Rec
  <2> QED
    BY <1>5
<1> HIDE DEF h
<1>8. h[0] = base /\ \A i \in 1 .. n : h[i] = Step(i, h[i - 1])
  <2> HIDE DEF Step, base
  <2> QED
    BY <1>7
<1> DEFINE P == {i \in 0 .. n : h[i] \in T}
<1>9. \A i \in 0 .. n : i \in P
  <2> HIDE DEF Step
  <2>1. 0 \in P
    <3> HIDE DEF base
    <3> QED
      BY <1>1, <1>8
  <2>2. ASSUME NEW i \in 1 .. n, i - 1 \in P  PROVE i \in P
    BY <1>2, <1>8, <2>2
  <2> HIDE DEF P
  <2> QED
    BY <2>1, <2>2, Climb
<1>10. h \in [0 .. n -> T]
  <2>1. h = [i \in 0 .. n |-> h[i]]
    <3> HIDE DEF Step, base
    <3> QED
      BY <1>7
  <2> QED
    BY <1>9, <2>1
<1>11. h[n] \in T
  BY <1>10
<1> QED
  BY <1>6, <1>11 DEF T

(***************************************************************************)
(* Births                                                                   *)
(***************************************************************************)
\* The i-th session of the k-th day: its number tells whether it is a birth,
\* and whoever is no birth has one on a day that has had its births.
Registered(k, i) ==
  LET s == world[k][i] IN
  /\ s.id = <<HISTORY_START + k - 1, i - 1>>
  /\ s.isNew = (i <= planned[HISTORY_START + k - 1])
  /\ s.isNew => s.user = s.id
  /\ ~s.isNew => \E b \in 1 .. k : \E j \in 1 .. Len(world[b]) :
                   /\ j <= planned[HISTORY_START + b - 1]
                   /\ s.user = <<HISTORY_START + b - 1, j - 1>>

WorldTyped ==
  /\ \E S : world \in Seq(Seq(S))
  /\ Building <= LastDay \/ world = <<>>
  /\ DOMAIN planned = History /\ \A d \in History : planned[d] \in PlannedNew(d)
  /\ day \in [organic : Int, extras : Seq(Nat), variety : {day.variety}]
  /\ world # <<>> => day.organic \in Organic(Building)

BirthInv ==
  /\ WorldTyped
  /\ \A k \in 1 .. Len(world) - 1 : Len(world[k]) >= planned[HISTORY_START + k - 1]
  /\ \A k \in 1 .. Len(world) : \A i \in 1 .. Len(world[k]) : Registered(k, i)

\* What the invariant gives the steps.
LEMMA BuildingIs ==
  ASSUME WorldTyped, world # <<>>
  PROVE  /\ Len(world) \in Nat \ {0} /\ Building \in History
         /\ planned[Building] \in Nat /\ day.organic \in Nat /\ NewCount = planned[Building]
         /\ Index = Len(world[Len(world)]) /\ Index \in Nat
<1>1. PICK S : world \in Seq(Seq(S))
  BY DEF WorldTyped
<1>2. Len(world) \in Nat \ {0} /\ world[Len(world)] \in Seq(S)
  BY <1>1
<1>3. Building \in History
  BY <1>2, HistoryAssumption DEF WorldTyped, Building, History
<1>4. /\ planned[Building] \in Nat /\ day.organic \in Nat
      /\ planned[Building] <= day.organic
  <2>1. planned[Building] \in PlannedNew(Building) /\ day.organic \in Organic(Building)
    BY <1>3 DEF WorldTyped
  <2> QED
    BY <1>3, <2>1, BornFit
<1>5. NewCount = planned[Building]
  BY <1>4, MinOfTwo DEF NewCount
<1>6. Index = Len(world[Len(world)]) /\ Index \in Nat
  BY <1>2 DEF Index, Sessions, Last
<1> QED
  BY <1>2, <1>3, <1>4, <1>5, <1>6

LEMMA BirthInit == GInit => BirthInv
<1> SUFFICES ASSUME GInit PROVE BirthInv
  OBVIOUS
<1>1. \E S : world \in Seq(Seq(S))
  <2>1. world \in Seq(Seq({}))
    BY DEF GInit
  <2> QED
    BY <2>1
<1>2. DOMAIN planned = History /\ \A d \in History : planned[d] \in PlannedNew(d)
  BY DEF GInit
<1>3. day \in [organic : Int, extras : Seq(Nat), variety : {day.variety}]
  BY DEF GInit
<1>4. Len(world) = 0 /\ world = <<>>
  BY DEF GInit
<1> QED
  BY <1>1, <1>2, <1>3, <1>4 DEF BirthInv, WorldTyped

\* A day opens once the day before has all of its sessions, its births first.
LEMMA BirthOpenDay == BirthInv /\ OpenDay => BirthInv'
<1> SUFFICES ASSUME BirthInv, OpenDay PROVE BirthInv'
  OBVIOUS
<1>1. PICK S : world \in Seq(Seq(S))
  BY DEF BirthInv, WorldTyped
<1> DEFINE n == Len(world)
<1>2. n \in Nat /\ world' = Append(world, <<>>) /\ planned' = planned
  BY <1>1 DEF OpenDay
<1>3. /\ world' \in Seq(Seq(S)) /\ Len(world') = n + 1 /\ world'[n + 1] = <<>>
      /\ \A k \in 1 .. n : world'[k] = world[k]
  <2>1. <<>> \in Seq(S)
    OBVIOUS
  <2> QED
    BY <1>1, <1>2, <2>1
<1>4. PICK o \in Organic(Building + 1), x \in AllExtras(Building + 1) :
        day' = [day EXCEPT !.organic = o, !.extras = x]
  BY DEF OpenDay
<1>5. Building \in Int /\ Building + 1 \in History /\ Building' = Building + 1
  <2>1. Building = HISTORY_START + n - 1 /\ Building' = HISTORY_START + (n + 1) - 1
    BY <1>3 DEF Building
  <2>2. Building < LastDay
    BY DEF OpenDay
  <2> QED
    BY <1>2, <2>1, <2>2, HistoryAssumption DEF History
<1>6. WorldTyped'
  <2>1. o \in Int /\ x \in Seq(Nat)
    <3>1. o \in Nat
      <4>1. planned[Building + 1] \in PlannedNew(Building + 1)
        BY <1>5 DEF BirthInv, WorldTyped
      <4> QED
        BY <1>4, <1>5, <4>1, BornFit
    <3>2. x \in Seq(1 .. Len(Campaigns))
      BY <1>4, <1>5, AllExtrasAreLists
    <3>3. x \in Seq(Nat)
      BY <3>2, CampaignAssumption
    <3> QED
      BY <3>1, <3>3
  <2>2. day' \in [organic : Int, extras : Seq(Nat), variety : {day'.variety}] /\ day'.organic = o
    BY <1>4, <2>1 DEF BirthInv, WorldTyped
  <2>3. Building' <= LastDay
    BY <1>5 DEF History
  <2>4. DOMAIN planned' = History /\ \A d \in History : planned'[d] \in PlannedNew(d)
    BY <1>2 DEF BirthInv, WorldTyped
  <2> QED
    BY <1>3, <1>4, <1>5, <2>2, <2>3, <2>4 DEF WorldTyped, Organic, Rounded
<1>7. \A k \in 1 .. n : Len(world[k]) >= planned[HISTORY_START + k - 1]
  <2>1. CASE n = 0
    BY <2>1
  <2>2. CASE n # 0
    <3>1. world # <<>>
      BY <1>1, <2>2
    <3>2. /\ Building = HISTORY_START + n - 1 /\ planned[Building] \in Nat /\ day.organic \in Nat
          /\ NewCount = planned[Building] /\ Index = Len(world[n])
      BY <3>1, BuildingIs DEF BirthInv, Building
    <3>3. Index = day.organic + Len(day.extras)
      BY <3>1 DEF OpenDay, DayDone
    <3>4. Len(day.extras) \in Nat
      BY DEF BirthInv, WorldTyped
    <3>5. planned[Building] <= day.organic
      BY <3>2, MinOfTwo DEF NewCount
    <3>6. Len(world[n]) >= planned[HISTORY_START + n - 1]
      BY <3>2, <3>3, <3>4, <3>5
    <3> QED
      BY <1>2, <3>6 DEF BirthInv
  <2> QED
    BY <2>1, <2>2
<1>8. ASSUME NEW k \in 1 .. n + 1, NEW i \in 1 .. Len(world'[k])  PROVE Registered(k, i)'
  <2>1. k \in 1 .. n
    BY <1>2, <1>3
  <2>2. world'[k] = world[k]
    BY <1>3, <2>1
  <2>3. Registered(k, i)
    BY <2>1, <2>2 DEF BirthInv
  <2>4. \A b \in 1 .. k : world'[b] = world[b]
    BY <1>2, <1>3, <2>1
  <2> QED
    BY <1>2, <2>2, <2>3, <2>4 DEF Registered
<1> HIDE DEF n
<1> QED
  BY <1>2, <1>3, <1>6, <1>7, <1>8 DEF BirthInv

\* What a session changes of the world, and that it disturbs no other.
LEMMA Added ==
  ASSUME BirthInv, ~DayDone, NEW isNew, NEW user, NEW c, Add(isNew, user, c)
  PROVE  LET n == Len(world)
             m == Len(world[n]) IN
         /\ n \in Nat \ {0} /\ m \in Nat /\ Building = HISTORY_START + n - 1
         /\ Len(world') = n /\ Len(world'[n]) = m + 1 /\ planned' = planned
         /\ \A k \in 1 .. n : k # n => world'[k] = world[k]
         /\ \A i \in 1 .. m : world'[n][i] = world[n][i]
         /\ \E v \in Visits(c) : world'[n][m + 1] = Session(Building, m, isNew, user, v)
         /\ WorldTyped'
         /\ \A k \in 1 .. n : \A i \in 1 .. Len(world[k]) : Registered(k, i)'
<1> DEFINE n == Len(world)
           m == Len(world[n])
<1>1. PICK S : world \in Seq(Seq(S))
  BY DEF BirthInv, WorldTyped
<1>2. /\ world # <<>> /\ n \in Nat \ {0} /\ m \in Nat /\ Index = m /\ world[n] \in Seq(S)
      /\ Building = HISTORY_START + n - 1
  <2>1. world # <<>>
    BY DEF DayDone
  <2> QED
    BY <1>1, <2>1, BuildingIs DEF BirthInv, Building
<1>3. PICK v \in Visits(c) :
               /\ world' = [world EXCEPT ![n] = Append(@, Session(Building, m, isNew, user, v))]
               /\ day' = [day EXCEPT !.variety = @ + Variety(v, c)]
               /\ planned' = planned
  BY <1>2 DEF Add
<1> DEFINE s == Session(Building, m, isNew, user, v)
           w == Append(world[n], s)
           U == S \cup {s}
<1>4. w \in Seq(U) /\ Len(w) = m + 1 /\ w[m + 1] = s /\ \A i \in 1 .. m : w[i] = world[n][i]
  <2> HIDE DEF s
  <2>1. world[n] \in Seq(U)
    BY <1>2
  <2> QED
    BY <1>2, <2>1
<1>5. /\ world' \in Seq(Seq(U)) /\ Len(world') = n /\ world'[n] = w
      /\ \A k \in 1 .. n : k # n => world'[k] = world[k]
  <2> HIDE DEF s, w
  <2>1. world' = [world EXCEPT ![n] = w]
    BY <1>3 DEF w, s
  <2> HIDE DEF U
  <2>2. \A k \in 1 .. n : world[k] \in Seq(U)
    BY <1>1 DEF U
  <2>3. world \in Seq(Seq(U))
    BY <1>1, <2>2
  <2> HIDE DEF n
  <2>4. n \in 1 .. Len(world) /\ Len(world) = n
    BY <1>2 DEF n
  <2> QED
    BY <1>4, <2>1, <2>3, <2>4
<1> HIDE DEF s, w, U
<1>6. WorldTyped'
  <2>1. day' \in [organic : Int, extras : Seq(Nat), variety : {day'.variety}] /\ day'.organic = day.organic
    BY <1>3 DEF BirthInv, WorldTyped
  <2>2. Building' = Building
    BY <1>5 DEF Building
  <2>3. world' # <<>>
    BY <1>2, <1>5
  <2>4. /\ Building <= LastDay /\ day.organic \in Organic(Building)
        /\ DOMAIN planned = History /\ \A d \in History : planned[d] \in PlannedNew(d)
    BY <1>2 DEF BirthInv, WorldTyped
  <2> QED
    BY <1>3, <1>5, <2>1, <2>2, <2>3, <2>4 DEF WorldTyped, Organic, Rounded
<1>7. ASSUME NEW k \in 1 .. n, NEW i \in 1 .. Len(world[k])  PROVE Registered(k, i)'
  <2>1. Registered(k, i)
    BY <1>7 DEF BirthInv
  <2>2. world'[k][i] = world[k][i]
    BY <1>2, <1>4, <1>5
  <2>3. \A b \in 1 .. k : \A j \in 1 .. Len(world[b]) : j \in 1 .. Len(world'[b])
    <3>1. ASSUME NEW b \in 1 .. k, NEW j \in 1 .. Len(world[b])  PROVE j \in 1 .. Len(world'[b])
      <4>1. CASE b = n
        BY <1>2, <1>4, <1>5, <4>1
      <4>2. CASE b # n
        <5>1. world'[b] = world[b]
          BY <1>2, <1>5, <4>2
        <5> QED
          BY <5>1
      <4> QED
        BY <4>1, <4>2
    <3> QED
      BY <3>1
  <2> QED
    BY <1>3, <2>1, <2>2, <2>3 DEF Registered
<1>8. \E x \in Visits(c) : world'[n][m + 1] = Session(Building, m, isNew, user, x)
  BY <1>4, <1>5 DEF s
<1> QED
  BY <1>2, <1>3, <1>4, <1>5, <1>6, <1>7, <1>8

\* Births come first: the index of a new session is below the number planned.
LEMMA BirthAddNew == BirthInv /\ AddNew => BirthInv'
<1> SUFFICES ASSUME BirthInv, AddNew PROVE BirthInv'
  OBVIOUS
<1>0. PICK n \in Nat, m \in Nat : n = Len(world) /\ m = Len(world[n])
  BY BuildingIs DEF BirthInv, AddNew, DayDone
<1>1. ~DayDone /\ Index < NewCount /\ Add(TRUE, UserId(Building, Index), CampaignOf(Index))
  BY DEF AddNew
<1>2. /\ world # <<>> /\ planned[Building] \in Nat /\ NewCount = planned[Building] /\ Index = m
  BY <1>0, <1>1, BuildingIs DEF BirthInv, DayDone
<1>3. /\ n \in Nat \ {0} /\ m \in Nat /\ Building = HISTORY_START + n - 1
      /\ Len(world') = n /\ Len(world'[n]) = m + 1 /\ planned' = planned
      /\ \A k \in 1 .. n : k # n => world'[k] = world[k]
      /\ WorldTyped'
      /\ \A k \in 1 .. n : \A i \in 1 .. Len(world[k]) : Registered(k, i)'
  BY <1>0, <1>1, Added
<1>4. PICK v : world'[n][m + 1] = Session(Building, m, TRUE, UserId(Building, m), v)
  BY <1>0, <1>1, <1>2, Added
<1>5. Registered(n, m + 1)'
  <2>1. /\ world'[n][m + 1].id = <<HISTORY_START + n - 1, (m + 1) - 1>>
        /\ world'[n][m + 1].isNew = TRUE /\ world'[n][m + 1].user = world'[n][m + 1].id
    BY <1>0, <1>3, <1>4 DEF Session, UserId
  <2>2. m + 1 <= planned'[HISTORY_START + n - 1]
    BY <1>1, <1>2, <1>3
  <2> QED
    BY <2>1, <2>2 DEF Registered
<1>6. ASSUME NEW k \in 1 .. n, NEW i \in 1 .. Len(world'[k])  PROVE Registered(k, i)'
  <2>1. CASE k = n /\ i = m + 1
    BY <1>5, <2>1
  <2>2. CASE ~(k = n /\ i = m + 1)
    <3>1. i \in 1 .. Len(world[k])
      BY <1>0, <1>3, <2>2
    <3> QED
      BY <1>3, <3>1
  <2> QED
    BY <2>1, <2>2
<1>7. Len(world') = n /\ WorldTyped'
  BY <1>3
<1>8. ASSUME NEW k \in 1 .. n - 1  PROVE Len(world'[k]) >= planned'[HISTORY_START + k - 1]
  <2>1. world'[k] = world[k] /\ planned' = planned
    BY <1>3
  <2>2. k \in 1 .. Len(world) - 1
    BY <1>0
  <2>3. Len(world[k]) >= planned[HISTORY_START + k - 1]
    BY <2>2, Zenon DEF BirthInv
  <2> QED
    BY <2>1, <2>3, Zenon
<1> QED
  BY <1>6, <1>7, <1>8 DEF BirthInv

\* Those who return have been born: on a day before, or on the first of all,
\* whose births are over.
LEMMA BirthAddReturning == BirthInv /\ AddReturning => BirthInv'
<1> SUFFICES ASSUME BirthInv, AddReturning PROVE BirthInv'
  OBVIOUS
<1>0. PICK n \in Nat, m \in Nat : n = Len(world) /\ m = Len(world[n])
  BY BuildingIs DEF BirthInv, AddReturning, DayDone
<1>1. PICK user \in Returning(Building) :
        ~DayDone /\ Index >= NewCount /\ Add(FALSE, user, CampaignOf(Index))
  BY DEF AddReturning
<1>2. /\ world # <<>> /\ planned[Building] \in Nat /\ NewCount = planned[Building] /\ Index = m
  BY <1>0, <1>1, BuildingIs DEF BirthInv, DayDone
<1>3. /\ n \in Nat \ {0} /\ m \in Nat /\ Building = HISTORY_START + n - 1
      /\ Len(world') = n /\ Len(world'[n]) = m + 1 /\ planned' = planned
      /\ \A k \in 1 .. n : k # n => world'[k] = world[k]
      /\ WorldTyped'
      /\ \A k \in 1 .. n : \A i \in 1 .. Len(world[k]) : Registered(k, i)'
  BY <1>0, <1>1, Added
<1>4. PICK v : world'[n][m + 1] = Session(Building, m, FALSE, user, v)
  BY <1>0, <1>1, Added
<1>5. PICK b \in 1 .. n, j \in Nat :
        /\ j \in 1 .. planned[HISTORY_START + b - 1] /\ j \in 1 .. Len(world[b])
        /\ planned[HISTORY_START + b - 1] \in Nat /\ Len(world[b]) \in Nat
        /\ user = <<HISTORY_START + b - 1, j - 1>>
  <2>1. PICK offset \in 1 .. Building : user \in VisitorsOf(Max({HISTORY_START, Building - offset}))
    BY DEF Returning
  <2> DEFINE birth == Max({HISTORY_START, Building - offset})
  <2>2. birth \in HISTORY_START .. Building /\ (birth = HISTORY_START \/ birth < Building)
    BY <1>3, MaxOfTwo, HistoryAssumption
  <2> HIDE DEF birth
  <2> DEFINE b == birth - HISTORY_START + 1
  <2>3. b \in 1 .. n /\ birth = HISTORY_START + b - 1 /\ (b = 1 \/ b < n)
    BY <1>3, <2>2, HistoryAssumption
  <2> HIDE DEF b
  <2>4. planned[birth] \in Nat
    <3>1. birth \in History
      BY <1>2, <2>2, HistoryAssumption, BuildingIs DEF BirthInv, History
    <3>2. planned[birth] \in PlannedNew(birth)
      BY <3>1 DEF BirthInv, WorldTyped
    <3>3. PICK o \in Organic(birth) : TRUE
      BY DEF Organic
    <3> QED
      BY <3>1, <3>2, <3>3, BornFit
  <2>5. Len(world[b]) >= planned[birth]
    <3>1. CASE b < n
      <4>1. b \in 1 .. Len(world) - 1
        BY <1>0, <1>3, <2>3, <3>1
      <4> QED
        BY <2>3, <4>1 DEF BirthInv
    <3>2. CASE b = n
      BY <1>0, <1>1, <1>2, <1>3, <2>3, <3>2
    <3> QED
      BY <1>3, <2>3, <3>1, <3>2
  <2>6. Len(world[b]) \in Nat
    BY <1>0, <2>3 DEF BirthInv, WorldTyped
  <2>7. PICK x \in 0 .. planned[birth] - 1 : user = UserId(birth, x)
    BY <2>1 DEF VisitorsOf, birth
  <2>8. /\ x + 1 \in Nat /\ x + 1 \in 1 .. planned[HISTORY_START + b - 1]
        /\ x + 1 \in 1 .. Len(world[b]) /\ user = <<HISTORY_START + b - 1, (x + 1) - 1>>
    BY <2>3, <2>4, <2>5, <2>6, <2>7 DEF UserId
  <2> QED
    BY <2>3, <2>4, <2>6, <2>8
<1>6. Registered(n, m + 1)'
  <2>1. /\ world'[n][m + 1].id = <<HISTORY_START + n - 1, (m + 1) - 1>>
        /\ world'[n][m + 1].isNew = FALSE /\ world'[n][m + 1].user = user
    BY <1>3, <1>4 DEF Session
  <2>2. ~(m + 1 <= planned'[HISTORY_START + n - 1])
    BY <1>1, <1>2, <1>3
  <2>3. j \in 1 .. Len(world'[b]) /\ j <= planned'[HISTORY_START + b - 1]
    <3>1. CASE b = n
      BY <1>0, <1>3, <1>5, <3>1
    <3>2. CASE b # n
      <4>1. world'[b] = world[b]
        BY <1>3, <3>2
      <4> QED
        BY <1>3, <1>5, <4>1
    <3> QED
      BY <3>1, <3>2
  <2>4. world'[n][m + 1].user = <<HISTORY_START + b - 1, j - 1>>
    BY <1>5, <2>1
  <2>5. \E c \in 1 .. n : \E i \in 1 .. Len(world'[c]) :
          /\ i <= planned'[HISTORY_START + c - 1]
          /\ world'[n][m + 1].user = <<HISTORY_START + c - 1, i - 1>>
    <3>1. b \in 1 .. n
      OBVIOUS
    <3> QED
      BY <2>3, <2>4, <3>1, Zenon
  <2>6. ~world'[n][m + 1].isNew
    BY <2>1
  <2>7. (world'[n][m + 1].isNew) = (m + 1 <= planned'[HISTORY_START + n - 1])
    <3>1. (m + 1 <= planned'[HISTORY_START + n - 1]) = FALSE
      BY <2>2
    <3> QED
      BY <2>1, <3>1, Zenon
  <2> QED
    BY <2>1, <2>5, <2>6, <2>7, Zenon DEF Registered
<1>7. ASSUME NEW k \in 1 .. n, NEW i \in 1 .. Len(world'[k])  PROVE Registered(k, i)'
  <2>1. CASE k = n /\ i = m + 1
    BY <1>6, <2>1
  <2>2. CASE ~(k = n /\ i = m + 1)
    <3>1. i \in 1 .. Len(world[k])
      BY <1>0, <1>3, <2>2
    <3> QED
      BY <1>3, <3>1
  <2> QED
    BY <2>1, <2>2
<1>8. Len(world') = n /\ WorldTyped'
  BY <1>3
<1>9. ASSUME NEW k \in 1 .. n - 1  PROVE Len(world'[k]) >= planned'[HISTORY_START + k - 1]
  <2>1. world'[k] = world[k] /\ planned' = planned
    BY <1>3
  <2>2. k \in 1 .. Len(world) - 1
    BY <1>0
  <2>3. Len(world[k]) >= planned[HISTORY_START + k - 1]
    BY <2>2, Zenon DEF BirthInv
  <2> QED
    BY <2>1, <2>3, Zenon
<1> QED
  BY <1>7, <1>8, <1>9 DEF BirthInv

\* A place among the births of a day is the birth of one user.
LEMMA OneBirth ==
  ASSUME BirthInv, NEW b \in 1 .. Len(world), NEW j \in 1 .. Len(world[b]),
         j <= planned[HISTORY_START + b - 1]
  PROVE  {i \in 1 .. Len(world[b]) :
            world[b][i].isNew /\ world[b][i].user = <<HISTORY_START + b - 1, j - 1>>} = {j}
<1>1. ASSUME NEW i \in 1 .. Len(world[b]), world[b][i].isNew,
             world[b][i].user = <<HISTORY_START + b - 1, j - 1>>
      PROVE  i = j
  <2>1. Registered(b, i)
    BY DEF BirthInv
  <2>2. world[b][i].user = <<HISTORY_START + b - 1, i - 1>>
    BY <1>1, <2>1, Zenon DEF Registered
  <2>3. <<HISTORY_START + b - 1, i - 1>> = <<HISTORY_START + b - 1, j - 1>>
    BY <1>1, <2>2, Zenon
  <2>4. i - 1 = j - 1 /\ i \in Int /\ j \in Int
    BY <2>3
  <2> QED
    BY <2>4
<1>2. world[b][j].isNew /\ world[b][j].user = <<HISTORY_START + b - 1, j - 1>>
  <2>1. Registered(b, j)
    BY DEF BirthInv
  <2>2. world[b][j].isNew
    BY <2>1 DEF Registered
  <2> QED
    BY <2>1, <2>2 DEF Registered
<1> QED
  BY <1>1, <1>2

LEMMA BirthsAreBorn == BirthInv => NobodyUnborn
<1> SUFFICES ASSUME BirthInv, NEW d \in HISTORY_START .. Building, NEW i \in DOMAIN SessionsOf(d)
             PROVE  LET s == SessionsOf(d)[i]
                        births == {j \in DOMAIN SessionsOf(s.user[1]) :
                                     /\ SessionsOf(s.user[1])[j].isNew
                                     /\ SessionsOf(s.user[1])[j].user = s.user}
                    IN Cardinality(births) = 1 /\ (s.isNew => s.user[1] = d)
  BY DEF NobodyUnborn
<1> DEFINE k == d - HISTORY_START + 1
           s == SessionsOf(d)[i]
<1>0. PICK S : world \in Seq(Seq(S))
  BY DEF BirthInv, WorldTyped
<1>1. ASSUME NEW b \in 1 .. Len(world)
      PROVE  /\ SessionsOf(HISTORY_START + b - 1) = world[b]
             /\ DOMAIN world[b] = 1 .. Len(world[b])
  <2>1. HISTORY_START + b - 1 \in HISTORY_START .. Building
    BY <1>0, HistoryAssumption DEF Building
  <2>2. (HISTORY_START + b - 1) - HISTORY_START + 1 = b
    BY HistoryAssumption
  <2>3. SessionsOf(HISTORY_START + b - 1) = world[(HISTORY_START + b - 1) - HISTORY_START + 1]
    BY <2>1 DEF SessionsOf
  <2>4. world[b] \in Seq(S)
    BY <1>0
  <2> QED
    BY <2>2, <2>3, <2>4
<1>2. k \in 1 .. Len(world) /\ d = HISTORY_START + k - 1
  BY <1>0, HistoryAssumption DEF Building
<1> HIDE DEF k
<1>3. i \in 1 .. Len(world[k]) /\ s = world[k][i] /\ Registered(k, i)
  BY <1>1, <1>2 DEF BirthInv
<1>4. PICK b \in 1 .. Len(world), j \in Nat :
        /\ j \in 1 .. Len(world[b]) /\ j <= planned[HISTORY_START + b - 1]
        /\ s.user = <<HISTORY_START + b - 1, j - 1>> /\ (s.isNew => b = k)
  <2>1. CASE s.isNew
    <3>1. i <= planned[HISTORY_START + k - 1]
      BY <1>3, <2>1 DEF Registered
    <3>2. s.user = <<HISTORY_START + k - 1, i - 1>>
      BY <1>3, <2>1 DEF Registered
    <3> QED
      BY <1>2, <1>3, <3>1, <3>2
  <2>2. CASE ~s.isNew
    <3>1. PICK b \in 1 .. k : \E j \in 1 .. Len(world[b]) :
            /\ j <= planned[HISTORY_START + b - 1]
            /\ s.user = <<HISTORY_START + b - 1, j - 1>>
      BY <1>3, <2>2 DEF Registered
    <3>2. b \in 1 .. Len(world)
      BY <1>0, <1>2, <3>1
    <3> QED
      BY <2>2, <3>1, <3>2
  <2> QED
    BY <2>1, <2>2
<1> DEFINE births == {x \in DOMAIN SessionsOf(s.user[1]) :
                        SessionsOf(s.user[1])[x].isNew /\ SessionsOf(s.user[1])[x].user = s.user}
<1>5. births = {j}
  <2>1. s.user[1] = HISTORY_START + b - 1
    BY <1>4
  <2>2. SessionsOf(s.user[1]) = world[b] /\ DOMAIN world[b] = 1 .. Len(world[b])
    BY <1>1, <2>1
  <2>3. {x \in 1 .. Len(world[b]) :
           world[b][x].isNew /\ world[b][x].user = <<HISTORY_START + b - 1, j - 1>>} = {j}
    BY <1>4, OneBirth
  <2> HIDE DEF s
  <2> QED
    BY <1>4, <2>2, <2>3
<1>6. Cardinality(births) = 1
  <2> HIDE DEF births
  <2> QED
    BY <1>5, FS_Singleton
<1>7. s.isNew => s.user[1] = d
  BY <1>2, <1>4
<1> QED
  BY <1>6, <1>7

(***************************************************************************)
(* Reports leave the world alone                                            *)
(***************************************************************************)
LEMMA WorldStep == [Next]_rvars => Build \/ UNCHANGED gvars
BY DEF Next, rvars, Refuse, OverQuota, Fail, Serve, Read

LEMMA BirthStep == BirthInv /\ [Next]_rvars => BirthInv'
<1> SUFFICES ASSUME BirthInv, [Next]_rvars PROVE BirthInv'
  OBVIOUS
<1>1. CASE OpenDay
  BY <1>1, BirthOpenDay
<1>2. CASE AddNew
  BY <1>2, BirthAddNew
<1>3. CASE AddReturning
  BY <1>3, BirthAddReturning
<1>4. CASE UNCHANGED gvars
  <2>1. world' = world /\ planned' = planned /\ day' = day
    BY <1>4 DEF gvars
  <2>2. WorldTyped'
    BY <2>1 DEF BirthInv, WorldTyped, Building
  <2>3. ASSUME NEW k \in 1 .. Len(world), NEW i \in 1 .. Len(world[k])  PROVE Registered(k, i)'
    <3>1. Registered(k, i)
      BY DEF BirthInv
    <3> QED
      BY <2>1, <3>1 DEF Registered
  <2> QED
    BY <2>1, <2>2, <2>3 DEF BirthInv
<1> QED
  BY <1>1, <1>2, <1>3, <1>4, WorldStep DEF Build

\* Nobody returns who was never born, for every history, volumes, campaigns
\* and draws: the number that other days draw from fits the day.
THEOREM EveryoneIsBorn == Spec => []NobodyUnborn
<1>1. Init => BirthInv
  BY BirthInit DEF Init
<1>2. BirthInv /\ [Next]_rvars => BirthInv'
  BY BirthStep
<1>3. BirthInv => NobodyUnborn
  BY BirthsAreBorn
<1> QED
  BY <1>1, <1>2, <1>3, PTL DEF Spec

(***************************************************************************)
(* Validation                                                               *)
(***************************************************************************)
LEMMA QueryIs ==
  ASSUME NEW i \in Accepted
  PROVE  /\ i \in DOMAIN Bodies /\ Passes(Bodies[i]) /\ Queries[i] = Query(Bodies[i])
         /\ Queries[i].metrics = Bodies[i].metrics /\ Queries[i].dimensions = Bodies[i].dimensions
         /\ Queries[i].orderBys = Bodies[i].orderBys
BY DEF Accepted, Queries, Query

\* What passes passes every check of every stage.
LEMMA NamesPass ==
  ASSUME NEW names \in Seq(STRING), NEW registry,
         \A check \in ToSet(NamesChecks(names, registry)) : check.passes
  PROVE  ToSet(names) \subseteq registry
<1> DEFINE Typed(i) == Check(names[i] # IllTyped, "invalid value")
           Known(i) == Check(names[i] \in registry, "not a valid field")
           New(i)   == Check(\A j \in 1 .. i - 1 : names[j] # names[i], "duplicate")
           seqs == [i \in DOMAIN names |-> <<Typed(i), Known(i), New(i)>>]
           S == UNION {{Typed(i), Known(i), New(i)} : i \in DOMAIN names}
<1>1. seqs \in Seq(Seq(S)) /\ \A i \in DOMAIN names : seqs[i] = <<Typed(i), Known(i), New(i)>>
  <2> HIDE DEF Typed, Known, New
  <2>1. ASSUME NEW i \in DOMAIN names  PROVE seqs[i] \in Seq(S)
    <3>1. Typed(i) \in S /\ Known(i) \in S /\ New(i) \in S
      OBVIOUS
    <3> HIDE DEF S
    <3> QED
      BY <3>1
  <2>2. PICK n \in Nat : DOMAIN names = 1 .. n
    OBVIOUS
  <2>3. seqs \in [1 .. n -> Seq(S)]
    <3> HIDE DEF S
    <3> QED
      BY <2>1, <2>2
  <2> HIDE DEF S, seqs
  <2>4. seqs \in Seq(Seq(S))
    BY <2>3
  <2>5. ASSUME NEW i \in DOMAIN names  PROVE seqs[i] = <<Typed(i), Known(i), New(i)>>
    BY DEF seqs
  <2> QED
    BY <2>4, <2>5
<1>2. ASSUME NEW i \in DOMAIN names  PROVE names[i] \in registry
  <2>1. 2 \in DOMAIN seqs[i] /\ i \in DOMAIN seqs /\ seqs[i][2] = Known(i)
    <3> HIDE DEF Typed, Known, New
    <3> QED
      OBVIOUS
  <2>2. seqs[i][2] \in ToSet(NamesChecks(names, registry))
    <3> HIDE DEF seqs, S
    <3>1. seqs[i][2] \in ToSet(FlattenSeq(seqs))
      BY <1>1, <2>1, FlattenMembers
    <3> QED
      BY <3>1 DEF NamesChecks, seqs
  <2>3. seqs[i][2].passes = (names[i] \in registry)
    BY <2>1 DEF Check
  <2> HIDE DEF seqs
  <2> QED
    BY <2>2, <2>3
<1> QED
  BY <1>2 DEF ToSet

LEMMA StagesPass ==
  ASSUME NEW body, Passes(body), NEW n \in 1 .. 12
  PROVE  \A check \in ToSet(Checks(body)[n]) : check.passes
<1>1. DOMAIN Checks(body) = 1 .. 12
  BY DEF Checks
<1>2. Checks(body)[n] \in ToSet(Checks(body))
  BY <1>1 DEF ToSet
<1> QED
  BY <1>2 DEF Passes

LEMMA FieldsKnown ==
  ASSUME NEW i \in Accepted
  PROVE  ToSet(Bodies[i].metrics) \subseteq METRICS /\ ToSet(Bodies[i].dimensions) \subseteq DIMENSIONS
<1> DEFINE body == Bodies[i]
<1>1. Passes(body) /\ body.metrics \in Seq(STRING) /\ body.dimensions \in Seq(STRING)
  BY QueryIs, BodiesAssumption
<1>2. Checks(body)[2] = NamesChecks(body.metrics, METRICS)
  BY DEF Checks
<1>3. Checks(body)[3] = NamesChecks(body.dimensions, DIMENSIONS)
  BY DEF Checks
<1> HIDE DEF body
<1>4. ToSet(body.metrics) \subseteq METRICS
  <2>1. \A check \in ToSet(NamesChecks(body.metrics, METRICS)) : check.passes
    BY <1>1, <1>2, StagesPass
  <2> QED
    BY <1>1, <2>1, NamesPass
<1>5. ToSet(body.dimensions) \subseteq DIMENSIONS
  <2>1. \A check \in ToSet(NamesChecks(body.dimensions, DIMENSIONS)) : check.passes
    BY <1>1, <1>3, StagesPass
  <2> QED
    BY <1>1, <2>1, NamesPass
<1> QED
  BY <1>4, <1>5 DEF body

\* The only sorts that pass and fail are by a field of the other kind.
LEMMA CrashIsCrossed ==
  ASSUME NEW i \in Accepted, Crashes(Queries[i])
  PROVE  \E k \in DOMAIN Queries[i].orderBys : Crossed(Queries[i], Queries[i].orderBys[k])
<1> DEFINE q == Queries[i]
           body == Bodies[i]
<1>1. PICK k \in DOMAIN q.orderBys : Misdirected(q, q.orderBys[k])
  BY DEF Crashes
<1> DEFINE c == q.orderBys[k]
<1>2. /\ q.metrics = body.metrics /\ q.dimensions = body.dimensions
      /\ q.orderBys = body.orderBys /\ Passes(body)
  BY QueryIs
<1>3. Sortable(body, Target(c))
  <2>1. Checks(body)[11] = OrderChecks(body)
    BY DEF Checks
  <2>2. \A check \in ToSet(OrderChecks(body)) : check.passes
    BY <1>2, <2>1, StagesPass
  <2>3. OrderChecks(body)[k] \in ToSet(OrderChecks(body))
    BY <1>1, <1>2 DEF OrderChecks, ToSet
  <2>4. OrderChecks(body)[k].passes = Sortable(body, Target(c))
    BY <1>1, <1>2 DEF OrderChecks, Check
  <2> QED
    BY <2>2, <2>3, <2>4
<1>4. "" \notin ToSet(body.dimensions) /\ "" \notin ToSet(body.metrics)
  <2>1. "" \notin DIMENSIONS
    BY DEF DIMENSIONS, DateFamily
  <2>2. "" \notin METRICS
    BY DEF METRICS, Metrics
  <2> QED
    BY <2>1, <2>2, FieldsKnown
<1> HIDE DEF q, c, body
<1>5. Crossed(q, c)
  <2>1. CASE c.metric = IllTyped
    BY <2>1 DEF Crossed
  <2>2. CASE c.metric \notin {Absent, IllTyped}
    BY <1>1, <1>2, <1>3, <2>2 DEF Crossed, Misdirected, Sortable, Target, c
  <2>3. CASE c.metric = Absent
    <3>1. c.dimension \notin ToSet(q.dimensions) \cup {DIMENSION_RANGE}
      BY <1>1, <2>3 DEF Misdirected, c
    <3>2. CASE c.dimension \notin {Absent, IllTyped}
      BY <1>2, <1>3, <2>3, <3>1, <3>2 DEF Crossed, Sortable, Target
    <3>3. CASE c.dimension \in {Absent, IllTyped}
      <4>1. Target(c) = ""
        BY <2>3, <3>3 DEF Target
      <4> QED
        BY <1>3, <1>4, <4>1 DEF Sortable, DIMENSION_RANGE
    <3> QED
      BY <3>2, <3>3
  <2> QED
    BY <2>1, <2>2, <2>3
<1> QED
  BY <1>1, <1>5 DEF q, c

\* Whoever pays is answered, for any world, bodies and costs.
THEOREM WhoeverPaysIsServed == Spec => []PaidIsServed
<1>1. Init => PaidIsServed
  BY DEF Init, NoReply, Failure, Answer, PaidIsServed
<1>2. PaidIsServed /\ [Next]_rvars => PaidIsServed'
  <2> SUFFICES ASSUME PaidIsServed, [Next]_rvars  PROVE PaidIsServed'
    OBVIOUS
  <2>1. CASE reply' = reply
    BY <2>1 DEF PaidIsServed, Served, Q
  <2>2. ASSUME NEW i \in DOMAIN Bodies, Refuse(i) \/ OverQuota(i)  PROVE PaidIsServed'
    BY <2>2 DEF Refuse, OverQuota, Failure, Answer, PaidIsServed
  <2>3. ASSUME NEW i \in DOMAIN Bodies, Fail(i)  PROVE PaidIsServed'
    <3>1. i \in Accepted /\ Crashes(Queries[i]) /\ reply'.body = i
      BY <2>3 DEF Fail, Failure, Answer
    <3> QED
      BY <3>1, CrashIsCrossed DEF PaidIsServed, Q
  <2>4. ASSUME NEW i \in DOMAIN Bodies, Serve(i)  PROVE PaidIsServed'
    <3>1. reply'.status = 200
      BY <2>4, Zenon DEF Serve, Result, Answer
    <3> QED
      BY <3>1 DEF PaidIsServed, Served
  <2>5. CASE Read
    <3>1. reply'.charged = 0
      BY <2>5 DEF Read, NoReply, Failure, Answer
    <3> QED
      BY <3>1 DEF PaidIsServed
  <2> QED
    BY <2>1, <2>2, <2>3, <2>4, <2>5 DEF Next, rvars
<1> QED
  BY <1>1, <1>2, PTL DEF Spec

(***************************************************************************)
(* Visits                                                                   *)
(***************************************************************************)
LEMMA CountIs ==
  ASSUME NEW events, Len(events) \in Nat
  PROVE  \E f : /\ f[0] = 0 /\ CountOf(events) = f[Len(events)]
                /\ \A i \in 1 .. Len(events) : f[i] = f[i - 1] + events[i].count
<1>0. PICK n \in Nat : n = Len(events)
  OBVIOUS
<1> DEFINE Step(i, t) == t + events[i].count
           base == 0
           Rec(m, f) == f = [i \in 0 .. m |-> IF i = 0 THEN base ELSE Step(i, f[i - 1])]
           P == {m \in 0 .. n : \E f : Rec(m, f)}
<1> HIDE DEF Step, base
<1>1. 0 \in P
  <2> DEFINE z == [i \in 0 .. 0 |-> base]
  <2>1. Rec(0, z)
    OBVIOUS
  <2> HIDE DEF z, Rec
  <2>2. \E f : Rec(0, f)
    BY <2>1
  <2> QED
    BY <2>2
<1>2. ASSUME NEW m \in 1 .. n, m - 1 \in P  PROVE m \in P
  <2>1. PICK f : Rec(m - 1, f)
    BY <1>2
  <2> DEFINE e == [i \in 0 .. m |-> IF i = m THEN Step(m, f[m - 1]) ELSE f[i]]
  <2>2. ASSUME NEW i \in 0 .. m  PROVE e[i] = IF i = 0 THEN base ELSE Step(i, e[i - 1])
    <3>1. CASE i = 0
      BY <2>1, <3>1
    <3>2. CASE i = m
      <4>1. e[m] = Step(m, f[m - 1]) /\ e[m - 1] = f[m - 1]
        OBVIOUS
      <4> HIDE DEF e
      <4> QED
        BY <3>2, <4>1
    <3>3. CASE i \in 1 .. m - 1
      <4>1. e[i] = f[i] /\ e[i - 1] = f[i - 1]
        BY <3>3
      <4>2. f[i] = Step(i, f[i - 1])
        BY <2>1, <3>3
      <4> HIDE DEF e
      <4> QED
        BY <3>3, <4>1, <4>2
    <3> QED
      BY <3>1, <3>2, <3>3
  <2>3. e = [i \in 0 .. m |-> e[i]]
    OBVIOUS
  <2> HIDE DEF e
  <2>4. Rec(m, e)
    BY <2>2, <2>3
  <2> QED
    BY <2>4
<1>3. PICK f : Rec(n, f)
  <2> HIDE DEF P
  <2>1. n \in P
    <3>1. \A m \in 1 .. n : m - 1 \in P => m \in P
      BY <1>2, Zenon
    <3>2. \A m \in 0 .. n : m \in P
      BY <1>1, <3>1, Climb, Zenon
    <3> QED
      BY <3>2
  <2> QED
    BY <2>1 DEF P
<1> DEFINE h == CHOOSE f_ : Rec(n, f_)
<1>4. CountOf(events) = h[n]
  BY <1>0 DEF CountOf, Step, base
<1>5. Rec(n, h)
  <2> HIDE DEF Rec
  <2> QED
    BY <1>3
<1> HIDE DEF h
<1>6. h[0] = base /\ \A i \in 1 .. n : h[i] = Step(i, h[i - 1])
  BY <1>5
<1> QED
  BY <1>0, <1>4, <1>6 DEF Step, base

\* Whoever browses has seen at least the landing page.
LEMMA BrowsesAreLists ==
  ASSUME NEW landing, NEW p \in Browses(landing)
  PROVE  (\E U : p \in Seq(U)) /\ Len(p) \in Nat \ {0}
<1>0. PICK n \in Nat : n = MaxFollowups
  BY BoundAssumption
<1> DEFINE Step(i, t) == UNION {{u} \cup {Append(u, next) : next \in FollowUps(Last(u))} : u \in t}
           base == {<<landing>>}
           Rec(m, f) == f = [i \in 0 .. m |-> IF i = 0 THEN base ELSE Step(i, f[i - 1])]
           P == {m \in 0 .. n : \E f : Rec(m, f)}
<1> HIDE DEF Step, base
<1>1. 0 \in P
  <2> DEFINE z == [i \in 0 .. 0 |-> base]
  <2>1. Rec(0, z)
    OBVIOUS
  <2> HIDE DEF z, Rec
  <2>2. \E f : Rec(0, f)
    BY <2>1
  <2> QED
    BY <2>2
<1>2. ASSUME NEW m \in 1 .. n, m - 1 \in P  PROVE m \in P
  <2>1. PICK f : Rec(m - 1, f)
    BY <1>2
  <2> DEFINE e == [i \in 0 .. m |-> IF i = m THEN Step(m, f[m - 1]) ELSE f[i]]
  <2>2. ASSUME NEW i \in 0 .. m  PROVE e[i] = IF i = 0 THEN base ELSE Step(i, e[i - 1])
    <3>1. CASE i = 0
      BY <2>1, <3>1
    <3>2. CASE i = m
      <4>1. e[m] = Step(m, f[m - 1]) /\ e[m - 1] = f[m - 1]
        OBVIOUS
      <4> HIDE DEF e
      <4> QED
        BY <3>2, <4>1
    <3>3. CASE i \in 1 .. m - 1
      <4>1. e[i] = f[i] /\ e[i - 1] = f[i - 1]
        BY <3>3
      <4>2. f[i] = Step(i, f[i - 1])
        BY <2>1, <3>3
      <4> HIDE DEF e
      <4> QED
        BY <3>3, <4>1, <4>2
    <3> QED
      BY <3>1, <3>2, <3>3
  <2>3. e = [i \in 0 .. m |-> e[i]]
    OBVIOUS
  <2> HIDE DEF e
  <2>4. Rec(m, e)
    BY <2>2, <2>3
  <2> QED
    BY <2>4
<1>3. PICK f : Rec(n, f)
  <2> HIDE DEF P
  <2>1. n \in P
    <3>1. \A m \in 1 .. n : m - 1 \in P => m \in P
      BY <1>2, Zenon
    <3>2. \A m \in 0 .. n : m \in P
      BY <1>1, <3>1, Climb, Zenon
    <3> QED
      BY <3>2
  <2> QED
    BY <2>1 DEF P
<1> DEFINE h == CHOOSE f_ : Rec(n, f_)
<1>4. Browses(landing) = h[n]
  BY <1>0 DEF Browses, Step, base
<1>5. Rec(n, h)
  <2> HIDE DEF Rec
  <2> QED
    BY <1>3
<1> HIDE DEF h
<1>6. h[0] = base /\ \A i \in 1 .. n : h[i] = Step(i, h[i - 1])
  BY <1>5
<1> DEFINE List(u) == (\E U : u \in Seq(U)) /\ Len(u) \in Nat \ {0}
           L == {i \in 0 .. n : \A u \in h[i] : List(u)}
<1>7. \A i \in 0 .. n : i \in L
  <2>1. 0 \in L
    <3>1. <<landing>> \in Seq({landing}) /\ Len(<<landing>>) = 1
      OBVIOUS
    <3>2. List(<<landing>>)
      <4>1. \E U : <<landing>> \in Seq(U)
        BY <3>1, Zenon
      <4>2. Len(<<landing>>) \in Nat \ {0}
        BY <3>1
      <4> QED
        BY <4>1, <4>2, Zenon
    <3> HIDE DEF List
    <3> QED
      BY <1>6, <3>2 DEF base
  <2>2. ASSUME NEW i \in 1 .. n, i - 1 \in L  PROVE i \in L
    <3>1. ASSUME NEW u, List(u), NEW next  PROVE List(Append(u, next))
      <4>1. PICK U : u \in Seq(U)
        BY <3>1
      <4>2. u \in Seq(U \cup {next})
        BY <4>1
      <4>3. Append(u, next) \in Seq(U \cup {next}) /\ Len(Append(u, next)) = Len(u) + 1
        BY <4>2
      <4> QED
        BY <3>1, <4>3
    <3>2. ASSUME NEW w \in h[i]  PROVE List(w)
      <4>1. w \in Step(i, h[i - 1])
        BY <1>6
      <4>2. PICK u \in h[i - 1] : w = u \/ \E next \in FollowUps(Last(u)) : w = Append(u, next)
        BY <4>1 DEF Step
      <4>3. List(u)
        BY <2>2
      <4> HIDE DEF List
      <4> QED
        BY <3>1, <4>2, <4>3
    <3> HIDE DEF List
    <3> QED
      BY <3>2
  <2> HIDE DEF L
  <2> QED
    BY <2>1, <2>2, Climb
<1>8. n \in L /\ p \in h[n]
  BY <1>4, <1>7
<1> QED
  BY <1>8

\* How much a list of events counts for.
LEMMA CountIsNat ==
  ASSUME NEW N, NEW events \in Seq([name : N, count : Nat])
  PROVE  CountOf(events) \in Nat /\ (events = <<>> => CountOf(events) = 0)
<1>1. PICK n \in Nat : n = Len(events) /\ DOMAIN events = 1 .. n
  OBVIOUS
<1>2. PICK f : /\ f[0] = 0 /\ CountOf(events) = f[n]
               /\ \A i \in 1 .. n : f[i] = f[i - 1] + events[i].count
  BY <1>1, CountIs
<1> DEFINE P == {i \in 0 .. n : f[i] \in Nat}
<1>3. \A i \in 0 .. n : i \in P
  <2>1. 0 \in P
    BY <1>2
  <2>2. ASSUME NEW i \in 1 .. n, i - 1 \in P  PROVE i \in P
    <3> DEFINE R == [name : N, count : Nat]
    <3>1. events[i].count \in Nat
      <4>1. events[i] \in R
        <5>1. events \in Seq(R)
          OBVIOUS
        <5> HIDE DEF R
        <5> QED
          BY <1>1, <5>1
      <4> QED
        BY <4>1
    <3> QED
      BY <1>2, <2>2, <3>1
  <2> HIDE DEF P
  <2> QED
    BY <2>1, <2>2, Climb
<1>4. f[n] \in Nat
  BY <1>3
<1>5. events = <<>> => n = 0
  BY <1>1
<1> QED
  BY <1>2, <1>4, <1>5

LEMMA KeyOfIs ==
  ASSUME NEW s, NEW N, s.events \in Seq([name : N, count : Nat])
  PROVE  KeyOf(s) \in Nat /\ (N \cap KEY_EVENTS = {} => KeyOf(s) = 0)
<1> DEFINE events == s.events
           I == {i \in DOMAIN events : events[i].name \in KEY_EVENTS}
           R == [name : N, count : Nat]
<1>1. /\ Picked(events, I) \in Seq(R)
      /\ \A x \in ToSet(Picked(events, I)) : \E i \in DOMAIN events \cap I : x = events[i]
  <2> HIDE DEF I, R
  <2> QED
    BY PickedMembers DEF R
<1>2. KeyOf(s) = CountOf(Picked(events, I))
  BY DEF KeyOf
<1>3. ASSUME N \cap KEY_EVENTS = {}  PROVE Picked(events, I) = <<>>
  <2>1. I = {}
    <3>1. ASSUME NEW i \in DOMAIN events  PROVE events[i].name \in N
      <4>1. events[i] \in R
        <5>1. events \in Seq(R)
          OBVIOUS
        <5> HIDE DEF R, events
        <5> QED
          BY <5>1
      <4> QED
        BY <4>1
    <3> QED
      BY <1>3, <3>1
  <2>2. ToSet(Picked(events, I)) = {}
    BY <1>1, <2>1
  <2> HIDE DEF I, R
  <2>3. DOMAIN Picked(events, I) = {}
    BY <2>2 DEF ToSet
  <2> QED
    BY <1>1, <2>3
<1> HIDE DEF I, events
<1> QED
  BY <1>1, <1>2, <1>3, CountIsNat

VisitEvents == {"session_start", "page_view", "first_visit", "user_engagement", "scroll"}

\* The events of a visit: two of them are key events, and are told only of
\* visits that leave their details.
LEMMA SomeEvents ==
  ASSUME NEW pages, Len(pages) \in Nat, NEW isNew, NEW engaged, NEW scrolls \in Nat, NEW lead, NEW job
  PROVE  Events(pages, isNew, engaged, scrolls, lead, job) # <<>>
<1> DEFINE N == VisitEvents \cup KEY_EVENTS
           R == [name : N, count : Nat]
           When(cond, name, n) == IF cond THEN <<[name |-> name, count |-> n]>> ELSE <<>>
<1>1. ASSUME NEW cond, NEW name \in N, NEW n \in Nat  PROVE When(cond, name, n) \in Seq(R)
  <2>1. CASE cond
    <3>1. [name |-> name, count |-> n] \in R
      BY <1>1
    <3> HIDE DEF R
    <3> QED
      BY <2>1, <3>1
  <2>2. CASE ~cond
    <3> HIDE DEF R
    <3> QED
      BY <2>2
  <2> QED
    BY <2>1, <2>2
<1>0. /\ "session_start" \in N /\ "page_view" \in N /\ "first_visit" \in N
      /\ "user_engagement" \in N /\ "scroll" \in N /\ "generate_lead" \in N /\ "job_apply" \in N
  BY DEF VisitEvents, KEY_EVENTS
<1> HIDE DEF N, R
<1>2. Len(When(TRUE, "session_start", 1)) = 1
  OBVIOUS
<1>3. Events(pages, isNew, engaged, scrolls, lead, job)
        = When(TRUE, "session_start", 1) \o When(TRUE, "page_view", Len(pages))
          \o When(isNew, "first_visit", 1) \o When(engaged, "user_engagement", 1)
          \o When(scrolls > 0, "scroll", scrolls)
          \o When(lead, "generate_lead", 1) \o When(job, "job_apply", 1)
  BY DEF Events
<1> HIDE DEF When
<1>4. /\ When(TRUE, "session_start", 1) \in Seq(R) /\ When(TRUE, "page_view", Len(pages)) \in Seq(R)
      /\ When(isNew, "first_visit", 1) \in Seq(R) /\ When(engaged, "user_engagement", 1) \in Seq(R)
      /\ When(scrolls > 0, "scroll", scrolls) \in Seq(R)
      /\ When(lead, "generate_lead", 1) \in Seq(R) /\ When(job, "job_apply", 1) \in Seq(R)
  <2>1. When(TRUE, "session_start", 1) \in Seq(R) /\ When(TRUE, "page_view", Len(pages)) \in Seq(R)
    BY <1>0, <1>1
  <2>2. When(isNew, "first_visit", 1) \in Seq(R) /\ When(engaged, "user_engagement", 1) \in Seq(R)
    BY <1>0, <1>1
  <2>3. When(scrolls > 0, "scroll", scrolls) \in Seq(R)
    BY <1>0, <1>1
  <2>4. When(lead, "generate_lead", 1) \in Seq(R) /\ When(job, "job_apply", 1) \in Seq(R)
    BY <1>0, <1>1
  <2> QED
    BY <2>1, <2>2, <2>3, <2>4
<1> DEFINE Some(x) == x \in Seq(R) /\ Len(x) > 0
           first == When(TRUE, "session_start", 1)
<1>5. ASSUME NEW x, Some(x), NEW y \in Seq(R)  PROVE Some(x \o y)
  BY <1>5
<1>6. Some(first)
  <2>1. first \in Seq(R)
    BY <1>4
  <2>2. Len(first) = 1
    BY <1>2
  <2> HIDE DEF first
  <2> QED
    BY <2>1, <2>2
<1>7. \A x : Some(x) => x # <<>>
  OBVIOUS
<1> HIDE DEF Some
<1> DEFINE a == first \o When(TRUE, "page_view", Len(pages))
           b == a \o When(isNew, "first_visit", 1)
           c == b \o When(engaged, "user_engagement", 1)
           d == c \o When(scrolls > 0, "scroll", scrolls)
           e == d \o When(lead, "generate_lead", 1)
<1> HIDE DEF first
<1>8. Some(a)
  BY <1>4, <1>5, <1>6
<1> HIDE DEF a
<1>9. Some(b)
  BY <1>4, <1>5, <1>8
<1> HIDE DEF b
<1>10. Some(c)
  BY <1>4, <1>5, <1>9
<1> HIDE DEF c
<1>11. Some(d)
  BY <1>4, <1>5, <1>10
<1> HIDE DEF d
<1>12. Some(e)
  BY <1>4, <1>5, <1>11
<1> HIDE DEF e
<1>13. Some(e \o When(job, "job_apply", 1))
  BY <1>4, <1>5, <1>12
<1> QED
  BY <1>3, <1>7, <1>13 DEF a, b, c, d, e, first

LEMMA EventsAre ==
  ASSUME NEW N, VisitEvents \subseteq N,
         NEW pages, Len(pages) \in Nat, NEW isNew, NEW engaged, NEW scrolls \in Nat,
         NEW lead, NEW job, lead => "generate_lead" \in N, job => "job_apply" \in N
  PROVE  Events(pages, isNew, engaged, scrolls, lead, job) \in Seq([name : N, count : Nat])
<1> DEFINE R == [name : N, count : Nat]
           When(cond, name, n) == IF cond THEN <<[name |-> name, count |-> n]>> ELSE <<>>
<1>1. ASSUME NEW cond, NEW name, cond => name \in N, NEW n \in Nat
      PROVE  When(cond, name, n) \in Seq(R)
  <2>1. CASE cond
    <3>1. [name |-> name, count |-> n] \in R
      BY <1>1, <2>1
    <3> HIDE DEF R
    <3> QED
      BY <2>1, <3>1
  <2>2. CASE ~cond
    <3> HIDE DEF R
    <3> QED
      BY <2>2
  <2> QED
    BY <2>1, <2>2
<1>2. Events(pages, isNew, engaged, scrolls, lead, job)
        = When(TRUE, "session_start", 1) \o When(TRUE, "page_view", Len(pages))
          \o When(isNew, "first_visit", 1) \o When(engaged, "user_engagement", 1)
          \o When(scrolls > 0, "scroll", scrolls)
          \o When(lead, "generate_lead", 1) \o When(job, "job_apply", 1)
  BY DEF Events
<1> HIDE DEF When, R
<1>0. /\ "session_start" \in N /\ "page_view" \in N /\ "first_visit" \in N
      /\ "user_engagement" \in N /\ "scroll" \in N
  BY DEF VisitEvents
<1>3. /\ When(TRUE, "session_start", 1) \in Seq(R) /\ When(TRUE, "page_view", Len(pages)) \in Seq(R)
      /\ When(isNew, "first_visit", 1) \in Seq(R) /\ When(engaged, "user_engagement", 1) \in Seq(R)
      /\ When(scrolls > 0, "scroll", scrolls) \in Seq(R)
      /\ When(lead, "generate_lead", 1) \in Seq(R) /\ When(job, "job_apply", 1) \in Seq(R)
  BY <1>0, <1>1
<1>4. ASSUME NEW x \in Seq(R), NEW y \in Seq(R)  PROVE x \o y \in Seq(R)
  OBVIOUS
<1> DEFINE a == When(TRUE, "session_start", 1) \o When(TRUE, "page_view", Len(pages))
           b == a \o When(isNew, "first_visit", 1)
           c == b \o When(engaged, "user_engagement", 1)
           d == c \o When(scrolls > 0, "scroll", scrolls)
           e == d \o When(lead, "generate_lead", 1)
<1>5. Events(pages, isNew, engaged, scrolls, lead, job) \in Seq(R)
  <2>1. a \in Seq(R)
    BY <1>3, <1>4
  <2> HIDE DEF a
  <2>2. b \in Seq(R)
    BY <1>3, <1>4, <2>1
  <2> HIDE DEF b
  <2>3. c \in Seq(R)
    BY <1>3, <1>4, <2>2
  <2> HIDE DEF c
  <2>4. d \in Seq(R)
    BY <1>3, <1>4, <2>3
  <2> HIDE DEF d
  <2>5. e \in Seq(R)
    BY <1>3, <1>4, <2>4
  <2> HIDE DEF e
  <2>6. e \o When(job, "job_apply", 1) \in Seq(R)
    BY <1>3, <1>4, <2>5
  <2> QED
    BY <1>2, <2>6 DEF e, d, c, b, a
<1> QED
  BY <1>5 DEF R

\* What a visit is drawn from.
LEMMA VisitIs ==
  ASSUME NEW c, NEW v \in Visits(c)
  PROVE  /\ \E U : v.pages \in Seq(U)
         /\ Len(v.pages) \in Nat \ {0}
         /\ v.stay.duration \in Nat /\ v.stay.engagement \in Nat
         /\ v.scrolls \in 0 .. Len(v.pages) /\ v.lead \in BOOLEAN /\ v.job \in BOOLEAN
<1> DEFINE R(a, pages) ==
      [acquisition : {a}, pages : {pages}, system : ToSet(Systems), stay : Stays(pages),
       scrolls : 0 .. Len(pages),
       lead : {l \in BOOLEAN : l => PAGE_CONTACT \in ToSet(pages)},
       job  : {j \in BOOLEAN : j => ToSet(pages) \cap ToSet(JOB_PAGES) # {}}]
<1>1. Visits(c) = UNION {UNION {R(a, pages) : pages \in Browses(a.landing)} : a \in Acquisitions(c)}
  BY DEF Visits
<1> HIDE DEF R
<1>2. PICK a \in Acquisitions(c) : v \in UNION {R(a, pages) : pages \in Browses(a.landing)}
  BY <1>1
<1>3. PICK pages \in Browses(a.landing) : v \in R(a, pages)
  BY <1>2
<1>4. /\ v.pages = pages /\ v.stay \in Stays(pages) /\ v.scrolls \in 0 .. Len(pages)
      /\ v.lead \in BOOLEAN /\ v.job \in BOOLEAN
  BY <1>3 DEF R
<1>5. (\E U : pages \in Seq(U)) /\ Len(pages) \in Nat \ {0}
  BY BrowsesAreLists
<1>6. v.stay.duration \in Nat /\ v.stay.engagement \in Nat
  BY <1>4, <1>5 DEF Stays
<1> QED
  BY <1>4, <1>5, <1>6

\* What the sessions of the generator tell of themselves.
Told(s) ==
  /\ s.isNew \in BOOLEAN /\ s.engaged \in BOOLEAN
  /\ s.duration \in Nat /\ s.engagement \in Nat
  /\ \E U : s.pages \in Seq(U)
  /\ s.events \in Seq([name : VisitEvents \cup KEY_EVENTS, count : Nat])
  /\ s.pages # <<>> /\ s.events # <<>>
  /\ KeyOf(s) > 0 => s.engaged

LEMMA SessionIsTold ==
  ASSUME NEW c, NEW v \in Visits(c), NEW d, NEW index, NEW isNew \in BOOLEAN, NEW user
  PROVE  Told(Session(d, index, isNew, user, v))
<1> DEFINE s == Session(d, index, isNew, user, v)
           engaged == Engaged(v.pages, v.stay.engagement, v.lead, v.job)
<1>1. /\ s.isNew = isNew /\ s.engaged = engaged /\ s.pages = v.pages
      /\ s.duration = v.stay.duration /\ s.engagement = v.stay.engagement
      /\ s.events = Events(v.pages, isNew, engaged, v.scrolls, v.lead, v.job)
  BY DEF Session
<1>2. engaged \in BOOLEAN /\ (v.lead \/ v.job => engaged)
  BY DEF Engaged
<1> HIDE DEF s, engaged
<1>3. Len(v.pages) \in Nat /\ v.scrolls \in Nat /\ v.lead \in BOOLEAN /\ v.job \in BOOLEAN
  BY VisitIs
<1>4. s.events \in Seq([name : VisitEvents \cup KEY_EVENTS, count : Nat])
  <2> DEFINE N == VisitEvents \cup KEY_EVENTS
  <2>1. VisitEvents \subseteq N /\ "generate_lead" \in N /\ "job_apply" \in N
    BY DEF KEY_EVENTS
  <2> HIDE DEF N
  <2>2. Events(v.pages, isNew, engaged, v.scrolls, v.lead, v.job) \in Seq([name : N, count : Nat])
    BY <1>3, <2>1, EventsAre
  <2> DEFINE S == Seq([name : N, count : Nat])
  <2>3. s.events \in S
    <3> HIDE DEF S
    <3> QED
      BY <1>1, <2>2 DEF S
  <2> QED
    BY <2>3 DEF N
<1>5. KeyOf(s) > 0 => engaged
  <2>1. CASE v.lead \/ v.job
    BY <1>2, <2>1
  <2>2. CASE ~v.lead /\ ~v.job
    <3>1. VisitEvents \cap KEY_EVENTS = {}
      BY DEF VisitEvents, KEY_EVENTS
    <3>2. s.events \in Seq([name : VisitEvents, count : Nat])
      <4>1. VisitEvents \subseteq VisitEvents
        OBVIOUS
      <4>2. /\ v.lead => "generate_lead" \in VisitEvents
            /\ v.job => "job_apply" \in VisitEvents
        BY <2>2
      <4>3. Events(v.pages, isNew, engaged, v.scrolls, v.lead, v.job)
              \in Seq([name : VisitEvents, count : Nat])
        BY <1>3, <4>1, <4>2, EventsAre
      <4> QED
        BY <1>1, <4>3
    <3>3. KeyOf(s) = 0
      BY <3>1, <3>2, KeyOfIs
    <3> QED
      BY <3>3
  <2> QED
    BY <2>1, <2>2
<1>6. s.pages # <<>> /\ s.events # <<>>
  <2>1. v.pages # <<>>
    BY VisitIs
  <2>2. Events(v.pages, isNew, engaged, v.scrolls, v.lead, v.job) # <<>>
    BY <1>3, SomeEvents
  <2> QED
    BY <1>1, <2>1, <2>2
<1> QED
  BY <1>1, <1>2, <1>4, <1>5, <1>6, VisitIs DEF Told, s

TalesInv == \A k \in 1 .. Len(world) : \A i \in 1 .. Len(world[k]) : Told(world[k][i])

LEMMA TalesAdded ==
  ASSUME BirthInv, TalesInv, ~DayDone, NEW isNew \in BOOLEAN, NEW user, NEW c, Add(isNew, user, c)
  PROVE  TalesInv'
<1>0. PICK n \in Nat, m \in Nat : n = Len(world) /\ m = Len(world[n])
  BY BuildingIs DEF BirthInv, DayDone
<1>1. /\ Len(world') = n /\ Len(world'[n]) = m + 1
      /\ \A k \in 1 .. n : k # n => world'[k] = world[k]
      /\ \A i \in 1 .. m : world'[n][i] = world[n][i]
  BY <1>0, Added
<1>2. PICK v \in Visits(c) : world'[n][m + 1] = Session(Building, m, isNew, user, v)
  BY <1>0, Added
<1>3. Told(world'[n][m + 1])
  BY <1>2, SessionIsTold
<1>4. ASSUME NEW k \in 1 .. n, NEW i \in 1 .. Len(world'[k])  PROVE Told(world'[k][i])
  <2>1. CASE k = n /\ i = m + 1
    BY <1>3, <2>1
  <2>2. CASE ~(k = n /\ i = m + 1)
    <3>1. i \in 1 .. Len(world[k]) /\ world'[k][i] = world[k][i]
      BY <1>0, <1>1, <2>2
    <3>2. Told(world[k][i])
      BY <1>0, <3>1 DEF TalesInv
    <3> QED
      BY <3>1, <3>2
  <2> QED
    BY <2>1, <2>2
<1> QED
  BY <1>1, <1>4 DEF TalesInv

LEMMA TalesStep == BirthInv /\ TalesInv /\ [Next]_rvars => TalesInv'
<1> SUFFICES ASSUME BirthInv, TalesInv, [Next]_rvars PROVE TalesInv'
  OBVIOUS
<1>1. CASE OpenDay
  <2>1. PICK S : world \in Seq(Seq(S))
    BY DEF BirthInv, WorldTyped
  <2>2. world' = Append(world, <<>>)
    BY <1>1 DEF OpenDay
  <2>3. PICK n \in Nat : n = Len(world)
    BY <2>1
  <2>4. /\ Len(world') = n + 1 /\ world'[n + 1] = <<>>
        /\ \A k \in 1 .. n : world'[k] = world[k]
    BY <2>1, <2>2, <2>3
  <2>5. ASSUME NEW k \in 1 .. n + 1, NEW i \in 1 .. Len(world'[k])  PROVE Told(world'[k][i])
    <3>1. k # n + 1
      BY <2>4
    <3>2. world'[k] = world[k] /\ k \in 1 .. n
      BY <2>4, <3>1
    <3> QED
      BY <2>3, <3>2 DEF TalesInv
  <2> QED
    BY <2>4, <2>5 DEF TalesInv
<1>2. CASE AddNew
  BY <1>2, TalesAdded DEF AddNew
<1>3. CASE AddReturning
  BY <1>3, TalesAdded DEF AddReturning
<1>4. CASE UNCHANGED gvars
  BY <1>4 DEF TalesInv, gvars
<1> QED
  BY <1>1, <1>2, <1>3, <1>4, WorldStep DEF Build

(***************************************************************************)
(* Words                                                                    *)
(***************************************************************************)
\* Every string a session has is one that the sort has a rank for.
Worded(s) ==
  {s.channel, s.medium, s.system, s.landing} \cup ToSet(s.pages) \subseteq Words

LEMMA SessionIsWorded ==
  ASSUME NEW c \in 0 .. Len(Campaigns), NEW v \in Visits(c), NEW d, NEW index, NEW isNew, NEW user
  PROVE  Worded(Session(d, index, isNew, user, v)) /\ Session(d, index, isNew, user, v).date = d
<1> DEFINE s == Session(d, index, isNew, user, v)
           visits(e) == UNION {WordsOf(w) : w \in Visits(e)}
<1>1. /\ s.channel = v.acquisition.channel /\ s.medium = v.acquisition.medium
      /\ s.system = v.system /\ s.landing = v.acquisition.landing /\ s.pages = v.pages
      /\ s.date = d
  BY DEF Session
<1>2. WordsOf(v) \subseteq visits(c)
  OBVIOUS
<1> HIDE DEF visits, s
<1>3. visits(c) \subseteq UNION {visits(e) : e \in 0 .. Len(Campaigns)}
  OBVIOUS
<1>4. UNION {visits(e) : e \in 0 .. Len(Campaigns)} \subseteq Words
  <2> DEFINE X == UNION {visits(e) : e \in 0 .. Len(Campaigns)}
  <2>1. X \subseteq Words
    BY DEF Words, visits
  <2> QED
    BY <2>1
<1>5. WordsOf(v) = {s.channel, s.medium, s.system, s.landing} \cup ToSet(s.pages)
  BY <1>1 DEF WordsOf
<1>6. Worded(s)
  BY <1>2, <1>3, <1>4, <1>5, Zenon DEF Worded
<1> QED
  BY <1>1, <1>6 DEF s

LEMMA WordsKnown ==
  /\ {None, "new", "returning"} \cup EVENT_NAMES \subseteq Words
  /\ \A i \in 1 .. MAX_RANGES : DefaultName(i) \in Words
  /\ \A i \in DOMAIN Bodies : \A r \in DOMAIN Bodies[i].dateRanges :
       Bodies[i].dateRanges[r].name \in Words
<1>1. {None, "new", "returning"} \cup EVENT_NAMES \cup RangeNames \subseteq Words
  BY Zenon DEF Words
<1>2. \A i \in 1 .. MAX_RANGES : DefaultName(i) \in RangeNames
  BY DEF RangeNames
<1>3. ASSUME NEW i \in DOMAIN Bodies, NEW r \in DOMAIN Bodies[i].dateRanges
      PROVE  Bodies[i].dateRanges[r].name \in RangeNames
  <2> DEFINE names(j) == {range.name : range \in ToSet(Bodies[j].dateRanges)}
  <2>1. Bodies[i].dateRanges[r] \in ToSet(Bodies[i].dateRanges)
    BY DEF ToSet
  <2>2. Bodies[i].dateRanges[r].name \in names(i)
    BY <2>1
  <2>3. RangeNames = {DefaultName(j) : j \in 1 .. MAX_RANGES} \cup UNION {names(j) : j \in DOMAIN Bodies}
    BY Zenon DEF RangeNames
  <2> HIDE DEF names
  <2> QED
    BY <2>2, <2>3
<1> QED
  BY <1>1, <1>2, <1>3

\* The visitors that a campaign brings are of one there is.
WordsInv ==
  /\ day.extras \in Seq(1 .. Len(Campaigns))
  /\ world # <<>> => Index <= day.organic + Len(day.extras)
  /\ \A k \in 1 .. Len(world) : \A i \in 1 .. Len(world[k]) :
       Worded(world[k][i]) /\ world[k][i].date = HISTORY_START + k - 1

LEMMA WordsInit == GInit => WordsInv
<1> SUFFICES ASSUME GInit PROVE WordsInv
  OBVIOUS
<1>1. world = <<>> /\ day.extras = <<>>
  BY DEF GInit
<1>2. Len(world) = 0 /\ <<>> \in Seq(1 .. Len(Campaigns))
  BY <1>1
<1> QED
  BY <1>1, <1>2 DEF WordsInv

LEMMA CampaignIs ==
  ASSUME BirthInv, WordsInv, ~DayDone
  PROVE  CampaignOf(Index) \in 0 .. Len(Campaigns) /\ Index + 1 <= day.organic + Len(day.extras)
<1>1. /\ world # <<>> /\ Index \in Nat /\ day.organic \in Nat
  BY BuildingIs DEF BirthInv, DayDone
<1>2. PICK n \in Nat : n = Len(day.extras) /\ DOMAIN day.extras = 1 .. n
                       /\ \A i \in 1 .. n : day.extras[i] \in 1 .. Len(Campaigns)
  <2> DEFINE C == 1 .. Len(Campaigns)
  <2> HIDE DEF C
  <2>1. day.extras \in Seq(C)
    BY DEF WordsInv, C
  <2>2. PICK n \in Nat : n = Len(day.extras) /\ DOMAIN day.extras = 1 .. n
                         /\ \A i \in 1 .. n : day.extras[i] \in C
    BY <2>1
  <2> QED
    BY <2>2 DEF C
<1>3. Index <= day.organic + n /\ Index # day.organic + n
  BY <1>1, <1>2 DEF WordsInv, DayDone
<1>4. CASE Index < day.organic
  <2>1. CampaignOf(Index) = 0
    BY <1>4 DEF CampaignOf
  <2>2. Len(Campaigns) \in Nat
    BY CampaignAssumption
  <2> QED
    BY <1>1, <1>2, <1>3, <2>1, <2>2
<1>5. CASE ~(Index < day.organic)
  <2>1. CampaignOf(Index) = day.extras[Index - day.organic + 1]
    BY <1>5 DEF CampaignOf
  <2>2. Index - day.organic + 1 \in 1 .. n
    BY <1>1, <1>3, <1>5
  <2>3. CampaignOf(Index) \in 1 .. Len(Campaigns)
    BY <1>2, <2>1, <2>2
  <2>4. Index + 1 <= day.organic + n
    BY <1>1, <1>3
  <2>5. CampaignOf(Index) \in 0 .. Len(Campaigns)
    BY <2>3
  <2> QED
    BY <1>2, <2>4, <2>5
<1> QED
  BY <1>4, <1>5

LEMMA WordsAdded ==
  ASSUME BirthInv, WordsInv, ~DayDone, NEW isNew, NEW user, Add(isNew, user, CampaignOf(Index))
  PROVE  WordsInv'
<1>0. PICK n \in Nat, m \in Nat : n = Len(world) /\ m = Len(world[n]) /\ world # <<>> /\ Index = m
  BY BuildingIs DEF BirthInv, DayDone
<1> DEFINE c == CampaignOf(Index)
<1>1. /\ Len(world') = n /\ Len(world'[n]) = m + 1
      /\ \A k \in 1 .. n : k # n => world'[k] = world[k]
      /\ \A i \in 1 .. m : world'[n][i] = world[n][i]
      /\ Building = HISTORY_START + n - 1 /\ n # 0
  BY <1>0, Added
<1>2. PICK v \in Visits(c) : world'[n][m + 1] = Session(Building, m, isNew, user, v)
  BY <1>0, Added
<1>3. c \in 0 .. Len(Campaigns) /\ Index + 1 <= day.organic + Len(day.extras)
  BY CampaignIs
<1>4. Worded(world'[n][m + 1]) /\ world'[n][m + 1].date = HISTORY_START + n - 1
  BY <1>1, <1>2, <1>3, SessionIsWorded
<1>5. ASSUME NEW k \in 1 .. n, NEW i \in 1 .. Len(world'[k])
      PROVE  Worded(world'[k][i]) /\ world'[k][i].date = HISTORY_START + k - 1
  <2>1. CASE k = n /\ i = m + 1
    BY <1>4, <2>1
  <2>2. CASE ~(k = n /\ i = m + 1)
    <3>1. i \in 1 .. Len(world[k]) /\ world'[k][i] = world[k][i]
      BY <1>0, <1>1, <2>2
    <3>2. Worded(world[k][i]) /\ world[k][i].date = HISTORY_START + k - 1
      BY <1>0, <3>1 DEF WordsInv
    <3> QED
      BY <3>1, <3>2
  <2> QED
    BY <2>1, <2>2
<1>6. day'.organic = day.organic /\ day'.extras = day.extras
  BY DEF Add, BirthInv, WorldTyped
<1>7. Index' = m + 1
  <2>1. \E S : world' \in Seq(S)
    BY <1>0, Added DEF WorldTyped
  <2>2. Last(world') = world'[n]
    BY <1>1, <2>1 DEF Last
  <2> QED
    BY <1>1, <2>2 DEF Index, Sessions
<1> QED
  BY <1>0, <1>1, <1>3, <1>5, <1>6, <1>7 DEF WordsInv

LEMMA WordsStep == BirthInv /\ WordsInv /\ [Next]_rvars => WordsInv'
<1> SUFFICES ASSUME BirthInv, WordsInv, [Next]_rvars PROVE WordsInv'
  OBVIOUS
<1>1. CASE OpenDay
  <2>1. PICK S : world \in Seq(Seq(S))
    BY DEF BirthInv, WorldTyped
  <2>2. world' = Append(world, <<>>)
    BY <1>1 DEF OpenDay
  <2>3. PICK n \in Nat : n = Len(world)
    BY <2>1
  <2>4. /\ Len(world') = n + 1 /\ world'[n + 1] = <<>> /\ world' \in Seq(Seq(S))
        /\ \A k \in 1 .. n : world'[k] = world[k]
    <3>1. <<>> \in Seq(S)
      OBVIOUS
    <3> QED
      BY <2>1, <2>2, <2>3, <3>1
  <2>5. ASSUME NEW k \in 1 .. n + 1, NEW i \in 1 .. Len(world'[k])
        PROVE  Worded(world'[k][i]) /\ world'[k][i].date = HISTORY_START + k - 1
    <3>1. k # n + 1
      BY <2>4
    <3>2. world'[k] = world[k] /\ k \in 1 .. n
      BY <2>4, <3>1
    <3> QED
      BY <2>3, <3>2 DEF WordsInv
  <2>6. PICK o \in Organic(Building + 1), x \in AllExtras(Building + 1) :
          day' = [day EXCEPT !.organic = o, !.extras = x]
    BY <1>1, Zenon DEF OpenDay
  <2>7. Building + 1 \in History
    <3>1. Building \in Int /\ Building < LastDay /\ Building + 1 >= HISTORY_START
      BY <1>1, <2>3, HistoryAssumption DEF Building, OpenDay
    <3> QED
      BY <3>1, HistoryAssumption DEF History
  <2>8. x \in Seq(1 .. Len(Campaigns)) /\ o \in Nat
    <3>1. Building + 1 \in Int
      BY <2>7, HistoryAssumption DEF History
    <3>2. x \in Seq(1 .. Len(Campaigns))
      BY <2>6, <3>1, AllExtrasAreLists
    <3>3. planned[Building + 1] \in PlannedNew(Building + 1)
      BY <2>7 DEF BirthInv, WorldTyped
    <3>4. o \in Nat
      BY <2>6, <2>7, <3>3, BornFit
    <3> QED
      BY <3>2, <3>4
  <2>9. day'.organic = o /\ day'.extras = x
    BY <2>6 DEF BirthInv, WorldTyped
  <2>10. Index' = 0
    <3>1. Last(world') = <<>>
      BY <2>3, <2>4 DEF Last
    <3> QED
      BY <3>1 DEF Index, Sessions
  <2>11. 0 <= o + Len(x)
    <3> DEFINE C == 1 .. Len(Campaigns)
    <3> HIDE DEF C
    <3>1. x \in Seq(C) /\ o \in Nat
      BY <2>8 DEF C
    <3> QED
      BY <3>1
  <2> QED
    BY <2>4, <2>5, <2>8, <2>9, <2>10, <2>11 DEF WordsInv
<1>2. CASE AddNew
  BY <1>2, WordsAdded DEF AddNew
<1>3. CASE AddReturning
  BY <1>3, WordsAdded DEF AddReturning
<1>4. CASE UNCHANGED gvars
  BY <1>4 DEF WordsInv, gvars, Index, Sessions
<1> QED
  BY <1>1, <1>2, <1>3, <1>4, WorldStep DEF Build

(***************************************************************************)
(* Collection                                                               *)
(***************************************************************************)
LEMMA ListOfMembers ==
  ASSUME NEW S, NEW s \in Seq(S)
  PROVE  s \in Seq(ToSet(s)) /\ ToSet(s) \subseteq S
<1>1. PICK n \in Nat : DOMAIN s = 1 .. n
  OBVIOUS
<1>2. s = [i \in 1 .. n |-> s[i]] /\ \A i \in 1 .. n : s[i] \in ToSet(s)
  BY <1>1 DEF ToSet
<1>3. s \in Seq(ToSet(s))
  <2> DEFINE T == ToSet(s)
  <2> HIDE DEF T
  <2>1. s \in [1 .. n -> T]
    BY <1>2 DEF T
  <2>2. s \in Seq(T)
    BY <2>1
  <2> QED
    BY <2>2 DEF T
<1> QED
  BY <1>1, <1>3 DEF ToSet

\* A list whose length is given by a difference, that may be negative.
LEMMA ListUpTo ==
  ASSUME NEW m \in Int, NEW S, NEW f, \A i \in 1 .. m : f[i] \in S,
         DOMAIN f = 1 .. m, f = [i \in 1 .. m |-> f[i]]
  PROVE  f \in Seq(S)
<1>1. PICK n \in Nat : 1 .. m = 1 .. n
  <2>1. CASE m >= 0
    BY <2>1
  <2>2. CASE m < 0
    <3>1. 1 .. m = 1 .. 0
      BY <2>2
    <3> QED
      BY <3>1
  <2> QED
    BY <2>1, <2>2
<1>2. f \in [1 .. n -> S]
  BY <1>1
<1> QED
  BY <1>2

Everyone == UNION {ToSet(world[k]) : k \in 1 .. Len(world)}

\* A session of the world, and a unit of one.
Known(s) == Told(s) /\ (s.isNew => s.user = s.id)
Fair(u)  == Known(u.session) /\ u.count \in Nat

LEMMA EveryoneIsKnown ==
  ASSUME BirthInv, TalesInv
  PROVE  /\ \A s \in Everyone : Known(s)
         /\ \A d \in Int : SessionsOf(d) \in Seq(Everyone)
<1>1. PICK S : world \in Seq(Seq(S))
  BY DEF BirthInv, WorldTyped
<1>2. ASSUME NEW s \in Everyone  PROVE Known(s)
  <2>1. PICK k \in 1 .. Len(world) : s \in ToSet(world[k])
    BY DEF Everyone
  <2>2. world[k] \in Seq(S)
    BY <1>1
  <2>3. PICK i \in 1 .. Len(world[k]) : s = world[k][i]
    BY <2>1, <2>2 DEF ToSet
  <2>4. Registered(k, i) /\ Told(world[k][i])
    BY DEF BirthInv, TalesInv
  <2> QED
    BY <2>3, <2>4 DEF Registered, Known
<1>3. ASSUME NEW k \in 1 .. Len(world)  PROVE world[k] \in Seq(Everyone)
  <2>1. world[k] \in Seq(S)
    BY <1>1
  <2>2. world[k] \in Seq(ToSet(world[k]))
    BY <2>1, ListOfMembers
  <2>3. ToSet(world[k]) \subseteq Everyone
    BY DEF Everyone
  <2> DEFINE T == ToSet(world[k])
             E == Everyone
  <2> HIDE DEF T, E
  <2>4. world[k] \in Seq(E)
    BY <2>2, <2>3 DEF T, E
  <2> QED
    BY <2>4 DEF E
<1>4. ASSUME NEW d \in Int  PROVE SessionsOf(d) \in Seq(Everyone)
  <2>1. CASE d \in HISTORY_START .. Building
    <3>1. Len(world) \in Nat
      BY <1>1
    <3>2. d - HISTORY_START + 1 \in 1 .. Len(world)
      BY <2>1, <3>1, HistoryAssumption DEF Building
    <3> QED
      BY <1>3, <2>1, <3>2 DEF SessionsOf
  <2>2. CASE d \notin HISTORY_START .. Building
    BY <2>2 DEF SessionsOf
  <2> QED
    BY <2>1, <2>2
<1> QED
  BY <1>2, <1>4

LEMMA UnitsOfAre ==
  ASSUME NEW q, NEW s, Known(s)
  PROVE  /\ \E S : UnitsOf(q, s) \in Seq(S)
         /\ \A u \in ToSet(UnitsOf(q, s)) : Fair(u)
<1> DEFINE pages  == IF q.fanPage THEN s.pages ELSE <<None>>
           events == IF q.fanEvent THEN s.events ELSE <<[name |-> None, count |-> 1]>>
           T(i) == [j \in DOMAIN events |-> Unit(s, pages[i], events[j].name, events[j].count)]
           seqs == [i \in DOMAIN pages |-> T(i)]
           S == {Unit(s, pages[i], events[j].name, events[j].count) : i \in DOMAIN pages, j \in DOMAIN events}
<1>1. PICK n \in Nat : DOMAIN pages = 1 .. n
  <2>1. CASE q.fanPage
    <3>1. PICK U : s.pages \in Seq(U)
      BY DEF Known, Told
    <3> QED
      BY <2>1, <3>1
  <2>2. CASE ~q.fanPage
    BY <2>2
  <2> QED
    BY <2>1, <2>2
<1>2. PICK m \in Nat : DOMAIN events = 1 .. m /\ \A j \in 1 .. m : events[j].count \in Nat
  <2>1. CASE q.fanEvent
    <3> DEFINE R == [name : VisitEvents \cup KEY_EVENTS, count : Nat]
    <3>1. s.events \in Seq(R)
      BY DEF Known, Told
    <3> HIDE DEF R
    <3>2. PICK m \in Nat : DOMAIN s.events = 1 .. m /\ \A j \in 1 .. m : s.events[j] \in R
      BY <3>1
    <3>3. \A j \in 1 .. m : s.events[j].count \in Nat
      BY <3>2 DEF R
    <3> QED
      BY <2>1, <3>2, <3>3
  <2>2. CASE ~q.fanEvent
    <3>1. events = <<[name |-> None, count |-> 1]>>
      BY <2>2
    <3>2. DOMAIN events = 1 .. 1 /\ events[1].count = 1
      BY <3>1
    <3> HIDE DEF events
    <3> QED
      BY <3>2
  <2> QED
    BY <2>1, <2>2
<1> HIDE DEF pages, events
<1>3. \A u \in S : u.session = s /\ u.count \in Nat
  BY <1>2 DEF Unit
<1>4. seqs \in Seq(Seq(S))
  <2>1. ASSUME NEW i \in 1 .. n  PROVE T(i) \in Seq(S)
    <3>1. ASSUME NEW j \in 1 .. m
          PROVE  Unit(s, pages[i], events[j].name, events[j].count) \in S
      BY <1>1, <1>2
    <3> HIDE DEF S
    <3>2. T(i) \in [1 .. m -> S]
      BY <1>2, <3>1
    <3> QED
      BY <3>2
  <2> HIDE DEF T, S
  <2>2. seqs \in [1 .. n -> Seq(S)]
    BY <1>1, <2>1
  <2> QED
    BY <2>2
<1>5. UnitsOf(q, s) = FlattenSeq(seqs)
  BY DEF UnitsOf, pages, events
<1> HIDE DEF S, seqs
<1>6. UnitsOf(q, s) \in Seq(S)
  BY <1>4, <1>5, FlattenMembers
<1>7. ToSet(UnitsOf(q, s)) \subseteq S
  BY <1>6, ListOfMembers
<1> QED
  BY <1>3, <1>6, <1>7 DEF Fair

LEMMA UnitsInAre ==
  ASSUME BirthInv, TalesInv, NEW q, NEW range, range.start \in Int, range.end \in Int
  PROVE  /\ \E S : UnitsIn(q, range) \in Seq(S)
         /\ \A c \in ToSet(UnitsIn(q, range)) : Fair(c.unit)
<1> DEFINE days == [i \in DOMAIN DaysOf(range) |-> SessionsOf(DaysOf(range)[i])]
           sessions == FlattenSeq(days)
           lists == [i \in DOMAIN sessions |-> UnitsOf(q, sessions[i])]
           units == FlattenSeq(lists)
           places == {i \in DOMAIN units : Admits(q.dimensionFilter, q, units[i])}
           admitted == Picked(units, places)
           U == UNION {ToSet(UnitsOf(q, s)) : s \in Everyone}
           D(i) == [k \in DOMAIN q.dimensions |-> Extract(q.dimensions[k], admitted[i])]
           C(i) == [unit |-> admitted[i], range |-> range.name, dims |-> D(i)]
           in == [i \in DOMAIN admitted |-> C(i)]
<1>1. days \in Seq(Seq(Everyone))
  <2> DEFINE m == range.end - range.start + 1
             T == Seq(Everyone)
  <2>1. /\ m \in Int /\ DOMAIN DaysOf(range) = 1 .. m
        /\ \A i \in 1 .. m : DaysOf(range)[i] \in Int
    BY DEF DaysOf
  <2>2. \A i \in 1 .. m : days[i] \in T
    BY <2>1, EveryoneIsKnown
  <2>3. DOMAIN days = 1 .. m /\ days = [i \in 1 .. m |-> days[i]]
    BY <2>1
  <2> HIDE DEF days, m, T
  <2>4. days \in Seq(T)
    BY <2>1, <2>2, <2>3, ListUpTo
  <2> QED
    BY <2>4 DEF T
<1>2. sessions \in Seq(Everyone)
  <2> HIDE DEF days
  <2> QED
    BY <1>1, FlattenMembers
<1> HIDE DEF sessions
<1>3. lists \in Seq(Seq(U))
  <2>1. ASSUME NEW s \in Everyone  PROVE UnitsOf(q, s) \in Seq(U)
    <3>1. Known(s)
      BY EveryoneIsKnown
    <3>2. PICK S : UnitsOf(q, s) \in Seq(S)
      BY <3>1, UnitsOfAre
    <3>3. UnitsOf(q, s) \in Seq(ToSet(UnitsOf(q, s))) /\ ToSet(UnitsOf(q, s)) \subseteq U
      BY <3>2, ListOfMembers
    <3> DEFINE T == ToSet(UnitsOf(q, s))
    <3> HIDE DEF T, U
    <3> QED
      BY <3>3 DEF T
  <2> HIDE DEF U
  <2>2. PICK n \in Nat : DOMAIN sessions = 1 .. n /\ \A i \in 1 .. n : sessions[i] \in Everyone
    BY <1>2
  <2>3. lists \in [1 .. n -> Seq(U)]
    BY <2>1, <2>2
  <2> QED
    BY <2>3
<1>4. \A u \in U : Fair(u)
  BY EveryoneIsKnown, UnitsOfAre
<1> HIDE DEF U
<1>5. units \in Seq(U)
  <2> HIDE DEF lists
  <2> QED
    BY <1>3, FlattenMembers
<1> HIDE DEF units
<1>6. admitted \in Seq(U)
  <2> HIDE DEF places
  <2> QED
    BY <1>5, PickedMembers
<1>7. UnitsIn(q, range) = in
  BY DEF UnitsIn, units, lists, sessions
<1> HIDE DEF admitted
<1>8. PICK n \in Nat : DOMAIN admitted = 1 .. n /\ \A i \in 1 .. n : admitted[i] \in U
  BY <1>6
<1> DEFINE S == {C(i) : i \in 1 .. n}
<1>9. \A c \in S : c.unit \in U
  BY <1>8
<1>10. in \in Seq(S)
  <2> HIDE DEF C
  <2>1. \A i \in 1 .. n : C(i) \in S
    OBVIOUS
  <2> HIDE DEF S
  <2>2. in \in [1 .. n -> S]
    BY <1>8, <2>1
  <2> QED
    BY <2>2
<1> HIDE DEF in, S
<1>11. ToSet(in) \subseteq S
  BY <1>10, ListOfMembers
<1> QED
  BY <1>4, <1>7, <1>9, <1>10, <1>11

LEMMA RangesAre ==
  ASSUME NEW b \in Accepted
  PROVE  LET ranges == Queries[b].ranges
             raw    == Bodies[b].dateRanges IN
         /\ Len(raw) \in Nat /\ DOMAIN ranges = 1 .. Len(raw) /\ DOMAIN raw = 1 .. Len(raw)
         /\ \A r \in DOMAIN ranges :
              /\ ranges[r].start \in Int /\ ranges[r].end \in Int
              /\ ranges[r].start = Resolve(raw[r].start) /\ ranges[r].end = Resolve(raw[r].end)
<1> DEFINE body == Bodies[b]
           raw == body.dateRanges
           Row(i) == [name  |-> IF raw[i].name = "" THEN DefaultName(i) ELSE raw[i].name,
                      start |-> Resolve(raw[i].start), end |-> Resolve(raw[i].end)]
<1>1. b \in DOMAIN Bodies /\ Queries[b] = Query(body)
  BY QueryIs
<1>2. /\ Len(raw) \in Nat /\ DOMAIN raw = 1 .. Len(raw)
      /\ \A r \in DOMAIN raw : raw[r].start.n \in Int /\ raw[r].end.n \in Int
  BY <1>1, BodiesAssumption DEF IsList
<1> HIDE DEF body
<1>3. Query(body).ranges = [i \in DOMAIN raw |-> Row(i)]
  BY Zenon DEF Query
<1>4. ASSUME NEW r \in DOMAIN raw
      PROVE  /\ Queries[b].ranges[r].start = Resolve(raw[r].start)
             /\ Queries[b].ranges[r].end = Resolve(raw[r].end)
             /\ Resolve(raw[r].start) \in Int /\ Resolve(raw[r].end) \in Int
  <2>1. Resolve(raw[r].start) \in Int /\ Resolve(raw[r].end) \in Int
    BY <1>2, LimitAssumption DEF Resolve
  <2>2. Queries[b].ranges[r] = Row(r)
    <3> HIDE DEF Row, raw
    <3> QED
      BY <1>1, <1>3
  <2>3. Row(r).start = Resolve(raw[r].start) /\ Row(r).end = Resolve(raw[r].end)
    BY Zenon
  <2> HIDE DEF Row, raw
  <2> QED
    BY <2>1, <2>2, <2>3
<1>5. DOMAIN Queries[b].ranges = DOMAIN raw
  <2> HIDE DEF Row, raw
  <2> QED
    BY <1>1, <1>3
<1> HIDE DEF raw
<1> QED
  BY <1>2, <1>4, <1>5 DEF raw, body

\* A query sees no unit that is not of a session of the world.
LEMMA CollectedAre ==
  ASSUME BirthInv, TalesInv, NEW q, NEW n \in Nat, DOMAIN q.ranges = 1 .. n,
         \A r \in DOMAIN q.ranges : q.ranges[r].start \in Int /\ q.ranges[r].end \in Int
  PROVE  /\ \E S : Collected(q) \in Seq(S)
         /\ \A c \in ToSet(Collected(q)) : Fair(c.unit)
<1> DEFINE seqs == [i \in DOMAIN q.ranges |-> UnitsIn(q, q.ranges[i])]
           C == UNION {ToSet(UnitsIn(q, q.ranges[r])) : r \in 1 .. n}
<1>1. ASSUME NEW r \in 1 .. n
      PROVE  /\ UnitsIn(q, q.ranges[r]) \in Seq(C)
             /\ \A c \in ToSet(UnitsIn(q, q.ranges[r])) : Fair(c.unit)
  <2>1. /\ \E S : UnitsIn(q, q.ranges[r]) \in Seq(S)
        /\ \A c \in ToSet(UnitsIn(q, q.ranges[r])) : Fair(c.unit)
    BY UnitsInAre
  <2> DEFINE T == ToSet(UnitsIn(q, q.ranges[r]))
  <2>2. UnitsIn(q, q.ranges[r]) \in Seq(T) /\ T \subseteq C
    BY <2>1, ListOfMembers
  <2>3. UnitsIn(q, q.ranges[r]) \in Seq(C)
    <3> HIDE DEF T, C
    <3> QED
      BY <2>2
  <2> QED
    BY <2>1, <2>3
<1>2. \A c \in C : Fair(c.unit)
  BY <1>1
<1> HIDE DEF C
<1>3. seqs \in Seq(Seq(C))
  <2>1. seqs \in [1 .. n -> Seq(C)]
    BY <1>1
  <2> QED
    BY <2>1
<1> HIDE DEF seqs
<1>4. FlattenSeq(seqs) \in Seq(C)
  BY <1>3, FlattenMembers
<1>5. Collected(q) \in Seq(C)
  BY <1>4 DEF Collected, seqs
<1>6. ToSet(Collected(q)) \subseteq C
  BY <1>5, ListOfMembers
<1> QED
  BY <1>2, <1>5, <1>6

(***************************************************************************)
(* What is collected                                                        *)
(***************************************************************************)
\* The lists that a list is put together from: their members are its members.
LEMMA FlattenedSet ==
  ASSUME NEW S, NEW n \in Nat, NEW seqs, DOMAIN seqs = 1 .. n, seqs \in Seq(Seq(S))
  PROVE  ToSet(FlattenSeq(seqs)) = UNION {ToSet(seqs[i]) : i \in 1 .. n}
<1>1. \A i \in 1 .. n : \A j \in DOMAIN seqs[i] : seqs[i][j] \in ToSet(FlattenSeq(seqs))
  BY FlattenMembers
<1>2. \A x \in ToSet(FlattenSeq(seqs)) : \E i \in 1 .. n : x \in ToSet(seqs[i])
  BY FlattenMembers
<1>3. ASSUME NEW i \in 1 .. n, NEW x \in ToSet(seqs[i])  PROVE x \in ToSet(FlattenSeq(seqs))
  BY <1>1 DEF ToSet
<1> DEFINE A == ToSet(FlattenSeq(seqs))
           B(i) == ToSet(seqs[i])
<1>4. (\A x \in A : \E i \in 1 .. n : x \in B(i)) /\ (\A i \in 1 .. n : \A x \in B(i) : x \in A)
  BY <1>2, <1>3
<1> HIDE DEF A, B
<1>5. A = UNION {B(i) : i \in 1 .. n}
  BY <1>4
<1> QED
  BY <1>5 DEF A, B

\* The units that the sessions seen in a range come to for a query, and what is
\* noted of a unit.
UnitSet(q, range) == UNION {ToSet(UnitsOf(q, s)) : s \in SeenIn(range)}
DimsOf(q, u) == [k \in DOMAIN q.dimensions |-> Extract(q.dimensions[k], u)]
Entry(q, range, u) == [unit |-> u, range |-> range.name, dims |-> DimsOf(q, u)]

\* Of every range, the entries of the units that the filter admits.
Entries(q, range) ==
  {Entry(q, range, u) : u \in {v \in UnitSet(q, range) : Admits(q.dimensionFilter, q, v)}}

LEMMA UnitsInSet ==
  ASSUME BirthInv, TalesInv, NEW q, NEW range, range.start \in Int, range.end \in Int
  PROVE  /\ \E S : UnitsIn(q, range) \in Seq(S)
         /\ ToSet(UnitsIn(q, range)) = Entries(q, range)
<1> DEFINE days == [i \in DOMAIN DaysOf(range) |-> SessionsOf(DaysOf(range)[i])]
           sessions == FlattenSeq(days)
           lists == [i \in DOMAIN sessions |-> UnitsOf(q, sessions[i])]
           units == FlattenSeq(lists)
           places == {i \in DOMAIN units : Admits(q.dimensionFilter, q, units[i])}
           admitted == Picked(units, places)
           U == UNION {ToSet(UnitsOf(q, s)) : s \in Everyone}
           in == [i \in DOMAIN admitted |-> Entry(q, range, admitted[i])]
           m == range.end - range.start + 1
           E == Everyone
<1>a. /\ m \in Int /\ DOMAIN DaysOf(range) = 1 .. m
      /\ \A i \in 1 .. m : DaysOf(range)[i] = range.start + i - 1 /\ DaysOf(range)[i] \in Int
  BY DEF DaysOf
<1>b. PICK md \in Nat : 1 .. m = 1 .. md
  <2>1. CASE m >= 0
    BY <1>a, <2>1
  <2>2. CASE m < 0
    <3>1. 1 .. m = 1 .. 0
      BY <1>a, <2>2
    <3> QED
      BY <3>1
  <2> QED
    BY <1>a, <2>1, <2>2
<1>c. \A d \in range.start .. range.end : d - range.start + 1 \in 1 .. m
  OBVIOUS
<1>d. \A i \in 1 .. m : DaysOf(range)[i] \in range.start .. range.end
  BY <1>a
<1>1. days \in Seq(Seq(E)) /\ DOMAIN days = 1 .. md
  <2> DEFINE T == Seq(E)
  <2>2. \A i \in 1 .. md : SessionsOf(DaysOf(range)[i]) \in T
    BY <1>a, <1>b, EveryoneIsKnown
  <2> HIDE DEF T, E, m
  <2>3. days \in [1 .. md -> T]
    BY <1>a, <1>b, <2>2
  <2> HIDE DEF days
  <2>4. days \in Seq(T) /\ DOMAIN days = 1 .. md
    BY <2>3
  <2> QED
    BY <2>4 DEF T
<1> HIDE DEF m, E
<1>2. sessions \in Seq(E)
  <2> HIDE DEF days
  <2> QED
    BY <1>1, FlattenMembers
<1>3. ToSet(sessions) = SeenIn(range)
  <2>1. ToSet(sessions) = UNION {ToSet(days[i]) : i \in 1 .. md}
    <3> HIDE DEF days
    <3> QED
      BY <1>1, FlattenedSet
  <2>2. \A i \in 1 .. md : days[i] = SessionsOf(DaysOf(range)[i])
    BY <1>a, <1>b
  <2> HIDE DEF days, sessions
  <2>3. ASSUME NEW i \in 1 .. md, NEW s \in ToSet(days[i])  PROVE s \in SeenIn(range)
    BY <1>b, <1>d, <2>2 DEF SeenIn
  <2>4. ASSUME NEW d \in range.start .. range.end
        PROVE  \E i \in 1 .. md : SessionsOf(d) = days[i]
    <3>1. d - range.start + 1 \in 1 .. md
      BY <1>b, <1>c
    <3>2. DaysOf(range)[d - range.start + 1] = d
      BY <1>a, <1>b, <3>1
    <3> QED
      BY <2>2, <3>1, <3>2
  <2>5. ASSUME NEW d \in range.start .. range.end, NEW s \in ToSet(SessionsOf(d))
        PROVE  s \in ToSet(sessions)
    BY <2>1, <2>4
  <2> QED
    BY <2>1, <2>3, <2>5 DEF SeenIn
<1> HIDE DEF sessions
<1>4. PICK ns \in Nat : DOMAIN sessions = 1 .. ns /\ \A i \in 1 .. ns : sessions[i] \in E
  BY <1>2
<1>5. lists \in Seq(Seq(U)) /\ DOMAIN lists = 1 .. ns
  <2>1. ASSUME NEW s \in E  PROVE UnitsOf(q, s) \in Seq(U)
    <3>1. Known(s)
      BY EveryoneIsKnown DEF E
    <3>2. PICK S : UnitsOf(q, s) \in Seq(S)
      BY <3>1, UnitsOfAre
    <3>3. UnitsOf(q, s) \in Seq(ToSet(UnitsOf(q, s))) /\ ToSet(UnitsOf(q, s)) \subseteq U
      BY <3>2, ListOfMembers DEF E
    <3> DEFINE T == ToSet(UnitsOf(q, s))
    <3> HIDE DEF T, U
    <3> QED
      BY <3>3 DEF T
  <2> HIDE DEF U
  <2>3. lists \in [1 .. ns -> Seq(U)]
    BY <1>4, <2>1
  <2> HIDE DEF lists
  <2> QED
    BY <2>3
<1> HIDE DEF U
<1>6. units \in Seq(U)
  <2> HIDE DEF lists
  <2> QED
    BY <1>5, FlattenMembers
<1>7. ToSet(units) = UnitSet(q, range)
  <2>1. ToSet(units) = UNION {ToSet(lists[i]) : i \in 1 .. ns}
    <3> HIDE DEF lists
    <3> QED
      BY <1>5, FlattenedSet
  <2>2. \A i \in 1 .. ns : lists[i] = UnitsOf(q, sessions[i])
    BY <1>4
  <2>3. \A s : s \in SeenIn(range) <=> \E i \in 1 .. ns : s = sessions[i]
    BY <1>3, <1>4 DEF ToSet
  <2> HIDE DEF lists, units
  <2>4. ASSUME NEW i \in 1 .. ns, NEW u \in ToSet(lists[i])  PROVE u \in UnitSet(q, range)
    BY <2>2, <2>3 DEF UnitSet
  <2>5. ASSUME NEW s \in SeenIn(range), NEW u \in ToSet(UnitsOf(q, s))  PROVE u \in ToSet(units)
    BY <2>1, <2>2, <2>3
  <2> QED
    BY <2>1, <2>4, <2>5 DEF UnitSet
<1> HIDE DEF units
<1>8. admitted \in Seq(U) /\ ToSet(admitted) = {units[i] : i \in DOMAIN units \cap places}
  <2> HIDE DEF places
  <2> QED
    BY <1>6, PickedSet, PickedMembers
<1>9. ToSet(admitted) = {v \in UnitSet(q, range) : Admits(q.dimensionFilter, q, v)}
  <2>1. \A v : v \in UnitSet(q, range) <=> \E i \in DOMAIN units : v = units[i]
    BY <1>7 DEF ToSet
  <2> HIDE DEF admitted
  <2> QED
    BY <1>8, <2>1
<1>10. UnitsIn(q, range) = in
  BY DEF UnitsIn, units, lists, sessions, Entry, DimsOf
<1> HIDE DEF admitted
<1>11. PICK n \in Nat : DOMAIN admitted = 1 .. n
  BY <1>8
<1>12. \A i \in 1 .. n : in[i] = Entry(q, range, admitted[i])
  BY <1>11
<1>13. ToSet(in) = {in[i] : i \in 1 .. n} /\ in \in Seq({in[i] : i \in 1 .. n})
  <2>1. DOMAIN in = 1 .. n /\ in = [i \in 1 .. n |-> in[i]]
    BY <1>11
  <2> HIDE DEF in
  <2> DEFINE S == {in[i] : i \in 1 .. n}
  <2>2. \A i \in 1 .. n : in[i] \in S
    OBVIOUS
  <2>3. ToSet(in) = S
    BY <2>1 DEF ToSet
  <2> HIDE DEF S
  <2>4. in \in [1 .. n -> S]
    BY <2>1, <2>2
  <2>5. in \in Seq(S)
    BY <2>4
  <2> QED
    BY <2>3, <2>5 DEF S
<1> HIDE DEF in
<1>14. \A v : v \in ToSet(admitted) <=> \E i \in 1 .. n : v = admitted[i]
  BY <1>11 DEF ToSet
<1>15. ToSet(in) = Entries(q, range)
  <2>1. ToSet(in) \subseteq Entries(q, range)
    <3>1. ASSUME NEW i \in 1 .. n  PROVE in[i] \in Entries(q, range)
      BY <1>9, <1>12, <1>14 DEF Entries
    <3> QED
      BY <1>13, <3>1
  <2>2. Entries(q, range) \subseteq ToSet(in)
    <3>1. ASSUME NEW v \in ToSet(admitted)  PROVE Entry(q, range, v) \in ToSet(in)
      BY <1>12, <1>13, <1>14
    <3> QED
      BY <1>9, <3>1 DEF Entries
  <2> QED
    BY <2>1, <2>2
<1> QED
  BY <1>10, <1>13, <1>15

Ranged(q, n) ==
  /\ DOMAIN q.ranges = 1 .. n
  /\ \A r \in 1 .. n : q.ranges[r].start \in Int /\ q.ranges[r].end \in Int

LEMMA CollectedSet ==
  ASSUME BirthInv, TalesInv, NEW q, NEW n \in Nat, Ranged(q, n)
  PROVE  /\ \E S : Collected(q) \in Seq(S)
         /\ ToSet(Collected(q)) = UNION {Entries(q, q.ranges[r]) : r \in 1 .. n}
<1> DEFINE seqs == [i \in DOMAIN q.ranges |-> UnitsIn(q, q.ranges[i])]
           C == UNION {Entries(q, q.ranges[r]) : r \in 1 .. n}
<1>1. ASSUME NEW r \in 1 .. n
      PROVE  /\ UnitsIn(q, q.ranges[r]) \in Seq(C)
             /\ ToSet(UnitsIn(q, q.ranges[r])) = Entries(q, q.ranges[r])
  <2>1. /\ \E S : UnitsIn(q, q.ranges[r]) \in Seq(S)
        /\ ToSet(UnitsIn(q, q.ranges[r])) = Entries(q, q.ranges[r])
    BY UnitsInSet DEF Ranged
  <2> DEFINE T == Entries(q, q.ranges[r])
  <2>2. UnitsIn(q, q.ranges[r]) \in Seq(T) /\ T \subseteq C
    BY <2>1, ListOfMembers
  <2>3. UnitsIn(q, q.ranges[r]) \in Seq(C)
    <3> HIDE DEF T, C
    <3> QED
      BY <2>2
  <2> QED
    BY <2>1, <2>3
<1> HIDE DEF C
<1>2. seqs \in Seq(Seq(C)) /\ DOMAIN seqs = 1 .. n
  <2>1. seqs \in [1 .. n -> Seq(C)]
    BY <1>1 DEF Ranged
  <2> HIDE DEF seqs
  <2> QED
    BY <2>1
<1>3. \A r \in 1 .. n : seqs[r] = UnitsIn(q, q.ranges[r])
  BY DEF Ranged
<1>4. Collected(q) = FlattenSeq(seqs)
  BY DEF Collected
<1> HIDE DEF seqs
<1>5. Collected(q) \in Seq(C)
  BY <1>2, <1>4, FlattenMembers
<1>6. ToSet(Collected(q)) = UNION {ToSet(seqs[r]) : r \in 1 .. n}
  BY <1>2, <1>4, FlattenedSet
<1>7. UNION {ToSet(seqs[r]) : r \in 1 .. n} = UNION {Entries(q, q.ranges[r]) : r \in 1 .. n}
  BY <1>1, <1>3
<1> QED
  BY <1>5, <1>6, <1>7

(***************************************************************************)
(* Accumulation                                                             *)
(***************************************************************************)
\* What an accumulator is, and how its parts are related: each visitor came
\* in some session, each new session brought a visitor of its own, and a
\* session with a key event is an engaged one.
Shape(a) ==
  a \in [seen : {a.seen}, users : {a.users}, active : {a.active}, engaged : Nat, withKey : Nat,
         new : Nat, duration : Nat, engagement : Nat, pageViews : Nat, events : Nat, keyEvents : Nat]

Sound(a) ==
  /\ Shape(a)
  /\ IsFiniteSet(a.seen) /\ IsFiniteSet(a.users) /\ a.active \subseteq a.users
  /\ Cardinality(a.users) <= Cardinality(a.seen)
  /\ a.withKey <= a.engaged
  /\ \E N : N \subseteq a.seen /\ N \subseteq a.active /\ Cardinality(N) = a.new

LEMMA EmptyIsSound == Sound(Accumulator)
<1> DEFINE a == Accumulator
<1>1. Shape(a)
  BY DEF Shape, Accumulator
<1>2. a.seen = {} /\ a.users = {} /\ a.active = {} /\ a.new = 0 /\ a.withKey = 0 /\ a.engaged = 0
  BY DEF Accumulator
<1>3. IsFiniteSet({}) /\ Cardinality({}) = 0
  BY FS_EmptySet
<1> HIDE DEF a
<1>4. Sound(a)
  BY <1>1, <1>2, <1>3 DEF Sound
<1> QED
  BY <1>4 DEF a

LEMMA SessionAdded ==
  ASSUME NEW a, Sound(a), NEW s, Known(s), s.id \notin a.seen, NEW fanPage, NEW fanEvent
  PROVE  Sound(AddSession(a, s, fanPage, fanEvent))
<1> DEFINE b == AddSession(a, s, fanPage, fanEvent)
<1>1. /\ b.seen = a.seen \cup {s.id} /\ b.users = a.users \cup {s.user}
      /\ b.active = a.active \cup (IF s.engaged \/ s.isNew THEN {s.user} ELSE {})
      /\ b.engaged = a.engaged + Counted(s.engaged, 1)
      /\ b.withKey = a.withKey + Counted(KeyOf(s) > 0, 1)
      /\ b.new = a.new + Counted(s.isNew, 1)
  BY DEF AddSession
<1>2. Shape(b)
  <2>1. PICK U : s.pages \in Seq(U)
    BY DEF Known, Told
  <2>2. Len(s.pages) \in Nat
    BY <2>1
  <2>3. KeyOf(s) \in Nat /\ CountOf(s.events) \in Nat
    BY KeyOfIs, CountIsNat DEF Known, Told
  <2>4. s.duration \in Nat /\ s.engagement \in Nat
    BY DEF Known, Told
  <2>6. /\ a.engaged + Counted(s.engaged, 1) \in Nat
        /\ a.withKey + Counted(KeyOf(s) > 0, 1) \in Nat
        /\ a.new + Counted(s.isNew, 1) \in Nat
        /\ a.duration + s.duration \in Nat /\ a.engagement + s.engagement \in Nat
        /\ a.pageViews + Counted(~fanPage, Len(s.pages)) \in Nat
        /\ a.events + Counted(~fanEvent, CountOf(s.events)) \in Nat
        /\ a.keyEvents + Counted(~fanEvent, KeyOf(s)) \in Nat
    <3>1. /\ a.engaged \in Nat /\ a.withKey \in Nat /\ a.new \in Nat /\ a.duration \in Nat
          /\ a.engagement \in Nat /\ a.pageViews \in Nat /\ a.events \in Nat /\ a.keyEvents \in Nat
      BY DEF Sound, Shape
    <3>2. ASSUME NEW x \in Nat, NEW n \in Nat, NEW cond  PROVE x + Counted(cond, n) \in Nat
      BY DEF Counted
    <3>3. a.engaged + Counted(s.engaged, 1) \in Nat /\ a.new + Counted(s.isNew, 1) \in Nat
      BY <3>1, <3>2
    <3>4. a.withKey + Counted(KeyOf(s) > 0, 1) \in Nat
      BY <3>1, <3>2
    <3>5. a.pageViews + Counted(~fanPage, Len(s.pages)) \in Nat
      BY <2>2, <3>1, <3>2
    <3>6. a.events + Counted(~fanEvent, CountOf(s.events)) \in Nat
      BY <2>3, <3>1, <3>2
    <3>7. a.keyEvents + Counted(~fanEvent, KeyOf(s)) \in Nat
      BY <2>3, <3>1, <3>2
    <3>8. a.duration + s.duration \in Nat /\ a.engagement + s.engagement \in Nat
      BY <2>4, <3>1
    <3> QED
      BY <3>3, <3>4, <3>5, <3>6, <3>7, <3>8
  <2> QED
    BY <2>6 DEF Shape, AddSession
<1> HIDE DEF b
<1>3. IsFiniteSet(b.seen) /\ Cardinality(b.seen) = Cardinality(a.seen) + 1
  <2>1. IsFiniteSet(a.seen)
    BY DEF Sound
  <2> QED
    BY <1>1, <2>1, FS_AddElement
<1>4. IsFiniteSet(b.users) /\ Cardinality(b.users) <= Cardinality(a.users) + 1
  <2>1. IsFiniteSet(a.users) /\ Cardinality(a.users) \in Nat
    BY FS_CardinalityType DEF Sound
  <2>2. CASE s.user \in a.users
    <3>1. b.users = a.users
      BY <1>1, <2>2
    <3> QED
      BY <2>1, <3>1
  <2>3. CASE s.user \notin a.users
    <3>1. Cardinality(a.users \cup {s.user}) = Cardinality(a.users) + 1
      BY <2>1, <2>3, FS_AddElement
    <3>2. IsFiniteSet(a.users \cup {s.user})
      BY <2>1, FS_AddElement
    <3> QED
      BY <1>1, <2>1, <3>1, <3>2
  <2> QED
    BY <2>2, <2>3
<1>5. b.active \subseteq b.users
  BY <1>1 DEF Sound
<1>6. Cardinality(b.users) <= Cardinality(b.seen)
  <2>1. /\ Cardinality(a.users) \in Nat /\ Cardinality(a.seen) \in Nat
        /\ Cardinality(b.users) \in Nat
    BY <1>4, FS_CardinalityType DEF Sound
  <2> QED
    BY <1>3, <1>4, <2>1 DEF Sound
<1>7. b.withKey <= b.engaged
  <2>1. a.withKey \in Nat /\ a.engaged \in Nat /\ a.withKey <= a.engaged
    BY DEF Sound, Shape
  <2>2. KeyOf(s) > 0 => s.engaged
    BY DEF Known, Told
  <2> QED
    BY <1>1, <2>1, <2>2 DEF Counted
<1>8. \E N : N \subseteq b.seen /\ N \subseteq b.active /\ Cardinality(N) = b.new
  <2>1. PICK N : N \subseteq a.seen /\ N \subseteq a.active /\ Cardinality(N) = a.new
    BY DEF Sound
  <2>2. CASE ~s.isNew
    <3>1. b.new = a.new + 0 /\ a.new \in Nat
      BY <1>1, <2>2 DEF Counted, Sound, Shape
    <3>2. N \subseteq b.seen /\ N \subseteq b.active
      BY <1>1, <2>1
    <3> QED
      BY <2>1, <3>1, <3>2
  <2>3. CASE s.isNew
    <3>1. b.new = a.new + 1
      BY <1>1, <2>3 DEF Counted
    <3>2. N \cup {s.id} \subseteq b.seen /\ N \cup {s.id} \subseteq b.active
      BY <1>1, <2>1, <2>3 DEF Known
    <3>3. IsFiniteSet(N)
      BY <2>1, FS_Subset DEF Sound
    <3>4. Cardinality(N \cup {s.id}) = Cardinality(N) + 1
      BY <2>1, <3>3, FS_AddElement
    <3> QED
      BY <2>1, <3>1, <3>2, <3>4
  <2> QED
    BY <2>2, <2>3
<1>9. Sound(b)
  BY <1>2, <1>3, <1>4, <1>5, <1>6, <1>7, <1>8 DEF Sound
<1> QED
  BY <1>9 DEF b

LEMMA UnitAdded ==
  ASSUME NEW a, Sound(a), NEW u, Fair(u), NEW fanPage, NEW fanEvent
  PROVE  Sound(AddUnit(a, u, fanPage, fanEvent))
<1> DEFINE b == IF FirstTime(a, u.session) THEN AddSession(a, u.session, fanPage, fanEvent) ELSE a
           c == AddUnit(a, u, fanPage, fanEvent)
<1>1. Sound(b)
  BY SessionAdded DEF FirstTime, Fair
<1>2. c = [b EXCEPT !.pageViews = @ + Counted(fanPage, 1),
                    !.events    = @ + Counted(fanEvent, u.count),
                    !.keyEvents = @ + Counted(fanEvent /\ u.event \in KEY_EVENTS, u.count)]
  BY DEF AddUnit
<1> HIDE DEF b, c
<1>3. Shape(b)
  BY <1>1 DEF Sound
<1>4. /\ c.seen = b.seen /\ c.users = b.users /\ c.active = b.active
      /\ c.engaged = b.engaged /\ c.withKey = b.withKey /\ c.new = b.new
  BY <1>2, <1>3 DEF Shape
<1>5. Shape(c)
  <2>1. u.count \in Nat
    BY DEF Fair
  <2>2. /\ Counted(fanPage, 1) \in Nat /\ Counted(fanEvent, u.count) \in Nat
        /\ Counted(fanEvent /\ u.event \in KEY_EVENTS, u.count) \in Nat
    BY <2>1 DEF Counted
  <2>3. /\ b.pageViews + Counted(fanPage, 1) \in Nat
        /\ b.events + Counted(fanEvent, u.count) \in Nat
        /\ b.keyEvents + Counted(fanEvent /\ u.event \in KEY_EVENTS, u.count) \in Nat
    BY <1>3, <2>2 DEF Shape
  <2> QED
    BY <1>2, <1>3, <1>4, <2>3 DEF Shape
<1>6. Sound(c)
  BY <1>1, <1>4, <1>5 DEF Sound
<1> QED
  BY <1>6 DEF c

\* What an accumulation is made of.
AccumulatesBy(h, q, units) ==
  /\ h[0] = Accumulator /\ Accumulated(q, units) = h[Len(units)]
  /\ \A i \in 1 .. Len(units) : h[i] = AddUnit(h[i - 1], units[i].unit, q.fanPage, q.fanEvent)

LEMMA AccumulatedIs ==
  ASSUME NEW q, NEW S, NEW units \in Seq(S)
  PROVE  \E h : AccumulatesBy(h, q, units)
<1>0. PICK n \in Nat : n = Len(units)
  OBVIOUS
<1> DEFINE Step(i, t) == AddUnit(t, units[i].unit, q.fanPage, q.fanEvent)
           base == Accumulator
           Rec(m, f) == f = [i \in 0 .. m |-> IF i = 0 THEN base ELSE Step(i, f[i - 1])]
           P == {m \in 0 .. n : \E f : Rec(m, f)}
<1> HIDE DEF Step, base
<1>1. 0 \in P
  <2> DEFINE z == [i \in 0 .. 0 |-> base]
  <2>1. Rec(0, z)
    OBVIOUS
  <2> HIDE DEF z, Rec
  <2>2. \E f : Rec(0, f)
    BY <2>1
  <2> QED
    BY <2>2
<1>2. ASSUME NEW m \in 1 .. n, m - 1 \in P  PROVE m \in P
  <2>1. PICK f : Rec(m - 1, f)
    BY <1>2
  <2> DEFINE e == [i \in 0 .. m |-> IF i = m THEN Step(m, f[m - 1]) ELSE f[i]]
  <2>2. ASSUME NEW i \in 0 .. m  PROVE e[i] = IF i = 0 THEN base ELSE Step(i, e[i - 1])
    <3>1. CASE i = 0
      BY <2>1, <3>1
    <3>2. CASE i = m
      <4>1. e[m] = Step(m, f[m - 1]) /\ e[m - 1] = f[m - 1]
        OBVIOUS
      <4> HIDE DEF e
      <4> QED
        BY <3>2, <4>1
    <3>3. CASE i \in 1 .. m - 1
      <4>1. e[i] = f[i] /\ e[i - 1] = f[i - 1]
        BY <3>3
      <4>2. f[i] = Step(i, f[i - 1])
        BY <2>1, <3>3
      <4> HIDE DEF e
      <4> QED
        BY <3>3, <4>1, <4>2
    <3> QED
      BY <3>1, <3>2, <3>3
  <2>3. e = [i \in 0 .. m |-> e[i]]
    OBVIOUS
  <2> HIDE DEF e
  <2>4. Rec(m, e)
    BY <2>2, <2>3
  <2> QED
    BY <2>4
<1>3. PICK f : Rec(n, f)
  <2> HIDE DEF P
  <2>1. n \in P
    <3>1. \A m \in 1 .. n : m - 1 \in P => m \in P
      BY <1>2, Zenon
    <3>2. \A m \in 0 .. n : m \in P
      BY <1>1, <3>1, Climb, Zenon
    <3> QED
      BY <3>2
  <2> QED
    BY <2>1 DEF P
<1> DEFINE h == CHOOSE f_ : Rec(n, f_)
<1>4. Accumulated(q, units) = h[n]
  BY <1>0 DEF Accumulated, Step, base
<1>5. Rec(n, h)
  <2> HIDE DEF Rec
  <2> QED
    BY <1>3
<1> HIDE DEF h
<1>6. h[0] = base /\ \A i \in 1 .. n : h[i] = Step(i, h[i - 1])
  BY <1>5
<1>7. AccumulatesBy(h, q, units)
  BY <1>0, <1>4, <1>6 DEF AccumulatesBy, Step, base
<1> QED
  BY <1>7

LEMMA AccumulatedIsSound ==
  ASSUME NEW q, NEW S, NEW units \in Seq(S), \A c \in ToSet(units) : Fair(c.unit)
  PROVE  Sound(Accumulated(q, units))
<1>0. PICK n \in Nat : n = Len(units) /\ DOMAIN units = 1 .. n
  OBVIOUS
<1>1. PICK h : AccumulatesBy(h, q, units)
  BY AccumulatedIs
<1>2. /\ h[0] = Accumulator /\ Accumulated(q, units) = h[n]
      /\ \A i \in 1 .. n : h[i] = AddUnit(h[i - 1], units[i].unit, q.fanPage, q.fanEvent)
  BY <1>0, <1>1 DEF AccumulatesBy
<1> DEFINE L == {i \in 0 .. n : Sound(h[i])}
<1>3. \A i \in 0 .. n : i \in L
  <2>1. 0 \in L
    BY <1>2, EmptyIsSound
  <2>2. ASSUME NEW i \in 1 .. n, i - 1 \in L  PROVE i \in L
    <3>1. Fair(units[i].unit)
      BY <1>0 DEF ToSet
    <3>2. Sound(AddUnit(h[i - 1], units[i].unit, q.fanPage, q.fanEvent))
      BY <2>2, <3>1, UnitAdded
    <3> QED
      BY <1>2, <3>2
  <2> HIDE DEF L
  <2> QED
    BY <2>1, <2>2, Climb
<1> QED
  BY <1>2, <1>3

LEMMA RatioMonotone ==
  ASSUME NEW x \in Nat, NEW y \in Nat, NEW d \in Nat, x <= y
  PROVE  Ratio(x, d) <= Ratio(y, d)
<1>1. CASE d = 0
  BY <1>1 DEF Ratio
<1>2. CASE d # 0
  <2> DEFINE X == x * Scale
             Y == y * Scale
  <2>1. X \in Nat /\ Y \in Nat /\ X <= Y
    BY ScaleAssumption
  <2> HIDE DEF X, Y
  <2> DEFINE p == X \div d
             r == Y \div d
  <2>2. p \in Int /\ r \in Int /\ d * p <= X /\ Y < d * (r + 1)
    BY <1>2, <2>1
  <2> HIDE DEF p, r
  <2>3. p <= r
    <3> SUFFICES ASSUME r + 1 <= p PROVE FALSE
      BY <2>2
    <3>1. d * (r + 1) <= d * p
      BY <2>2
    <3>2. d * (r + 1) \in Int /\ d * p \in Int
      BY <2>2
    <3> QED
      BY <2>1, <2>2, <3>1, <3>2
  <2> QED
    BY <1>2, <2>3 DEF Ratio, X, Y, p, r
<1> QED
  BY <1>1, <1>2

LEMMA SoundIsFunnel ==
  ASSUME NEW a, Sound(a)
  PROVE  Funnel(a)
<1> DEFINE m == Metrics(a)
           S == Cardinality(a.seen)
           T == Cardinality(a.users)
           A == Cardinality(a.active)
<1>1. /\ m.newUsers = a.new * Scale /\ m.activeUsers = A * Scale
      /\ m.totalUsers = T * Scale /\ m.sessions = S * Scale
      /\ m.sessionKeyEventRate = Ratio(a.withKey, S)
      /\ m.engagementRate = Ratio(a.engaged, S)
  BY DEF Metrics
<1>2. a.new \in Nat /\ a.withKey \in Nat /\ a.engaged \in Nat /\ a.withKey <= a.engaged
  BY DEF Sound, Shape
<1>3. A \in Nat /\ T \in Nat /\ S \in Nat /\ A <= T /\ T <= S
  BY FS_CardinalityType, FS_Subset DEF Sound
<1>4. a.new <= A
  <2>1. PICK N : N \subseteq a.active /\ Cardinality(N) = a.new
    BY DEF Sound
  <2>2. IsFiniteSet(a.active)
    BY FS_Subset DEF Sound
  <2> QED
    BY <2>1, <2>2, FS_Subset
<1> HIDE DEF m, S, T, A
<1>5. ASSUME NEW x \in Nat, NEW y \in Nat, x <= y  PROVE x * Scale <= y * Scale
  BY <1>5, ScaleAssumption
<1>6. /\ m.newUsers <= m.activeUsers /\ m.activeUsers <= m.totalUsers /\ m.totalUsers <= m.sessions
  BY <1>1, <1>2, <1>3, <1>4, <1>5
<1>7. m.sessionKeyEventRate <= m.engagementRate
  BY <1>1, <1>2, <1>3, RatioMonotone
<1> QED
  BY <1>6, <1>7 DEF Funnel, m

\* Only what passes validation is served.
ServedInv == Served => reply.body \in Accepted

LEMMA ServedStep == ServedInv /\ [Next]_rvars => ServedInv'
<1> SUFFICES ASSUME ServedInv, [Next]_rvars PROVE ServedInv'
  OBVIOUS
<1>1. CASE reply' = reply
  BY <1>1 DEF ServedInv, Served
<1>2. ASSUME NEW i \in DOMAIN Bodies, Refuse(i) \/ OverQuota(i) \/ Fail(i)  PROVE ServedInv'
  <2>1. reply'.status # 200
    BY <1>2 DEF Refuse, OverQuota, Fail, Failure, Answer
  <2> QED
    BY <2>1 DEF ServedInv, Served
<1>3. ASSUME NEW i \in DOMAIN Bodies, Serve(i)  PROVE ServedInv'
  <2>1. reply'.body = i /\ i \in Accepted
    BY <1>3, Zenon DEF Serve, Result, Answer
  <2> QED
    BY <2>1 DEF ServedInv
<1>4. CASE Read
  <2>1. reply'.status # 200
    BY <1>4 DEF Read, NoReply, Failure, Answer
  <2> QED
    BY <2>1 DEF ServedInv, Served
<1> QED
  BY <1>1, <1>2, <1>3, <1>4 DEF Next, rvars

LEMMA FunnelFollows == BirthInv /\ TalesInv /\ ServedInv => FunnelHolds
<1> SUFFICES ASSUME BirthInv, TalesInv, ServedInv, Served PROVE
      \A group \in {Collected(Q)} \cup {UnitsOfRow(row, Collected(Q)) : row \in ToSet(reply.page)} :
        Funnel(Accumulated(Q, group))
  BY DEF FunnelHolds
<1> DEFINE units == Collected(Q)
<1>1. reply.body \in Accepted
  BY DEF ServedInv
<1>2. PICK S : units \in Seq(S) /\ \A c \in ToSet(units) : Fair(c.unit)
  <2>1. PICK n \in Nat : DOMAIN Q.ranges = 1 .. n
    BY <1>1, RangesAre DEF Q
  <2>2. \A r \in DOMAIN Q.ranges : Q.ranges[r].start \in Int /\ Q.ranges[r].end \in Int
    BY <1>1, RangesAre DEF Q
  <2> QED
    BY <2>1, <2>2, CollectedAre
<1> HIDE DEF units
<1>3. Funnel(Accumulated(Q, units))
  BY <1>2, AccumulatedIsSound, SoundIsFunnel
<1>4. ASSUME NEW row  PROVE Funnel(Accumulated(Q, UnitsOfRow(row, units)))
  <2> DEFINE I == {i \in DOMAIN units : units[i].dims = row.dims /\ units[i].range = row.range}
             group == Picked(units, I)
  <2>1. UnitsOfRow(row, units) = group
    BY DEF UnitsOfRow
  <2> HIDE DEF I
  <2>2. group \in Seq(S) /\ \A x \in ToSet(group) : \E i \in DOMAIN units \cap I : x = units[i]
    BY <1>2, PickedMembers
  <2>3. \A x \in ToSet(group) : Fair(x.unit)
    BY <1>2, <2>2 DEF ToSet
  <2> HIDE DEF group
  <2> QED
    BY <2>1, <2>2, <2>3, AccumulatedIsSound, SoundIsFunnel
<1> QED
  BY <1>3, <1>4 DEF units

\* In every row and total, of every world and query: newUsers <= activeUsers
\* <= totalUsers <= sessions, and a session with a key event is engaged.
THEOREM TheFunnelHolds == Spec => []FunnelHolds
<1>1. Init => BirthInv /\ TalesInv /\ ServedInv
  <2> SUFFICES ASSUME Init PROVE BirthInv /\ TalesInv /\ ServedInv
    OBVIOUS
  <2>1. BirthInv
    BY BirthInit DEF Init
  <2>2. Len(world) = 0
    BY DEF Init, GInit
  <2>3. TalesInv
    BY <2>2 DEF TalesInv
  <2>4. reply.status # 200
    BY DEF Init, NoReply, Failure, Answer
  <2> QED
    BY <2>1, <2>3, <2>4 DEF ServedInv, Served
<1>2. BirthInv /\ TalesInv /\ ServedInv /\ [Next]_rvars => (BirthInv /\ TalesInv /\ ServedInv)'
  BY BirthStep, TalesStep, ServedStep
<1>3. BirthInv /\ TalesInv /\ ServedInv => FunnelHolds
  BY FunnelFollows
<1> QED
  BY <1>1, <1>2, <1>3, PTL DEF Spec

(***************************************************************************)
(* Sort                                                                     *)
(***************************************************************************)
\* A set of the first numbers holds as many as its largest.
LEMMA InitialSegment ==
  ASSUME NEW m \in Nat, NEW T \in SUBSET (1 .. m),
         \A a \in T : \A b \in 1 .. a : b \in T
  PROVE  Cardinality(T) \in 0 .. m /\ T = 1 .. Cardinality(T)
<1> DEFINE U == {k \in Nat \ {0} : k \notin T}
<1>1. m + 1 \in U /\ U \in SUBSET Nat
  OBVIOUS
<1>2. PICK k \in U : \A j \in U : k <= j
  <2> HIDE DEF U
  <2> QED
    BY <1>1, LeastOf
<1>3. T = 1 .. k - 1
  <2>1. \A j \in 1 .. k - 1 : j \in T
    BY <1>2
  <2>2. ASSUME NEW a \in T  PROVE a \in 1 .. k - 1
    <3>1. k \notin T /\ k \in Nat \ {0} /\ a \in Nat \ {0}
      BY <1>2
    <3>2. a >= k => k \in T
      BY <3>1
    <3> QED
      BY <3>1, <3>2
  <2> QED
    BY <2>1, <2>2
<1>4. k - 1 \in 0 .. m
  BY <1>1, <1>2
<1>5. Cardinality(1 .. k - 1) = k - 1
  BY <1>4, FS_Interval
<1> QED
  BY <1>3, <1>4, <1>5

\* The places 1 .. m of a list, in another order, and that this is by the keys,
\* equal keys by the places.
Permutes(p, m) ==
  /\ p \in [1 .. m -> 1 .. m]
  /\ \A k \in 1 .. m : \E a \in 1 .. m : p[a] = k
  /\ \A a, b \in 1 .. m : a < b => p[a] # p[b]
Ordering(key, p, m) ==
  \A a, b \in 1 .. m : a < b => key[p[a]] < key[p[b]] \/ (key[p[a]] = key[p[b]] /\ p[a] < p[b])

\* The m-th place, put behind those whose key is no larger.
PutIn(p, m, k) == [a \in 1 .. m |-> IF a <= k THEN p[a] ELSE IF a = k + 1 THEN m ELSE p[a - 1]]

LEMMA PutInPermutes ==
  ASSUME NEW m \in Nat \ {0}, NEW p, Permutes(p, m - 1), NEW k \in 0 .. m - 1
  PROVE  Permutes(PutIn(p, m, k), m)
<1> DEFINE f == PutIn(p, m, k)
<1>0. p \in [1 .. m - 1 -> 1 .. m - 1]
  BY DEF Permutes
<1>1. \A a \in 1 .. m : f[a] = IF a <= k THEN p[a] ELSE IF a = k + 1 THEN m ELSE p[a - 1]
  BY DEF PutIn
<1>2. \A a \in 1 .. m : f[a] \in 1 .. m
  <2>1. ASSUME NEW a \in 1 .. m  PROVE f[a] \in 1 .. m
    <3>1. a <= k => p[a] \in 1 .. m - 1
      BY <1>0
    <3>2. ~(a <= k) /\ a # k + 1 => p[a - 1] \in 1 .. m - 1
      BY <1>0
    <3> HIDE DEF f
    <3> QED
      BY <1>1, <3>1, <3>2
  <2> QED
    BY <2>1
<1>3. f = [a \in 1 .. m |-> f[a]]
  BY DEF PutIn
<1> HIDE DEF f
<1>4. f \in [1 .. m -> 1 .. m]
  BY <1>2, <1>3
<1>5. ASSUME NEW j \in 1 .. m  PROVE \E a \in 1 .. m : f[a] = j
  <2>1. CASE j = m
    <3>1. f[k + 1] = m /\ k + 1 \in 1 .. m
      BY <1>1
    <3> QED
      BY <2>1, <3>1
  <2>2. CASE j # m
    <3>1. PICK a \in 1 .. m - 1 : p[a] = j
      BY <2>2 DEF Permutes
    <3>2. CASE a <= k
      <4>1. a \in 1 .. m /\ f[a] = p[a]
        BY <1>1, <3>2
      <4> QED
        BY <3>1, <4>1
    <3>3. CASE ~(a <= k)
      <4>1. a + 1 \in 1 .. m /\ f[a + 1] = p[a]
        BY <1>1, <3>3
      <4> QED
        BY <3>1, <4>1
    <3> QED
      BY <3>2, <3>3
  <2> QED
    BY <2>1, <2>2
<1>6. ASSUME NEW a \in 1 .. m, NEW b \in 1 .. m, a < b  PROVE f[a] # f[b]
  <2> DEFINE Back(x) == IF x <= k THEN x ELSE x - 1
  <2>1. \A x \in 1 .. m : x # k + 1 => Back(x) \in 1 .. m - 1 /\ f[x] = p[Back(x)]
    BY <1>1
  <2>2. \A x \in 1 .. m - 1 : p[x] \in 1 .. m - 1
    BY <1>0
  <2>3. f[k + 1] = m
    BY <1>1
  <2>4. CASE a = k + 1
    <3>1. b # k + 1
      BY <1>6, <2>4
    <3> HIDE DEF Back
    <3> QED
      BY <2>1, <2>2, <2>3, <2>4, <3>1
  <2>5. CASE b = k + 1
    <3>1. a # k + 1
      BY <1>6, <2>5
    <3> HIDE DEF Back
    <3> QED
      BY <2>1, <2>2, <2>3, <2>5, <3>1
  <2>6. CASE a # k + 1 /\ b # k + 1
    <3>1. Back(a) < Back(b)
      BY <1>6, <2>6
    <3>2. Back(a) \in 1 .. m - 1 /\ Back(b) \in 1 .. m - 1 /\ f[a] = p[Back(a)] /\ f[b] = p[Back(b)]
      BY <2>1, <2>6, Zenon
    <3> HIDE DEF Back
    <3> QED
      BY <3>1, <3>2 DEF Permutes
  <2> QED
    BY <2>4, <2>5, <2>6
<1> QED
  BY <1>4, <1>5, <1>6 DEF Permutes, f

LEMMA PutInOrders ==
  ASSUME NEW m \in Nat \ {0}, NEW key, \A i \in 1 .. m : key[i] \in Int,
         NEW p, Permutes(p, m - 1), Ordering(key, p, m - 1)
  PROVE  LET k == Cardinality({a \in 1 .. m - 1 : key[p[a]] <= key[m]}) IN
         k \in 0 .. m - 1 /\ Ordering(key, PutIn(p, m, k), m)
<1> DEFINE T == {a \in 1 .. m - 1 : key[p[a]] <= key[m]}
           k == Cardinality(T)
           f == PutIn(p, m, k)
<1>0. /\ \A a \in 1 .. m - 1 : p[a] \in 1 .. m - 1 /\ key[p[a]] \in Int
      /\ key[m] \in Int
  <2>1. p \in [1 .. m - 1 -> 1 .. m - 1]
    BY DEF Permutes
  <2>2. \A a \in 1 .. m - 1 : p[a] \in 1 .. m - 1 /\ p[a] \in 1 .. m
    BY <2>1
  <2> QED
    BY <2>2
<1>1. ASSUME NEW a \in T, NEW b \in 1 .. a  PROVE b \in T
  <2>1. b \in 1 .. m - 1 /\ a \in 1 .. m - 1
    OBVIOUS
  <2>2. CASE b < a
    <3>1. key[p[b]] <= key[p[a]]
      BY <1>0, <2>1, <2>2 DEF Ordering
    <3> QED
      BY <1>0, <2>1, <3>1
  <2> QED
    BY <2>2
<1>2. k \in 0 .. m - 1 /\ T = 1 .. k
  <2>1. T \in SUBSET (1 .. m - 1) /\ m - 1 \in Nat
    OBVIOUS
  <2> HIDE DEF T
  <2> QED
    BY <1>1, <2>1, InitialSegment
<1> HIDE DEF k
<1>3. \A a \in 1 .. m - 1 : IF a <= k THEN key[p[a]] <= key[m] ELSE key[p[a]] > key[m]
  BY <1>0, <1>2
<1> HIDE DEF T
<1>4. \A a \in 1 .. m : f[a] = IF a <= k THEN p[a] ELSE IF a = k + 1 THEN m ELSE p[a - 1]
  BY DEF PutIn
<1> HIDE DEF f
<1>5. ASSUME NEW a \in 1 .. m, NEW b \in 1 .. m, a < b
      PROVE  key[f[a]] < key[f[b]] \/ (key[f[a]] = key[f[b]] /\ f[a] < f[b])
  <2> DEFINE Back(x) == IF x <= k THEN x ELSE x - 1
  <2>1. \A x \in 1 .. m : x # k + 1 => Back(x) \in 1 .. m - 1 /\ f[x] = p[Back(x)]
    BY <1>2, <1>4
  <2>3. f[k + 1] = m
    BY <1>2, <1>4
  <2>4. CASE a = k + 1
    <3>1. Back(b) \in 1 .. m - 1 /\ f[b] = p[Back(b)] /\ ~(Back(b) <= k)
      BY <1>2, <1>5, <2>1, <2>4
    <3>2. key[p[Back(b)]] > key[m]
      BY <1>3, <3>1
    <3> HIDE DEF Back
    <3> QED
      BY <1>0, <2>3, <2>4, <3>1, <3>2
  <2>5. CASE b = k + 1
    <3>1. Back(a) \in 1 .. m - 1 /\ f[a] = p[Back(a)] /\ Back(a) <= k
      BY <1>2, <1>5, <2>1, <2>5
    <3>2. key[p[Back(a)]] <= key[m]
      BY <1>3, <3>1
    <3> HIDE DEF Back
    <3>3. p[Back(a)] \in 1 .. m - 1 /\ key[p[Back(a)]] \in Int
      BY <1>0, <3>1
    <3> QED
      BY <1>0, <2>3, <2>5, <3>1, <3>2, <3>3
  <2>6. CASE a # k + 1 /\ b # k + 1
    <3>1. Back(a) < Back(b)
      BY <1>2, <1>5, <2>6
    <3>2. Back(a) \in 1 .. m - 1 /\ Back(b) \in 1 .. m - 1 /\ f[a] = p[Back(a)] /\ f[b] = p[Back(b)]
      BY <2>1, <2>6, Zenon
    <3> HIDE DEF Back
    <3> QED
      BY <3>1, <3>2 DEF Ordering
  <2> QED
    BY <2>4, <2>5, <2>6
<1> QED
  BY <1>2, <1>5 DEF Ordering, f, k, T

\* How many rows a row goes in behind, and that it has.
Passed(q, rows, row, c) == Cardinality({i \in DOMAIN rows : ~Before(q, row, rows[i], c)})
WentIn(s, rows, row, k) ==
  /\ Len(s) = Len(rows) + 1
  /\ \A a \in 1 .. Len(rows) + 1 :
       s[a] = IF a <= k THEN rows[a] ELSE IF a = k + 1 THEN row ELSE rows[a - 1]

LEMMA InsertionIs ==
  ASSUME NEW q, NEW R, NEW rows \in Seq(R), NEW row \in R, NEW c
  PROVE  /\ Passed(q, rows, row, c) \in 0 .. Len(rows)
         /\ Insertion(q, rows, row, c) \in Seq(R)
         /\ WentIn(Insertion(q, rows, row, c), rows, row, Passed(q, rows, row, c))
<1>0. PICK n \in Nat : n = Len(rows) /\ DOMAIN rows = 1 .. n
  OBVIOUS
<1> DEFINE T == {i \in DOMAIN rows : ~Before(q, row, rows[i], c)}
           k == Cardinality(T)
           s == Insertion(q, rows, row, c)
<1>1. k \in 0 .. n
  <2>1. T \in SUBSET (1 .. n)
    BY <1>0
  <2>2. IsFiniteSet(1 .. n) /\ Cardinality(1 .. n) = n
    BY FS_Interval
  <2> HIDE DEF T
  <2>3. IsFiniteSet(T) /\ Cardinality(T) <= n
    BY <2>1, <2>2, FS_Subset
  <2> QED
    BY <2>3, FS_CardinalityType
<1>2. s = SubSeq(rows, 1, k) \o <<row>> \o SubSeq(rows, k + 1, n)
  <2>1. (k + 1) - 1 = k
    BY <1>1
  <2> QED
    BY <1>0, <2>1, Zenon DEF Insertion, InsertAt
<1> HIDE DEF k, s
<1> DEFINE u == SubSeq(rows, 1, k)
           v == SubSeq(rows, k + 1, n)
<1>3. /\ u \in Seq(R) /\ Len(u) = k /\ \A a \in 1 .. k : u[a] = rows[a]
      /\ v \in Seq(R) /\ Len(v) = n - k /\ \A a \in 1 .. n - k : v[a] = rows[k + a]
  BY <1>0, <1>1
<1> HIDE DEF u, v
<1>4. /\ u \o <<row>> \in Seq(R) /\ Len(u \o <<row>>) = k + 1
      /\ \A a \in 1 .. k + 1 : (u \o <<row>>)[a] = IF a <= k THEN rows[a] ELSE row
  BY <1>1, <1>3
<1> DEFINE w == u \o <<row>>
<1>5a. /\ w \in Seq(R) /\ Len(w) = k + 1
      /\ \A a \in 1 .. k + 1 : w[a] = IF a <= k THEN rows[a] ELSE row
  BY <1>4
<1> HIDE DEF w
<1>5. s = w \o v
  BY <1>2 DEF u, v, w
<1>6. s \in Seq(R) /\ Len(s) = n + 1
  BY <1>0, <1>1, <1>3, <1>5a, <1>5
<1>7. ASSUME NEW a \in 1 .. n + 1
      PROVE  s[a] = IF a <= k THEN rows[a] ELSE IF a = k + 1 THEN row ELSE rows[a - 1]
  <2>1. CASE a <= k + 1
    <3>1. s[a] = w[a]
      BY <1>1, <1>3, <1>5a, <1>5, <2>1
    <3> QED
      BY <1>1, <1>5a, <2>1, <3>1
  <2>2. CASE ~(a <= k + 1)
    <3>1. s[a] = v[a - (k + 1)] /\ a - (k + 1) \in 1 .. n - k
      BY <1>1, <1>3, <1>5a, <1>5, <2>2
    <3>2. v[a - (k + 1)] = rows[k + (a - (k + 1))] /\ k + (a - (k + 1)) = a - 1
      BY <1>1, <1>3, <3>1
    <3> QED
      BY <1>1, <2>2, <3>1, <3>2
  <2> QED
    BY <1>1, <2>1, <2>2
<1> QED
  BY <1>0, <1>1, <1>6, <1>7 DEF k, s, Passed, WentIn

\* What the sort is made of.
Sinks(h, q, rows, c) ==
  /\ h[0] = <<>> /\ StableSort(q, rows, c) = h[Len(rows)]
  /\ \A i \in 1 .. Len(rows) : h[i] = Insertion(q, h[i - 1], rows[i], c)

Grows(h, R, n) == \A i \in 0 .. n : h[i] \in Seq(R) /\ Len(h[i]) = i

LEMMA SortIs ==
  ASSUME NEW q, NEW R, NEW rows \in Seq(R), NEW c
  PROVE  /\ \E h : Sinks(h, q, rows, c) /\ Grows(h, R, Len(rows))
         /\ StableSort(q, rows, c) \in Seq(R) /\ Len(StableSort(q, rows, c)) = Len(rows)
<1>0. PICK n \in Nat : n = Len(rows) /\ \A i \in 1 .. n : rows[i] \in R
  OBVIOUS
<1> DEFINE Step(i, t) == Insertion(q, t, rows[i], c)
           T == Seq(R)
           base == <<>>
           Rec(f) == f = [i \in 0 .. n |-> IF i = 0 THEN base ELSE Step(i, f[i - 1])]
           g == [x \in (1 .. n) \X T |-> Step(x[1], x[2])]
<1>1. base \in T /\ Len(base) = 0
  OBVIOUS
<1>2. ASSUME NEW i \in 1 .. n, NEW t \in T  PROVE Step(i, t) \in T /\ Len(Step(i, t)) = Len(t) + 1
  <2>1. t \in Seq(R) /\ rows[i] \in R
    BY <1>0
  <2>2. Insertion(q, t, rows[i], c) \in Seq(R) /\ Len(Insertion(q, t, rows[i], c)) = Len(t) + 1
    <3> DEFINE x == rows[i]
    <3> HIDE DEF x
    <3>1. x \in R
      BY <2>1 DEF x
    <3>2. Insertion(q, t, x, c) \in Seq(R) /\ WentIn(Insertion(q, t, x, c), t, x, Passed(q, t, x, c))
      BY <2>1, <3>1, InsertionIs, Zenon
    <3> QED
      BY <3>2 DEF WentIn, x
  <2> QED
    BY <2>2
<1>3. /\ g \in [(1 .. n) \X T -> T]
      /\ \A i \in 1 .. n, t \in T : g[<<i, t>>] = Step(i, t)
  <2> HIDE DEF Step, T
  <2> QED
    BY <1>2
<1> HIDE DEF g
<1>4. PICK f \in [0 .. n -> T] : Iterates(f, n, base, g)
  <2> HIDE DEF base, T
  <2> QED
    BY <1>1, <1>3, IterationExists
<1>5. Rec(f)
  <2> HIDE DEF Step, T, base
  <2>1. ASSUME NEW i \in 0 .. n  PROVE f[i] = IF i = 0 THEN base ELSE Step(i, f[i - 1])
    <3>1. CASE i = 0
      BY <1>4, <3>1 DEF Iterates
    <3>2. CASE i # 0
      <4>1. i \in 1 .. n /\ i - 1 \in 0 .. n
        BY <3>2
      <4>2. f[i - 1] \in T /\ f[i] = g[<<i, f[i - 1]>>]
        BY <1>4, <4>1 DEF Iterates
      <4> QED
        BY <1>3, <3>2, <4>1, <4>2
    <3> QED
      BY <3>1, <3>2
  <2> QED
    BY <2>1
<1> DEFINE h == CHOOSE f_ : Rec(f_)
<1>6. StableSort(q, rows, c) = h[n]
  BY <1>0 DEF StableSort
<1>7. Rec(h)
  <2> HIDE DEF Rec
  <2> QED
    BY <1>5
<1> HIDE DEF h
<1>8. h[0] = base /\ \A i \in 1 .. n : h[i] = Step(i, h[i - 1])
  <2> HIDE DEF Step, base
  <2> QED
    BY <1>7
<1> DEFINE P == {i \in 0 .. n : h[i] \in T /\ Len(h[i]) = i}
<1>9. \A i \in 0 .. n : i \in P
  <2> HIDE DEF Step, T, base
  <2>1. 0 \in P
    BY <1>1, <1>8
  <2>2. ASSUME NEW i \in 1 .. n, i - 1 \in P  PROVE i \in P
    <3>1. h[i - 1] \in T /\ Len(h[i - 1]) = i - 1 /\ h[i] = Step(i, h[i - 1])
      BY <1>8, <2>2
    <3> QED
      BY <1>2, <3>1
  <2> HIDE DEF P
  <2> QED
    BY <2>1, <2>2, Climb
<1>10. Sinks(h, q, rows, c)
  BY <1>0, <1>6, <1>8 DEF Sinks
<1>11. \A i \in 0 .. Len(rows) : h[i] \in Seq(R) /\ Len(h[i]) = i
  BY <1>0, <1>9
<1>12. h[n] \in Seq(R) /\ Len(h[n]) = n
  BY <1>0, <1>11
<1> QED
  BY <1>0, <1>6, <1>10, <1>11, <1>12 DEF Grows

\* The number a row is sorted by.
SortKey(q, row, c) == IF c.desc THEN -RankOf(q, row, c) ELSE RankOf(q, row, c)
Ranked(q, rows, c) == \A i \in DOMAIN rows : RankOf(q, rows[i], c) \in Int

LEMMA BeforeIs ==
  ASSUME NEW q, NEW a, NEW b, NEW c, RankOf(q, a, c) \in Int, RankOf(q, b, c) \in Int
  PROVE  /\ SortKey(q, a, c) \in Int /\ SortKey(q, b, c) \in Int
         /\ Before(q, a, b, c) <=> SortKey(q, a, c) < SortKey(q, b, c)
<1> DEFINE x == RankOf(q, a, c)
           y == RankOf(q, b, c)
<1>1. x \in Int /\ y \in Int
  OBVIOUS
<1>2. /\ SortKey(q, a, c) = IF c.desc THEN -x ELSE x
      /\ SortKey(q, b, c) = IF c.desc THEN -y ELSE y
      /\ Before(q, a, b, c) <=> IF c.desc THEN x > y ELSE x < y
  BY DEF SortKey, Before
<1> HIDE DEF x, y
<1> QED
  BY <1>1, <1>2

\* A list that holds the rows of another, in the order p.
Arranges(s, rows, p, m) == Permutes(p, m) /\ \A a \in 1 .. m : s[a] = rows[p[a]]

LEMMA SortArranges ==
  ASSUME NEW q, NEW R, NEW rows \in Seq(R), NEW c, Ranked(q, rows, c)
  PROVE  \E p : /\ Arranges(StableSort(q, rows, c), rows, p, Len(rows))
                /\ Ordering([i \in 1 .. Len(rows) |-> SortKey(q, rows[i], c)], p, Len(rows))
<1>0. PICK n \in Nat : n = Len(rows) /\ DOMAIN rows = 1 .. n /\ \A i \in 1 .. n : rows[i] \in R
  OBVIOUS
<1>1. PICK h : Sinks(h, q, rows, c) /\ \A i \in 0 .. n : h[i] \in Seq(R) /\ Len(h[i]) = i
  <2>1. PICK h : Sinks(h, q, rows, c) /\ Grows(h, R, Len(rows))
    BY SortIs
  <2> QED
    BY <1>0, <2>1 DEF Grows
<1> DEFINE key == [i \in 1 .. n |-> SortKey(q, rows[i], c)]
           Is(m, p) == Arranges(h[m], rows, p, m) /\ Ordering(key, p, m)
           P == {m \in 0 .. n : \E p : Is(m, p)}
<1>2. /\ \A i \in 1 .. n : key[i] \in Int /\ key[i] = SortKey(q, rows[i], c)
      /\ \A i, j \in 1 .. n : Before(q, rows[i], rows[j], c) <=> key[i] < key[j]
  <2>1. \A i, j \in 1 .. n : SortKey(q, rows[i], c) \in Int
             /\ (Before(q, rows[i], rows[j], c) <=> SortKey(q, rows[i], c) < SortKey(q, rows[j], c))
    <3>1. ASSUME NEW i \in 1 .. n, NEW j \in 1 .. n
          PROVE  SortKey(q, rows[i], c) \in Int
             /\ (Before(q, rows[i], rows[j], c) <=> SortKey(q, rows[i], c) < SortKey(q, rows[j], c))
      <4>1. RankOf(q, rows[i], c) \in Int /\ RankOf(q, rows[j], c) \in Int
        BY <1>0 DEF Ranked
      <4> QED
        BY <4>1, BeforeIs
    <3> QED
      BY <3>1
  <2> QED
    BY <2>1
<1> HIDE DEF key
<1>3. 0 \in P
  <2> DEFINE p == [a \in 1 .. 0 |-> a]
  <2>1. Permutes(p, 0)
    BY DEF Permutes
  <2> HIDE DEF p
  <2>2. Is(0, p)
    BY <2>1 DEF Arranges, Ordering
  <2> HIDE DEF Is
  <2> QED
    BY <2>2
<1>4. ASSUME NEW m \in 1 .. n, m - 1 \in P  PROVE m \in P
  <2>1. PICK p : Is(m - 1, p)
    BY <1>4
  <2> DEFINE s == h[m - 1]
             row == rows[m]
             k == Passed(q, s, row, c)
  <2>2. s \in Seq(R) /\ Len(s) = m - 1 /\ DOMAIN s = 1 .. m - 1 /\ row \in R
    <3>1. m - 1 \in 0 .. n
      OBVIOUS
    <3>2. s \in Seq(R) /\ Len(s) = m - 1
      BY <1>1, <3>1
    <3> QED
      BY <1>0, <3>2
  <2>3. h[m] = Insertion(q, s, row, c)
    BY <1>0, <1>1 DEF Sinks
  <2> HIDE DEF row
  <2>4. k \in 0 .. m - 1 /\ WentIn(h[m], s, row, k)
    BY <2>2, <2>3, InsertionIs
  <2>5. k = Cardinality({a \in 1 .. m - 1 : key[p[a]] <= key[m]})
    <3>1. ASSUME NEW a \in 1 .. m - 1  PROVE ~Before(q, row, s[a], c) <=> key[p[a]] <= key[m]
      <4>1. p[a] \in 1 .. n /\ s[a] = rows[p[a]]
        BY <2>1 DEF Arranges, Permutes
      <4>2. key[p[a]] \in Int /\ key[m] \in Int
        BY <1>2, <4>1
      <4>3. Before(q, row, s[a], c) <=> key[m] < key[p[a]]
        BY <1>2, <4>1 DEF row
      <4> QED
        BY <4>2, <4>3
    <3>2. {a \in DOMAIN s : ~Before(q, row, s[a], c)} = {a \in 1 .. m - 1 : key[p[a]] <= key[m]}
      BY <2>2, <3>1
    <3> QED
      BY <3>2 DEF Passed
  <2>6. Permutes(p, m - 1) /\ Ordering(key, p, m - 1) /\ \A a \in 1 .. m - 1 : s[a] = rows[p[a]]
    BY <2>1 DEF Arranges
  <2>7. m \in Nat \ {0} /\ \A i \in 1 .. m : key[i] \in Int
    BY <1>2
  <2> HIDE DEF k, s, Is
  <2> DEFINE f == PutIn(p, m, k)
  <2>8. Permutes(f, m)
    BY <2>4, <2>6, <2>7, PutInPermutes
  <2>9. Ordering(key, f, m)
    BY <2>5, <2>6, <2>7, PutInOrders
  <2>10. \A a \in 1 .. m : h[m][a] = rows[f[a]]
    <3>1. \A a \in 1 .. m : f[a] = IF a <= k THEN p[a] ELSE IF a = k + 1 THEN m ELSE p[a - 1]
      BY DEF PutIn
    <3>2. \A a \in 1 .. m : h[m][a] = IF a <= k THEN s[a] ELSE IF a = k + 1 THEN row ELSE s[a - 1]
      BY <2>2, <2>4 DEF WentIn
    <3> HIDE DEF f
    <3>3. ASSUME NEW a \in 1 .. m  PROVE h[m][a] = rows[f[a]]
      <4>1. CASE a <= k
        BY <2>4, <2>6, <3>1, <3>2, <4>1
      <4>2. CASE ~(a <= k) /\ a = k + 1
        BY <2>4, <2>6, <3>1, <3>2, <4>2 DEF row
      <4>3. CASE ~(a <= k) /\ a # k + 1
        <5>1. a - 1 \in 1 .. m - 1
          BY <2>4, <4>3
        <5> QED
          BY <2>6, <3>1, <3>2, <4>3, <5>1
      <4> QED
        BY <4>1, <4>2, <4>3
    <3> QED
      BY <3>3
  <2> HIDE DEF f
  <2>11. Is(m, f)
    BY <2>8, <2>9, <2>10 DEF Is, Arranges
  <2> QED
    BY <2>11
<1>5. n \in P
  <2> HIDE DEF P
  <2>1. \A m \in 1 .. n : m - 1 \in P => m \in P
    BY <1>4, Zenon
  <2>2. \A m \in 0 .. n : m \in P
    BY <1>3, <2>1, Climb, Zenon
  <2> QED
    BY <2>2
<1>6. PICK p : Is(n, p)
  BY <1>5
<1>7. h[n] = StableSort(q, rows, c)
  BY <1>0, <1>1 DEF Sinks
<1> QED
  BY <1>0, <1>6, <1>7, Zenon DEF key

\* What the order is made of: the criteria from the last to the first.
Steps(h, q, rows) ==
  /\ h[0] = rows /\ Ordered(q, rows) = h[Len(Criteria(q))]
  /\ \A i \in 1 .. Len(Criteria(q)) :
       h[i] = StableSort(q, h[i - 1], Criteria(q)[Len(Criteria(q)) + 1 - i])

Keeps(h, R, n, m) == \A i \in 0 .. n : h[i] \in Seq(R) /\ Len(h[i]) = m

LEMMA OrderIs ==
  ASSUME NEW q, Len(Criteria(q)) \in Nat, NEW R, NEW rows \in Seq(R)
  PROVE  /\ \E h : Steps(h, q, rows) /\ Keeps(h, R, Len(Criteria(q)), Len(rows))
         /\ Ordered(q, rows) \in Seq(R) /\ Len(Ordered(q, rows)) = Len(rows)
<1>0. PICK n \in Nat : n = Len(Criteria(q))
  OBVIOUS
<1> DEFINE c(i) == Criteria(q)[Len(Criteria(q)) + 1 - i]
           Step(i, t) == StableSort(q, t, c(i))
           T == {t \in Seq(R) : Len(t) = Len(rows)}
           base == rows
           Rec(f) == f = [i \in 0 .. n |-> IF i = 0 THEN base ELSE Step(i, f[i - 1])]
           g == [x \in (1 .. n) \X T |-> Step(x[1], x[2])]
<1>1. base \in T
  OBVIOUS
<1> HIDE DEF c
<1>2. ASSUME NEW i \in 1 .. n, NEW t \in T  PROVE Step(i, t) \in T
  <2>1. t \in Seq(R) /\ Len(t) = Len(rows)
    OBVIOUS
  <2> HIDE DEF T
  <2>2. StableSort(q, t, c(i)) \in Seq(R) /\ Len(StableSort(q, t, c(i))) = Len(t)
    BY <2>1, SortIs
  <2> QED
    BY <2>1, <2>2 DEF T
<1>3. /\ g \in [(1 .. n) \X T -> T]
      /\ \A i \in 1 .. n, t \in T : g[<<i, t>>] = Step(i, t)
  <2> HIDE DEF Step, T
  <2> QED
    BY <1>2
<1> HIDE DEF g
<1>4. PICK f \in [0 .. n -> T] : Iterates(f, n, base, g)
  <2> HIDE DEF base, T
  <2> QED
    BY <1>1, <1>3, IterationExists
<1>5. Rec(f)
  <2> HIDE DEF Step, T, base
  <2>1. ASSUME NEW i \in 0 .. n  PROVE f[i] = IF i = 0 THEN base ELSE Step(i, f[i - 1])
    <3>1. CASE i = 0
      BY <1>4, <3>1 DEF Iterates
    <3>2. CASE i # 0
      <4>1. i \in 1 .. n /\ i - 1 \in 0 .. n
        BY <3>2
      <4>2. f[i - 1] \in T /\ f[i] = g[<<i, f[i - 1]>>]
        BY <1>4, <4>1 DEF Iterates
      <4> QED
        BY <1>3, <3>2, <4>1, <4>2
    <3> QED
      BY <3>1, <3>2
  <2> QED
    BY <2>1
<1> DEFINE h == CHOOSE f_ : Rec(f_)
<1>6. Ordered(q, rows) = h[n]
  BY <1>0 DEF Ordered, c
<1>7. Rec(h)
  <2> HIDE DEF Rec
  <2> QED
    BY <1>5
<1> HIDE DEF h
<1>8. h[0] = base /\ \A i \in 1 .. n : h[i] = Step(i, h[i - 1])
  <2> HIDE DEF Step, base
  <2> QED
    BY <1>7
<1> DEFINE P == {i \in 0 .. n : h[i] \in T}
<1>9. \A i \in 0 .. n : i \in P
  <2> HIDE DEF Step, T, base
  <2>1. 0 \in P
    BY <1>1, <1>8
  <2>2. ASSUME NEW i \in 1 .. n, i - 1 \in P  PROVE i \in P
    <3>1. h[i - 1] \in T /\ h[i] = Step(i, h[i - 1])
      BY <1>8, <2>2
    <3> QED
      BY <1>2, <3>1
  <2> HIDE DEF P
  <2> QED
    BY <2>1, <2>2, Climb
<1>10. Steps(h, q, rows)
  BY <1>0, <1>6, <1>8 DEF Steps, c
<1>11. \A i \in 0 .. Len(Criteria(q)) : h[i] \in Seq(R) /\ Len(h[i]) = Len(rows)
  BY <1>0, <1>9
<1>12. h[n] \in Seq(R) /\ Len(h[n]) = Len(rows)
  BY <1>0, <1>11
<1> QED
  BY <1>6, <1>10, <1>11, <1>12 DEF Keeps

\* A row is ahead of another by the criteria from the k-th on.
AheadFrom(q, k, a, b) ==
  \E i \in k .. Len(Criteria(q)) :
    /\ Before(q, a, b, Criteria(q)[i])
    /\ \A j \in k .. i - 1 : ~Before(q, b, a, Criteria(q)[j])

InOrder(q, k, s, n) == \A a, b \in 1 .. n : a < b => ~AheadFrom(q, k, s[b], s[a])

\* Of two rows the first is ahead, or came first.
Follows(q, k, s, p, n) == \A a, b \in 1 .. n : a < b => AheadFrom(q, k, s[a], s[b]) \/ p[a] < p[b]

\* Two orders, one after the other, are one.
Compose(p, r, m) == [a \in 1 .. m |-> p[r[a]]]

LEMMA ComposePermutes ==
  ASSUME NEW m \in Nat, NEW p, NEW r, Permutes(p, m), Permutes(r, m)
  PROVE  /\ Permutes(Compose(p, r, m), m)
         /\ \A a \in 1 .. m : Compose(p, r, m)[a] = p[r[a]] /\ r[a] \in 1 .. m
<1>0. p \in [1 .. m -> 1 .. m] /\ r \in [1 .. m -> 1 .. m]
  BY DEF Permutes
<1> DEFINE f == Compose(p, r, m)
<1>1. \A a \in 1 .. m : f[a] = p[r[a]] /\ r[a] \in 1 .. m
  BY <1>0 DEF Compose
<1>2. f \in [1 .. m -> 1 .. m]
  BY <1>0 DEF Compose
<1> HIDE DEF f
<1>3. ASSUME NEW k \in 1 .. m  PROVE \E a \in 1 .. m : f[a] = k
  <2>1. PICK b \in 1 .. m : p[b] = k
    BY DEF Permutes
  <2>2. PICK a \in 1 .. m : r[a] = b
    BY DEF Permutes
  <2> QED
    BY <1>1, <2>1, <2>2
<1>4. ASSUME NEW a \in 1 .. m, NEW b \in 1 .. m, a < b  PROVE f[a] # f[b]
  <2>1. r[a] # r[b]
    BY <1>4 DEF Permutes
  <2>2. r[a] < r[b] \/ r[b] < r[a]
    BY <1>0, <2>1
  <2>3. p[r[a]] # p[r[b]]
    BY <1>1, <2>2 DEF Permutes
  <2> QED
    BY <1>1, <2>3
<1> QED
  BY <1>1, <1>2, <1>3, <1>4 DEF Permutes, f

\* A stable sort by a criterion leaves the rows in the order of this one, and
\* of those after it.
LEMMA SortRefines ==
  ASSUME NEW q, NEW R, NEW s \in Seq(R), NEW L \in Nat, L = Len(Criteria(q)),
         NEW k \in 1 .. L, Ranked(q, s, Criteria(q)[k]),
         InOrder(q, k + 1, s, Len(s)), NEW p, Follows(q, k + 1, s, p, Len(s))
  PROVE  /\ \E r : /\ Arranges(StableSort(q, s, Criteria(q)[k]), s, r, Len(s))
                  /\ Follows(q, k, StableSort(q, s, Criteria(q)[k]), Compose(p, r, Len(s)), Len(s))
         /\ InOrder(q, k, StableSort(q, s, Criteria(q)[k]), Len(s))
<1> DEFINE c == Criteria(q)[k]
           t == StableSort(q, s, c)
<1> HIDE DEF t
<1>0. PICK n \in Nat : n = Len(s) /\ DOMAIN s = 1 .. n
  OBVIOUS
<1> DEFINE key == [i \in 1 .. n |-> SortKey(q, s[i], c)]
<1>1. PICK r : Arranges(t, s, r, n) /\ Ordering(key, r, n)
  <2>1. \E r : /\ Arranges(StableSort(q, s, c), s, r, Len(s))
               /\ Ordering([i \in 1 .. Len(s) |-> SortKey(q, s[i], c)], r, Len(s))
    BY SortArranges, Zenon
  <2> QED
    BY <1>0, <2>1 DEF t
<1>2. \A i, j \in 1 .. n : /\ key[i] \in Int /\ key[j] \in Int
                           /\ Before(q, s[i], s[j], c) <=> key[i] < key[j]
  <2>1. ASSUME NEW i \in 1 .. n, NEW j \in 1 .. n
        PROVE /\ SortKey(q, s[i], c) \in Int /\ SortKey(q, s[j], c) \in Int
              /\ (Before(q, s[i], s[j], c) <=> SortKey(q, s[i], c) < SortKey(q, s[j], c))
    <3>1. RankOf(q, s[i], c) \in Int /\ RankOf(q, s[j], c) \in Int
      BY <1>0 DEF Ranked
    <3> HIDE DEF c
    <3> QED
      BY <3>1, BeforeIs
  <2> HIDE DEF c
  <2> QED
    BY <2>1
<1> HIDE DEF key
<1>3. ASSUME NEW a \in 1 .. n, NEW b \in 1 .. n, a < b, AheadFrom(q, k, t[b], t[a])  PROVE FALSE
  <2>1. /\ r[a] \in 1 .. n /\ r[b] \in 1 .. n /\ t[a] = s[r[a]] /\ t[b] = s[r[b]]
        /\ key[r[a]] < key[r[b]] \/ (key[r[a]] = key[r[b]] /\ r[a] < r[b])
    BY <1>1, <1>3 DEF Arranges, Permutes, Ordering
  <2>2. /\ ~Before(q, t[b], t[a], c)
        /\ Before(q, t[a], t[b], c) \/ (~Before(q, t[a], t[b], c) /\ r[a] < r[b])
    <3> DEFINE x == key[r[a]]
               y == key[r[b]]
    <3>1. /\ x \in Int /\ y \in Int /\ (x < y \/ (x = y /\ r[a] < r[b]))
          /\ Before(q, t[a], t[b], c) <=> x < y
          /\ Before(q, t[b], t[a], c) <=> y < x
      BY <1>2, <2>1, Zenon
    <3> HIDE DEF x, y
    <3> QED
      BY <3>1
  <2>3. PICK i \in k .. L : /\ Before(q, t[b], t[a], Criteria(q)[i])
                            /\ \A j \in k .. i - 1 : ~Before(q, t[a], t[b], Criteria(q)[j])
    BY <1>3 DEF AheadFrom
  <2>4. i # k
    BY <2>2, <2>3
  <2>5. k \in k .. i - 1 /\ i \in k + 1 .. L /\ \A j \in k + 1 .. i - 1 : j \in k .. i - 1
    BY <2>4
  <2>6. ~Before(q, t[a], t[b], c)
    BY <2>3, <2>5
  <2>7. AheadFrom(q, k + 1, s[r[b]], s[r[a]])
    BY <2>1, <2>3, <2>5 DEF AheadFrom
  <2> QED
    BY <1>0, <2>1, <2>2, <2>6, <2>7 DEF InOrder
<1>4. ASSUME NEW a \in 1 .. n, NEW b \in 1 .. n, a < b
      PROVE  AheadFrom(q, k, t[a], t[b]) \/ Compose(p, r, n)[a] < Compose(p, r, n)[b]
  <2>1. /\ r[a] \in 1 .. n /\ r[b] \in 1 .. n /\ t[a] = s[r[a]] /\ t[b] = s[r[b]]
        /\ key[r[a]] < key[r[b]] \/ (key[r[a]] = key[r[b]] /\ r[a] < r[b])
    BY <1>1, <1>4 DEF Arranges, Permutes, Ordering
  <2>2. Compose(p, r, n)[a] = p[r[a]] /\ Compose(p, r, n)[b] = p[r[b]]
    BY DEF Compose
  <2>3. CASE key[r[a]] < key[r[b]]
    <3>1. Before(q, t[a], t[b], c)
      BY <1>2, <2>1, <2>3
    <3>2. k \in k .. L /\ k .. k - 1 = {}
      OBVIOUS
    <3> QED
      BY <3>1, <3>2 DEF AheadFrom
  <2>4. CASE key[r[a]] = key[r[b]] /\ r[a] < r[b]
    <3>1. ~Before(q, t[b], t[a], c)
      BY <1>2, <2>1, <2>4
    <3>2. AheadFrom(q, k + 1, t[a], t[b]) \/ p[r[a]] < p[r[b]]
      BY <1>0, <2>1, <2>4 DEF Follows
    <3>3. ASSUME AheadFrom(q, k + 1, t[a], t[b])  PROVE AheadFrom(q, k, t[a], t[b])
      <4>1. PICK i \in k + 1 .. L : /\ Before(q, t[a], t[b], Criteria(q)[i])
                                    /\ \A j \in k + 1 .. i - 1 : ~Before(q, t[b], t[a], Criteria(q)[j])
        BY <3>3 DEF AheadFrom
      <4>2. i \in k .. L /\ \A j \in k .. i - 1 : j = k \/ j \in k + 1 .. i - 1
        BY <4>1
      <4>3. \A j \in k .. i - 1 : ~Before(q, t[b], t[a], Criteria(q)[j])
        BY <3>1, <4>1, <4>2
      <4> QED
        BY <4>1, <4>2, <4>3 DEF AheadFrom
    <3> QED
      BY <2>2, <3>2, <3>3
  <2> QED
    BY <2>1, <2>3, <2>4
<1>5. Follows(q, k, t, Compose(p, r, n), n)
  BY <1>4 DEF Follows
<1> QED
  BY <1>0, <1>1, <1>3, <1>5 DEF t, InOrder

\* Sorts applied from the last criterion to the first: the first dominates.
LEMMA OrderSorts ==
  ASSUME NEW q, Len(Criteria(q)) \in Nat, NEW R, NEW rows \in Seq(R),
         \A k \in 1 .. Len(Criteria(q)) : Ranked(q, rows, Criteria(q)[k])
  PROVE  /\ \E p : /\ Arranges(Ordered(q, rows), rows, p, Len(rows))
                  /\ Follows(q, 1, Ordered(q, rows), p, Len(rows))
         /\ InOrder(q, 1, Ordered(q, rows), Len(rows))
<1>0. PICK n \in Nat : n = Len(rows) /\ DOMAIN rows = 1 .. n
  OBVIOUS
<1>1. PICK L \in Nat : L = Len(Criteria(q))
  OBVIOUS
<1>2. PICK h : Steps(h, q, rows) /\ Keeps(h, R, L, n)
  BY <1>0, <1>1, OrderIs
<1> DEFINE Is(i, p) == Arranges(h[i], rows, p, n) /\ Follows(q, L + 1 - i, h[i], p, n)
           P == {i \in 0 .. L : (\E p : Is(i, p)) /\ InOrder(q, L + 1 - i, h[i], n)}
<1>3. 0 \in P
  <2> DEFINE p == [a \in 1 .. n |-> a]
  <2>1. Permutes(p, n) /\ \A a \in 1 .. n : p[a] = a
    BY DEF Permutes
  <2> HIDE DEF p
  <2>2. h[0] = rows
    BY <1>2 DEF Steps
  <2>3. Is(0, p)
    BY <2>1, <2>2 DEF Arranges, Follows
  <2>4. InOrder(q, L + 1 - 0, h[0], n)
    BY <1>1 DEF InOrder, AheadFrom
  <2> HIDE DEF Is
  <2> QED
    BY <2>3, <2>4
<1>4. ASSUME NEW i \in 1 .. L, i - 1 \in P  PROVE i \in P
  <2> DEFINE k == L + 1 - i
             s == h[i - 1]
  <2>1. k \in 1 .. L /\ L + 1 - (i - 1) = k + 1
    BY <1>1
  <2>2. PICK p : Arranges(s, rows, p, n) /\ Follows(q, k + 1, s, p, n)
    BY <1>4, <2>1
  <2>3. InOrder(q, k + 1, s, n)
    BY <1>4, <2>1
  <2>4. s \in Seq(R) /\ Len(s) = n /\ DOMAIN s = 1 .. n
    BY <1>2 DEF Keeps
  <2>5. h[i] = StableSort(q, s, Criteria(q)[k])
    BY <1>1, <1>2 DEF Steps
  <2> HIDE DEF k, s
  <2>6. Ranked(q, s, Criteria(q)[k])
    <3>1. Ranked(q, rows, Criteria(q)[k])
      BY <1>1, <2>1
    <3>2. \A a \in 1 .. n : s[a] = rows[p[a]] /\ p[a] \in 1 .. n
      BY <2>2 DEF Arranges, Permutes
    <3> QED
      BY <1>0, <2>4, <3>1, <3>2 DEF Ranked
  <2>7. /\ \E r : Arranges(h[i], s, r, n) /\ Follows(q, k, h[i], Compose(p, r, n), n)
        /\ InOrder(q, k, h[i], n)
    <3>1. /\ \E r : /\ Arranges(StableSort(q, s, Criteria(q)[k]), s, r, Len(s))
                   /\ Follows(q, k, StableSort(q, s, Criteria(q)[k]), Compose(p, r, Len(s)), Len(s))
          /\ InOrder(q, k, StableSort(q, s, Criteria(q)[k]), Len(s))
      BY <1>1, <2>1, <2>2, <2>3, <2>4, <2>6, SortRefines
    <3> QED
      BY <2>4, <2>5, <3>1, Zenon
  <2>8. PICK r : Arranges(h[i], s, r, n) /\ Follows(q, k, h[i], Compose(p, r, n), n)
    BY <2>7
  <2>9. Is(i, Compose(p, r, n))
    <3>1. /\ Permutes(Compose(p, r, n), n)
          /\ \A a \in 1 .. n : Compose(p, r, n)[a] = p[r[a]] /\ r[a] \in 1 .. n
      BY <2>2, <2>8, ComposePermutes DEF Arranges
    <3>2. \A a \in 1 .. n : h[i][a] = s[r[a]]
      BY <2>8 DEF Arranges
    <3>3. \A a \in 1 .. n : s[a] = rows[p[a]]
      BY <2>2 DEF Arranges
    <3>4. ASSUME NEW a \in 1 .. n  PROVE h[i][a] = rows[Compose(p, r, n)[a]]
      <4>1. r[a] \in 1 .. n /\ Compose(p, r, n)[a] = p[r[a]]
        BY <3>1
      <4>2. h[i][a] = s[r[a]] /\ s[r[a]] = rows[p[r[a]]]
        BY <3>2, <3>3, <4>1, Zenon
      <4> QED
        BY <4>1, <4>2, Zenon
    <3>5. Arranges(h[i], rows, Compose(p, r, n), n)
      BY <3>1, <3>4, Zenon DEF Arranges
    <3> QED
      BY <2>8, <3>5, Zenon DEF k
  <2> HIDE DEF Is
  <2> QED
    BY <2>7, <2>9 DEF k
<1>5. \A i \in 0 .. L : i \in P
  <2> HIDE DEF P
  <2> QED
    BY <1>3, <1>4, Climb
<1>6. Ordered(q, rows) = h[L]
  BY <1>1, <1>2 DEF Steps
<1>7. (\E p : Is(L, p)) /\ InOrder(q, 1, h[L], n)
  <2>1. L \in P /\ L + 1 - L = 1
    BY <1>5
  <2> HIDE DEF Is
  <2> QED
    BY <2>1
<1> QED
  BY <1>0, <1>6, <1>7

(***************************************************************************)
(* Rows and pages                                                           *)
(***************************************************************************)
LEMMA SpineIsList ==
  ASSUME NEW q, NEW n \in Nat, DOMAIN q.ranges = 1 .. n,
         \A r \in DOMAIN q.ranges : q.ranges[r].start \in Int /\ q.ranges[r].end \in Int
  PROVE  \E S : Spine(q) \in Seq(S)
<1> DEFINE Dims(d) == [k \in DOMAIN q.dimensions |-> FromDate(q.dimensions[k], d)]
           Row(r, i) == [dims |-> Dims(DaysOf(q.ranges[r])[i]), range |-> q.ranges[r].name]
           Rows(r) == [i \in DOMAIN DaysOf(q.ranges[r]) |-> Row(r, i)]
           seqs == [r \in DOMAIN q.ranges |-> Rows(r)]
           S == UNION {{Row(r, i) : i \in DOMAIN DaysOf(q.ranges[r])} : r \in 1 .. n}
<1>1. Spine(q) = FlattenSeq(seqs)
  BY DEF Spine
<1> HIDE DEF Row
<1>2. ASSUME NEW r \in 1 .. n  PROVE Rows(r) \in Seq(S)
  <2> DEFINE m == q.ranges[r].end - q.ranges[r].start + 1
             f == Rows(r)
  <2>1. m \in Int /\ DOMAIN DaysOf(q.ranges[r]) = 1 .. m
    BY DEF DaysOf
  <2>2. DOMAIN f = 1 .. m /\ f = [i \in 1 .. m |-> f[i]]
    BY <2>1
  <2>3. ASSUME NEW i \in 1 .. m  PROVE f[i] \in S
    <3>1. i \in DOMAIN DaysOf(q.ranges[r])
      BY <2>1, Zenon
    <3>2. f[i] = Row(r, i)
      BY <3>1
    <3>3. Row(r, i) \in {Row(r, j) : j \in DOMAIN DaysOf(q.ranges[r])}
      BY <3>1
    <3>4. Row(r, i) \in S
      BY <3>3
    <3> QED
      BY <3>2, <3>4, Zenon
  <2> HIDE DEF m, f, S
  <2>4. f \in Seq(S)
    BY <2>1, <2>2, <2>3, ListUpTo
  <2> QED
    BY <2>4 DEF f
<1> HIDE DEF Rows, S
<1>3. seqs \in [1 .. n -> Seq(S)]
  BY <1>2
<1>4. seqs \in Seq(Seq(S))
  BY <1>3
<1> HIDE DEF seqs
<1> QED
  BY <1>1, <1>4, FlattenMembers

LEMMA AllRowsAreList ==
  ASSUME BirthInv, TalesInv, NEW q, NEW n \in Nat, DOMAIN q.ranges = 1 .. n,
         \A r \in DOMAIN q.ranges : q.ranges[r].start \in Int /\ q.ranges[r].end \in Int
  PROVE  \E S : AllRows(q) \in Seq(S)
<1> DEFINE collected == Collected(q)
           found     == [i \in DOMAIN collected |-> KeyOfUnit(collected[i])]
           all       == IF Synthesized(q) THEN found \o Spine(q) ELSE found
           keys      == Inserted(all)
           Acc(k)    == Accumulated(q, Picked(collected, {j \in DOMAIN collected : KeyOfUnit(collected[j]) = k}))
           Row(i)    == [dims |-> keys[i].dims, range |-> keys[i].range, values |-> Metrics(Acc(keys[i]))]
<1>1. AllRows(q) = [i \in DOMAIN keys |-> Row(i)]
  BY DEF AllRows, ComputedRows, GroupKeys
<1>2. PICK S : collected \in Seq(S)
  BY CollectedAre
<1>3. PICK T : Spine(q) \in Seq(T)
  BY SpineIsList
<1> HIDE DEF collected
<1> DEFINE K == {KeyOfUnit(collected[i]) : i \in DOMAIN collected} \cup T
<1>4. found \in Seq(K) /\ Spine(q) \in Seq(K)
  <2>1. PICK m \in Nat : DOMAIN collected = 1 .. m
    BY <1>2
  <2>2. \A i \in 1 .. m : KeyOfUnit(collected[i]) \in K
    BY <2>1
  <2>3. T \subseteq K
    OBVIOUS
  <2> HIDE DEF K
  <2>4. found \in [1 .. m -> K]
    BY <2>1, <2>2
  <2> QED
    BY <1>3, <2>3, <2>4
<1> HIDE DEF found, K
<1>5. all \in Seq(K)
  BY <1>4
<1> HIDE DEF all
<1>6. keys \in Seq(K)
  BY <1>5, PickedMembers DEF Inserted
<1> HIDE DEF keys, Row
<1>7. PICK m \in Nat : DOMAIN keys = 1 .. m
  BY <1>6
<1> DEFINE R == {Row(i) : i \in 1 .. m}
<1>8. AllRows(q) \in Seq(R)
  <2>1. \A i \in 1 .. m : Row(i) \in R
    OBVIOUS
  <2> HIDE DEF R
  <2>2. AllRows(q) \in [1 .. m -> R]
    BY <1>1, <1>7, <2>1
  <2> QED
    BY <2>2
<1> QED
  BY <1>8

LEMMA CriteriaAreList ==
  ASSUME NEW b \in Accepted
  PROVE  Len(Criteria(Queries[b])) \in Nat
<1> DEFINE q == Queries[b]
<1>1. /\ Len(q.orderBys) \in Nat
      /\ q.metrics \in Seq(STRING) /\ q.dimensions \in Seq(STRING)
  BY QueryIs, BodiesAssumption DEF IsList
<1> HIDE DEF q
<1>2. CASE q.orderBys # <<>>
  BY <1>1, <1>2 DEF Criteria, q
<1>3. CASE q.orderBys = <<>>
  <2> DEFINE A == IF q.metrics = <<>> THEN <<>> ELSE <<Criterion(q.metrics[1], Absent, TRUE, "")>>
             D(k) == Criterion(Absent, q.dimensions[k], FALSE, "ALPHANUMERIC")
             B == [k \in DOMAIN q.dimensions |-> D(k)]
             C == << Criterion(Absent, DIMENSION_RANGE, FALSE, "") >>
  <2>1. Criteria(q) = A \o B \o C
    BY <1>3 DEF Criteria
  <2>2. \E U : A \in Seq(U)
    <3> DEFINE c == Criterion(q.metrics[1], Absent, TRUE, "")
    <3> HIDE DEF c
    <3>1. <<c>> \in Seq({c}) /\ <<>> \in Seq({c})
      OBVIOUS
    <3>2. A \in Seq({c})
      BY <3>1 DEF c
    <3> HIDE DEF A
    <3> QED
      BY <3>2
  <2>3. \E U : C \in Seq(U)
    <3>1. C \in Seq({Criterion(Absent, DIMENSION_RANGE, FALSE, "")})
      BY DEF Criterion
    <3> QED
      BY <3>1
  <2>4. \E U : B \in Seq(U)
    <3> HIDE DEF D
    <3>1. PICK m \in Nat : DOMAIN q.dimensions = 1 .. m
      BY <1>1
    <3> DEFINE U == {D(k) : k \in 1 .. m}
    <3>2. \A k \in 1 .. m : D(k) \in U
      OBVIOUS
    <3> HIDE DEF U
    <3>3. B \in [1 .. m -> U]
      BY <3>1, <3>2
    <3> HIDE DEF B
    <3>4. B \in Seq(U)
      BY <3>3
    <3> QED
      BY <3>4
  <2> HIDE DEF A, B, C
  <2>5. PICK U : A \in Seq(U)
    BY <2>2
  <2>6. PICK V : B \in Seq(V)
    BY <2>4
  <2>7. PICK W : C \in Seq(W)
    BY <2>3
  <2>8. Len(A \o B \o C) \in Nat
    BY <2>5, <2>6, <2>7
  <2> QED
    BY <2>1, <2>8 DEF q
<1> QED
  BY <1>2, <1>3

LEMMA FinalRowsAreList ==
  ASSUME BirthInv, TalesInv, NEW b \in Accepted
  PROVE  \E S : FinalRows(Queries[b]) \in Seq(S)
<1> DEFINE q == Queries[b]
<1>1. PICK n \in Nat : DOMAIN q.ranges = 1 .. n
  BY RangesAre
<1>2. \A r \in DOMAIN q.ranges : q.ranges[r].start \in Int /\ q.ranges[r].end \in Int
  BY RangesAre
<1>3. Len(Criteria(q)) \in Nat
  BY CriteriaAreList
<1> HIDE DEF q
<1>4. PICK S : AllRows(q) \in Seq(S)
  BY <1>1, <1>2, AllRowsAreList
<1>5. Having(q, AllRows(q)) \in Seq(S)
  BY <1>4, PickedMembers DEF Having
<1>6. Ordered(q, Having(q, AllRows(q))) \in Seq(S)
  BY <1>3, <1>5, OrderIs
<1> QED
  BY <1>6 DEF FinalRows, q

RowsInv == Served => (\E S : reply.rows \in Seq(S)) /\ reply.rowCount = Len(reply.rows)

LEMMA RowsStep == BirthInv /\ TalesInv /\ RowsInv /\ [Next]_rvars => RowsInv'
<1> SUFFICES ASSUME BirthInv, TalesInv, RowsInv, [Next]_rvars PROVE RowsInv'
  OBVIOUS
<1>1. CASE reply' = reply
  BY <1>1 DEF RowsInv, Served
<1>2. ASSUME NEW i \in DOMAIN Bodies, Refuse(i) \/ OverQuota(i) \/ Fail(i)  PROVE RowsInv'
  <2>1. reply'.status # 200
    BY <1>2 DEF Refuse, OverQuota, Fail, Failure, Answer
  <2> QED
    BY <2>1 DEF RowsInv, Served
<1>3. ASSUME NEW i \in DOMAIN Bodies, Serve(i)  PROVE RowsInv'
  <2>1. /\ i \in Accepted /\ reply'.rows = FinalRows(Queries[i])
        /\ reply'.rowCount = Len(FinalRows(Queries[i]))
    BY <1>3, Zenon DEF Serve, Result, Answer
  <2> QED
    BY <2>1, FinalRowsAreList DEF RowsInv
<1>4. CASE Read
  <2>1. reply'.status # 200
    BY <1>4 DEF Read, NoReply, Failure, Answer
  <2> QED
    BY <2>1 DEF RowsInv, Served
<1> QED
  BY <1>1, <1>2, <1>3, <1>4 DEF Next, rvars

\* Where the k-th page of L rows ends.
EndOf(k, L, n) == Min({k * L, n})

LEMMA EndsAre ==
  ASSUME NEW n \in Nat, NEW L \in Nat \ {0}, NEW K \in Nat,
         K * L >= n, K > 0 => (K - 1) * L < n
  PROVE  /\ \A k \in 0 .. K : EndOf(k, L, n) \in 0 .. n
         /\ \A k \in 1 .. K : /\ EndOf(k - 1, L, n) = (k - 1) * L /\ (k - 1) * L + L = k * L
                              /\ EndOf(k - 1, L, n) <= EndOf(k, L, n)
         /\ EndOf(0, L, n) = 0 /\ EndOf(K, L, n) = n
<1>1. ASSUME NEW k \in 0 .. K
      PROVE  k * L \in Nat /\ EndOf(k, L, n) = IF k * L <= n THEN k * L ELSE n
  <2>1. k * L \in Nat
    OBVIOUS
  <2> QED
    BY <2>1, MinOfTwo DEF EndOf
<1>2. ASSUME NEW k \in 1 .. K
      PROVE  (k - 1) * L <= n /\ (k - 1) * L + L = k * L
  <2>1. PICK i \in Nat, j \in Nat : i = k - 1 /\ j = K - 1 /\ i <= j
    OBVIOUS
  <2>2. i * L <= j * L /\ i * L \in Nat /\ j * L \in Nat
    BY <2>1
  <2>3. j * L < n
    BY <2>1
  <2>4. i * L <= n
    BY <2>2, <2>3
  <2>5. (i + 1) * L = i * L + L
    OBVIOUS
  <2>6. i + 1 = k
    BY <2>1
  <2> QED
    BY <2>1, <2>4, <2>5, <2>6
<1>3. ASSUME NEW k \in 0 .. K  PROVE EndOf(k, L, n) \in 0 .. n
  BY <1>1
<1>4. EndOf(0, L, n) = 0
  <2>1. 0 \in 0 .. K /\ 0 * L = 0
    OBVIOUS
  <2> QED
    BY <1>1, <2>1
<1>5. EndOf(K, L, n) = n
  <2>1. K \in 0 .. K
    OBVIOUS
  <2>2. EndOf(K, L, n) = IF K * L <= n THEN K * L ELSE n
    BY <1>1, <2>1
  <2>3. K * L \in Nat
    OBVIOUS
  <2> QED
    BY <2>2, <2>3
<1>6. ASSUME NEW k \in 1 .. K
      PROVE  /\ EndOf(k - 1, L, n) = (k - 1) * L /\ (k - 1) * L + L = k * L
             /\ EndOf(k - 1, L, n) <= EndOf(k, L, n)
  <2>1. k - 1 \in 0 .. K /\ k \in 0 .. K
    OBVIOUS
  <2>2. EndOf(k - 1, L, n) = (k - 1) * L /\ (k - 1) * L \in Nat
    BY <1>1, <1>2, <2>1
  <2>3. k * L \in Nat /\ EndOf(k, L, n) = IF k * L <= n THEN k * L ELSE n
    BY <1>1, <2>1
  <2>4. (k - 1) * L <= n /\ (k - 1) * L + L = k * L
    BY <1>2
  <2> DEFINE X == (k - 1) * L
             Y == k * L
  <2> HIDE DEF X, Y
  <2>5. X \in Nat /\ Y \in Nat /\ X <= n /\ X + L = Y
    BY <2>2, <2>3, <2>4 DEF X, Y
  <2>6. EndOf(k - 1, L, n) = X /\ EndOf(k, L, n) = IF Y <= n THEN Y ELSE n
    BY <2>2, <2>3 DEF X, Y
  <2>7. EndOf(k - 1, L, n) <= EndOf(k, L, n)
    BY <2>5, <2>6
  <2> QED
    BY <2>2, <2>4, <2>7
<1> QED
  BY <1>3, <1>4, <1>5, <1>6

\* The pages of L rows, from the first to the K-th.
Paged(seqs, rows, L, K) ==
  /\ DOMAIN seqs = 1 .. K /\ seqs = [k \in DOMAIN seqs |-> seqs[k]]
  /\ \A k \in 1 .. K :
       seqs[k] = SubSeq(rows, (k - 1) * L + 1, Min({(k - 1) * L + L, Len(rows)}))

LEMMA PagesMakeTheList ==
  ASSUME NEW S, NEW rows \in Seq(S), NEW L \in Nat \ {0}, NEW K \in Nat,
         K * L >= Len(rows), K > 0 => (K - 1) * L < Len(rows),
         NEW seqs, Paged(seqs, rows, L, K)
  PROVE  FlattenSeq(seqs) = rows
<1>0. PICK n \in Nat : n = Len(rows)
  OBVIOUS
<1> DEFINE End(k) == EndOf(k, L, n)
<1>1. /\ \A k \in 0 .. K : End(k) \in 0 .. n
      /\ \A k \in 1 .. K : /\ End(k - 1) = (k - 1) * L /\ (k - 1) * L + L = k * L
                           /\ End(k - 1) <= End(k)
      /\ End(0) = 0 /\ End(K) = n
  <2>1. K * L >= n /\ (K > 0 => (K - 1) * L < n)
    BY <1>0, Zenon
  <2> QED
    BY <2>1, EndsAre, Zenon
<1>2. ASSUME NEW k \in 1 .. K
      PROVE  seqs[k] = SubSeq(rows, End(k - 1) + 1, End(k))
  <2>1. seqs[k] = SubSeq(rows, (k - 1) * L + 1, Min({(k - 1) * L + L, n}))
    BY <1>0 DEF Paged
  <2>2. (k - 1) * L + L = k * L /\ End(k - 1) = (k - 1) * L
    BY <1>1
  <2> QED
    BY <2>1, <2>2 DEF EndOf
<1> HIDE DEF End
<1>3. seqs \in Seq(Seq(S)) /\ Len(seqs) = K
  <2>1. ASSUME NEW k \in 1 .. K  PROVE seqs[k] \in Seq(S)
    <3>1. k - 1 \in 0 .. K /\ k \in 0 .. K
      OBVIOUS
    <3>2. End(k - 1) + 1 \in Int /\ End(k) \in Int
      BY <1>1, <3>1
    <3>3. \A i \in End(k - 1) + 1 .. End(k) : rows[i] \in S
      BY <1>0, <1>1, <3>1
    <3>4. SubSeq(rows, End(k - 1) + 1, End(k)) \in Seq(S)
      BY <3>2, <3>3, SubSeqProperties
    <3> QED
      BY <1>2, <3>4
  <2>0. DOMAIN seqs = 1 .. K /\ seqs = [k \in DOMAIN seqs |-> seqs[k]]
    BY DEF Paged
  <2> DEFINE T == Seq(S)
  <2> HIDE DEF T
  <2>2. seqs \in [1 .. K -> T]
    BY <2>0, <2>1 DEF T
  <2>3. seqs \in Seq(T) /\ Len(seqs) = K
    BY <2>2
  <2> QED
    BY <2>3 DEF T
<1>4. PICK f \in [0 .. K -> Seq(S)] :
        /\ f[0] = <<>> /\ FlattenSeq(seqs) = f[K]
        /\ \A k \in 1 .. K : f[k] = f[k - 1] \o seqs[k]
  <2>1. \E f \in [0 .. Len(seqs) -> Seq(S)] :
          /\ f[0] = <<>> /\ FlattenSeq(seqs) = f[Len(seqs)]
          /\ \A k \in 1 .. Len(seqs) : f[k] = f[k - 1] \o seqs[k]
    BY <1>3, FlattenIs
  <2> QED
    BY <1>3, <2>1
<1> DEFINE P == {k \in 0 .. K : f[k] = SubSeq(rows, 1, End(k))}
<1>5. \A k \in 0 .. K : k \in P
  <2>1. 0 \in P
    <3>1. SubSeq(rows, 1, 0) = <<>>
      BY SubSeqEmpty
    <3> QED
      BY <1>1, <1>4, <3>1
  <2>2. ASSUME NEW k \in 1 .. K, k - 1 \in P  PROVE k \in P
    <3>0. k \in 0 .. K /\ k - 1 \in 0 .. K
      OBVIOUS
    <3>1. f[k] = SubSeq(rows, 1, End(k - 1)) \o SubSeq(rows, End(k - 1) + 1, End(k))
      BY <1>2, <1>4, <2>2
    <3>2. /\ 1 \in 1 .. Len(rows) + 1 /\ End(k - 1) \in 1 - 1 .. Len(rows)
          /\ End(k) \in End(k - 1) .. Len(rows)
      BY <1>0, <1>1, <3>0
    <3>3. SubSeq(rows, 1, End(k - 1)) \o SubSeq(rows, End(k - 1) + 1, End(k)) = SubSeq(rows, 1, End(k))
      BY <3>2, ConcatAdjacentSubSeq
    <3> QED
      BY <3>0, <3>1, <3>3
  <2> HIDE DEF P
  <2> QED
    BY <2>1, <2>2, Climb
<1>6. f[K] = SubSeq(rows, 1, n)
  BY <1>1, <1>5
<1>7. SubSeq(rows, 1, n) = rows
  BY <1>0, SubSeqFull
<1> QED
  BY <1>4, <1>6, <1>7

LEMMA LimitsAre ==
  ASSUME NEW b \in Accepted
  PROVE  /\ Queries[b].limit \in 1 .. MAX_LIMIT /\ Queries[b].offset \in Nat
         /\ DOMAIN Queries[b] = DOMAIN Query(Bodies[b])
         /\ "offset" \in DOMAIN Queries[b]
<1> DEFINE body == Bodies[b]
<1>1. /\ Queries[b] = Query(body) /\ Passes(body)
      /\ body.limit.value \in Int /\ body.offset.value \in Int
  BY QueryIs, BodiesAssumption
<1>2. ASSUME NEW k \in {4, 5}, NEW raw, Checks(body)[k] = Int64Checks(raw)
      PROVE  raw.value >= 0
  <2>1. \A check \in ToSet(Int64Checks(raw)) : check.passes
    BY <1>1, <1>2, StagesPass
  <2>2. Check(raw.value >= 0, "must be positive") \in ToSet(Int64Checks(raw))
    <3> DEFINE A == Check(raw.ok, "invalid value")
               B == Check(raw.value >= 0, "must be positive")
    <3>1. Int64Checks(raw) = <<A, B>>
      BY DEF Int64Checks
    <3> HIDE DEF A, B
    <3>2. B \in ToSet(<<A, B>>)
      BY DEF ToSet
    <3> QED
      BY <3>1, <3>2 DEF B
  <2>3. Check(raw.value >= 0, "must be positive").passes = (raw.value >= 0)
    BY DEF Check
  <2> QED
    BY <2>1, <2>2, <2>3
<1>3. Checks(body)[4] = Int64Checks(body.limit)
  BY DEF Checks
<1>4. Checks(body)[5] = Int64Checks(body.offset)
  BY DEF Checks
<1>5. body.limit.value >= 0 /\ body.offset.value >= 0
  BY <1>2, <1>3, <1>4
<1> HIDE DEF body
<1>6. /\ Query(body).limit = (IF body.limit.value = 0 THEN DEFAULT_LIMIT
                              ELSE Min({body.limit.value, MAX_LIMIT}))
      /\ Query(body).offset = body.offset.value
      /\ "offset" \in DOMAIN Query(body)
  BY Zenon DEF Query
<1>7. Query(body).limit \in 1 .. MAX_LIMIT
  BY <1>1, <1>5, <1>6, MinOfTwo, LimitAssumption
<1> QED
  BY <1>1, <1>5, <1>6, <1>7 DEF body

LEMMA PagesFollow == ServedInv /\ RowsInv => PagesPartition
<1> SUFFICES ASSUME ServedInv, RowsInv, Served PROVE PagesPartition
  BY DEF PagesPartition
<1> DEFINE rows == reply.rows
           L == Q.limit
           K == (reply.rowCount + L - 1) \div L
           page(k) == Page([Q EXCEPT !.offset = (k - 1) * L], rows)
           seqs == [k \in 1 .. K |-> page(k)]
<1>1. PICK S : rows \in Seq(S) /\ reply.rowCount = Len(rows)
  BY DEF RowsInv
<1>2. L \in Nat \ {0} /\ "offset" \in DOMAIN Q
  <2>1. reply.body \in Accepted
    BY DEF ServedInv
  <2> QED
    BY <2>1, LimitsAre, LimitAssumption DEF Q
<1> HIDE DEF rows, L
<1>3. ASSUME NEW k \in Nat
      PROVE  page(k) = SubSeq(rows, (k - 1) * L + 1, Min({(k - 1) * L + L, Len(rows)}))
  <2>1. /\ [Q EXCEPT !.offset = (k - 1) * L].offset = (k - 1) * L
        /\ [Q EXCEPT !.offset = (k - 1) * L].limit = L
    BY <1>2 DEF L
  <2> QED
    BY <2>1 DEF Page
<1> HIDE DEF page
<1>4. K \in Nat /\ K * L >= Len(rows) /\ (K > 0 => (K - 1) * L < Len(rows))
  <2> DEFINE X == Len(rows) + L - 1
             Y == X \div L
  <2>0. Len(rows) \in Nat
    BY <1>1
  <2>1. X \in Nat
    BY <1>2, <2>0
  <2> HIDE DEF X
  <2>2. Y \in Nat /\ L * Y <= X /\ X < L * (Y + 1)
    BY <1>2, <2>1
  <2> HIDE DEF Y
  <2>3. L * (Y + 1) = L * Y + L /\ Y * L = L * Y /\ L * Y \in Int
    BY <1>2, <2>2
  <2>4. Y > 0 => (Y - 1) * L = L * Y - L
    BY <1>2, <2>2
  <2>5. K = Y
    BY <1>1 DEF X, Y
  <2> HIDE DEF K
  <2> QED
    BY <1>2, <2>0, <2>2, <2>3, <2>4, <2>5 DEF X
<1> HIDE DEF K
<1>5. /\ DOMAIN seqs = 1 .. K /\ seqs = [k \in DOMAIN seqs |-> seqs[k]]
      /\ \A k \in 1 .. K : seqs[k] = page(k)
  OBVIOUS
<1> HIDE DEF seqs
<1>7. \A k \in 1 .. K :
        seqs[k] = SubSeq(rows, (k - 1) * L + 1, Min({(k - 1) * L + L, Len(rows)}))
  <2>1. ASSUME NEW k \in 1 .. K
        PROVE  seqs[k] = SubSeq(rows, (k - 1) * L + 1, Min({(k - 1) * L + L, Len(rows)}))
    <3>1. k \in Nat
      BY <1>4
    <3>2. page(k) = SubSeq(rows, (k - 1) * L + 1, Min({(k - 1) * L + L, Len(rows)}))
      BY <1>3, <3>1
    <3> QED
      BY <1>5, <3>2
  <2> QED
    BY <2>1
<1>6. FlattenSeq(seqs) = rows
  <2>1. Paged(seqs, rows, L, K)
    BY <1>5, <1>7 DEF Paged
  <2> QED
    BY <1>1, <1>2, <1>4, <2>1, PagesMakeTheList
<1> QED
  BY <1>6 DEF PagesPartition, seqs, K, page, rows, L

\* A client that follows its pages reads every row once, in order, and stops,
\* whatever the world, the query and the limit.
THEOREM PagesAreAPartition == Spec => []PagesPartition
<1> DEFINE Inv == BirthInv /\ TalesInv /\ ServedInv /\ RowsInv
<1>1. Init => Inv
  <2> SUFFICES ASSUME Init PROVE Inv
    OBVIOUS
  <2>1. BirthInv
    BY BirthInit DEF Init
  <2>2. Len(world) = 0
    BY DEF Init, GInit
  <2>3. TalesInv
    BY <2>2 DEF TalesInv
  <2>4. ~Served
    BY DEF Init, NoReply, Failure, Answer, Served
  <2> QED
    BY <2>1, <2>3, <2>4 DEF ServedInv, RowsInv
<1>2. Inv /\ [Next]_rvars => Inv'
  BY BirthStep, TalesStep, ServedStep, RowsStep
<1>3. Inv => PagesPartition
  BY PagesFollow
<1> QED
  BY <1>1, <1>2, <1>3, PTL DEF Spec

(***************************************************************************)
(* Types                                                                    *)
(***************************************************************************)
LEMMA VarietyIsNat ==
  ASSUME NEW c, NEW v \in Visits(c)
  PROVE  Variety(v, c) \in Nat
<1>1. Len(v.pages) - 1 \in Nat /\ v.scrolls \in Nat
  BY VisitIs
<1>2. ASSUME NEW x \in Nat, NEW cond  PROVE x + One(cond) \in Nat
  BY DEF One
<1> DEFINE a == Len(v.pages) - 1 + v.scrolls
           b == a + One(v.system # Systems[1])
           d == b + One(v.stay.duration = 20)
           e == d + One(v.lead)
           f == e + One(v.job)
           last == c = 0 /\ (v.pages[1] # HOME_PAGE \/ v.acquisition.channel # OrganicMix[1].channel)
<1>3. Variety(v, c) = f + One(last)
  BY DEF Variety
<1>4. a \in Nat
  BY <1>1
<1> HIDE DEF a
<1>5. b \in Nat
  BY <1>2, <1>4
<1> HIDE DEF b
<1>6. d \in Nat
  BY <1>2, <1>5
<1> HIDE DEF d
<1>7. e \in Nat
  BY <1>2, <1>6
<1> HIDE DEF e
<1>8. f \in Nat
  BY <1>2, <1>7
<1> HIDE DEF f, last
<1> QED
  BY <1>2, <1>3, <1>8

\* The largest of some numbers.
LEMMA LargestOf ==
  ASSUME NEW n \in Nat \ {0}, NEW f, \A i \in 1 .. n : f[i] \in Int
  PROVE  \E i \in 1 .. n : \A j \in 1 .. n : f[j] <= f[i]
<1> DEFINE P == {m \in 0 .. n : m = 0 \/ \E i \in 1 .. m : \A j \in 1 .. m : f[j] <= f[i]}
<1>1. 0 \in P
  OBVIOUS
<1>2. ASSUME NEW m \in 1 .. n, m - 1 \in P  PROVE m \in P
  <2>1. CASE m = 1
    <3>1. \A j \in 1 .. m : f[j] <= f[1]
      BY <2>1
    <3> QED
      BY <2>1, <3>1
  <2>2. CASE m # 1
    <3>1. PICK i \in 1 .. m - 1 : \A j \in 1 .. m - 1 : f[j] <= f[i]
      BY <1>2, <2>2
    <3>2. f[i] \in Int /\ f[m] \in Int /\ \A j \in 1 .. m : j # m => f[j] <= f[i] /\ f[j] \in Int
      BY <3>1
    <3>3. CASE f[m] <= f[i]
      BY <3>2, <3>3
    <3>4. CASE ~(f[m] <= f[i])
      <4>1. \A j \in 1 .. m : f[j] <= f[m]
        BY <3>2, <3>4
      <4> QED
        BY <4>1
    <3> QED
      BY <3>3, <3>4
  <2> QED
    BY <2>1, <2>2
<1>3. n \in P
  <2> HIDE DEF P
  <2> QED
    <3>1. \A m \in 1 .. n : m - 1 \in P => m \in P
      BY <1>2, Zenon
    <3>2. \A m \in 0 .. n : m \in P
      BY <1>1, <3>1, Climb, Zenon
    <3> QED
      BY <3>2
<1> QED
  BY <1>3

LEMMA Glued ==
  ASSUME NEW S, NEW x \in Seq(S), NEW y \in Seq(S)
  PROVE  /\ x \o y \in Seq(S) /\ Len(x \o y) = Len(x) + Len(y)
         /\ \A i \in 1 .. Len(y) : (x \o y)[Len(x) + i] = y[i]
OBVIOUS

LEMMA SevenChecks ==
  ASSUME NEW a, NEW b, NEW c, NEW d, NEW e, NEW f, NEW g
  PROVE  LET s == <<a, b>> \o <<c, d>> \o <<e, f, g>> IN
         s \in Seq({a, b, c, d, e, f, g}) /\ DOMAIN s = 1 .. 7 /\ s[5] = e /\ s[6] = f /\ s[7] = g
<1> DEFINE S == {a, b, c, d, e, f, g}
           x == <<a, b>>
           y == <<c, d>>
           z == <<e, f, g>>
<1>1. x \in Seq(S) /\ y \in Seq(S) /\ z \in Seq(S)
  OBVIOUS
<1>2. Len(x) = 2 /\ Len(y) = 2 /\ Len(z) = 3 /\ z[1] = e /\ z[2] = f /\ z[3] = g
  OBVIOUS
<1> HIDE DEF S, x, y, z
<1>3. PICK w \in Seq(S) : w = x \o y /\ Len(w) = 4
  <2>1. x \o y \in Seq(S) /\ Len(x \o y) = Len(x) + Len(y)
    BY <1>1, Glued, Zenon
  <2>2. Len(x) + Len(y) = 4
    BY <1>2
  <2>3. Len(x \o y) = 4
    BY <2>1, <2>2, Zenon
  <2> QED
    BY <2>1, <2>3, Zenon
<1>4. PICK s \in Seq(S) : s = w \o z /\ Len(s) = 7 /\ s[5] = e /\ s[6] = f /\ s[7] = g
  <2>1. /\ w \o z \in Seq(S) /\ Len(w \o z) = Len(w) + Len(z)
        /\ \A i \in 1 .. Len(z) : (w \o z)[Len(w) + i] = z[i]
    BY <1>1, Glued, Zenon
  <2>2. /\ {1, 2, 3} \subseteq 1 .. Len(z)
        /\ Len(w) + 1 = 5 /\ Len(w) + 2 = 6 /\ Len(w) + 3 = 7
    BY <1>2, <1>3
  <2>3. /\ (w \o z)[Len(w) + 1] = z[1] /\ (w \o z)[Len(w) + 2] = z[2]
        /\ (w \o z)[Len(w) + 3] = z[3]
    BY <2>1, <2>2, Zenon
  <2> QED
    BY <1>2, <1>3, <2>1, <2>2, <2>3
<1>5. s \in Seq(S) /\ DOMAIN s = 1 .. 7 /\ s[5] = e /\ s[6] = f /\ s[7] = g
  <2> HIDE DEF S, x, y, z
  <2>1. s \in Seq(S) /\ Len(s) = 7 /\ s[5] = e /\ s[6] = f /\ s[7] = g
    BY <1>4
  <2>2. DOMAIN s = 1 .. 7
    BY <2>1, SMTT(20)
  <2> QED
    BY <2>1, <2>2, Zenon
<1>6. s = <<a, b>> \o <<c, d>> \o <<e, f, g>>
  BY <1>3, <1>4, Zenon DEF x, y, z
<1> QED
  BY <1>5, <1>6, Zenon DEF S

\* A body that passes has its ranges in order and in bounds, one at least and
\* not too many.
LEMMA RangesPass ==
  ASSUME NEW b \in Accepted
  PROVE  LET raw == Bodies[b].dateRanges IN
         /\ raw # <<>> /\ Len(raw) <= MAX_RANGES
         /\ \A r \in DOMAIN raw : /\ Resolve(raw[r].start) <= Resolve(raw[r].end)
                                 /\ DATE_MIN < Resolve(raw[r].start)
                                 /\ Resolve(raw[r].end) < DATE_MAX
<1> DEFINE body == Bodies[b]
           raw == body.dateRanges
           A(i) == Check(raw[i].start.form # "malformed", "invalid date")
           B(i) == Check(raw[i].start.form = "ago" => Today - raw[i].start.n >= FIRST_DATE, Escapes)
           C(i) == Check(raw[i].end.form # "malformed", "invalid date")
           D(i) == Check(raw[i].end.form = "ago" => Today - raw[i].end.n >= FIRST_DATE, Escapes)
           E(i) == InBounds(raw[i].start)
           F(i) == InBounds(raw[i].end)
           G(i) == Check(Resolve(raw[i].start) <= Resolve(raw[i].end), "reversed range")
           T(i) == <<A(i), B(i)>> \o <<C(i), D(i)>> \o <<E(i), F(i), G(i)>>
           seqs == [i \in DOMAIN raw |-> T(i)]
           S == UNION {{A(i), B(i), C(i), D(i), E(i), F(i), G(i)} : i \in DOMAIN raw}
<1>1. /\ Passes(body) /\ Len(raw) \in Nat /\ DOMAIN raw = 1 .. Len(raw)
  BY QueryIs, BodiesAssumption DEF IsList
<1>2. Checks(body)[6] = RangesNumber(raw)
  BY DEF Checks
<1>3. Checks(body)[7] = RangesChecks(raw)
  BY DEF Checks
<1>4. RangesChecks(raw) = FlattenSeq(seqs)
  BY Zenon DEF RangesChecks, Resolves
<1> HIDE DEF body, raw
<1>5. raw # <<>> /\ Len(raw) <= MAX_RANGES
  <2> DEFINE x == Check(raw # <<>>, "a range is required")
             y == Check(Len(raw) <= MAX_RANGES, "too many ranges")
  <2>1. \A check \in ToSet(RangesNumber(raw)) : check.passes
    BY <1>1, <1>2, StagesPass
  <2>2. RangesNumber(raw) = <<x, y>>
    BY DEF RangesNumber
  <2>3. x.passes = (raw # <<>>) /\ y.passes = (Len(raw) <= MAX_RANGES)
    BY DEF Check
  <2> HIDE DEF x, y
  <2>4. x \in ToSet(<<x, y>>) /\ y \in ToSet(<<x, y>>)
    BY DEF ToSet
  <2> QED
    BY <2>1, <2>2, <2>3, <2>4
<1> HIDE DEF A, B, C, D, E, F, G
<1>6. ASSUME NEW i \in DOMAIN raw
      PROVE  /\ T(i) \in Seq(S) /\ DOMAIN T(i) = 1 .. 7
             /\ T(i)[5] = E(i) /\ T(i)[6] = F(i) /\ T(i)[7] = G(i)
  <2> DEFINE U == {A(i), B(i), C(i), D(i), E(i), F(i), G(i)}
  <2>1. /\ T(i) \in Seq(U) /\ DOMAIN T(i) = 1 .. 7
        /\ T(i)[5] = E(i) /\ T(i)[6] = F(i) /\ T(i)[7] = G(i)
    BY SevenChecks
  <2>2. U \subseteq S
    OBVIOUS
  <2> HIDE DEF T, U, S
  <2> QED
    BY <2>1, <2>2
<1> HIDE DEF T, S
<1>7. seqs \in Seq(Seq(S)) /\ \A i \in DOMAIN raw : seqs[i] = T(i) /\ i \in DOMAIN seqs
  <2>1. seqs \in [1 .. Len(raw) -> Seq(S)]
    BY <1>1, <1>6
  <2>2. \A i \in DOMAIN raw : seqs[i] = T(i) /\ i \in DOMAIN seqs
    OBVIOUS
  <2> HIDE DEF seqs
  <2> QED
    BY <1>1, <2>1, <2>2
<1> HIDE DEF seqs
<1>8. ASSUME NEW i \in DOMAIN raw
      PROVE  /\ Resolve(raw[i].start) <= Resolve(raw[i].end)
             /\ DATE_MIN < Resolve(raw[i].start) /\ Resolve(raw[i].end) < DATE_MAX
  <2>1. \A check \in ToSet(RangesChecks(raw)) : check.passes
    BY <1>1, <1>3, StagesPass
  <2>2. \A k \in 1 .. 7 : seqs[i][k] \in ToSet(FlattenSeq(seqs))
    BY <1>6, <1>7, FlattenMembers
  <2>3. E(i).passes /\ F(i).passes /\ G(i).passes
    <3>1. 5 \in 1 .. 7 /\ 6 \in 1 .. 7 /\ 7 \in 1 .. 7
      OBVIOUS
    <3> QED
      BY <1>4, <1>6, <1>7, <2>1, <2>2, <3>1
  <2>4. /\ E(i).passes = (DATE_MIN < Resolve(raw[i].start) /\ Resolve(raw[i].start) < DATE_MAX)
        /\ F(i).passes = (DATE_MIN < Resolve(raw[i].end) /\ Resolve(raw[i].end) < DATE_MAX)
        /\ G(i).passes = (Resolve(raw[i].start) <= Resolve(raw[i].end))
    BY DEF Check, InBounds, E, F, G
  <2> QED
    BY <2>3, <2>4
<1> QED
  BY <1>5, <1>8 DEF raw, body

LEMMA CostIsNat ==
  ASSUME NEW b \in Accepted
  PROVE  TokenCost(Queries[b]) \in Nat
<1> DEFINE q == Queries[b]
           span == [r \in DOMAIN q.ranges |-> q.ranges[r].end - q.ranges[r].start + 1]
           spans == {q.ranges[r].end - q.ranges[r].start + 1 : r \in DOMAIN q.ranges}
           cells == Len(q.dimensions) * Len(q.metrics)
           dear == -((-(cells - FREE_CELLS)) \div CELLS_PER_TOKEN)
<1>1. PICK n \in Nat \ {0} : DOMAIN q.ranges = 1 .. n
  <2>1. Len(Bodies[b].dateRanges) # 0
    BY RangesAre, RangesPass
  <2> QED
    BY <2>1, RangesAre
<1>2. ASSUME NEW r \in 1 .. n  PROVE span[r] \in Nat
  <2>1. /\ q.ranges[r].start \in Int /\ q.ranges[r].end \in Int
        /\ q.ranges[r].start = Resolve(Bodies[b].dateRanges[r].start)
        /\ q.ranges[r].end = Resolve(Bodies[b].dateRanges[r].end)
    BY <1>1, RangesAre
  <2>2. Resolve(Bodies[b].dateRanges[r].start) <= Resolve(Bodies[b].dateRanges[r].end)
    BY <1>1, RangesAre, RangesPass
  <2>3. span[r] = q.ranges[r].end - q.ranges[r].start + 1
    BY <1>1
  <2> HIDE DEF span, q
  <2> QED
    BY <2>1, <2>2, <2>3
<1>3. PICK i \in 1 .. n : \A j \in 1 .. n : span[j] <= span[i]
  <2> HIDE DEF span
  <2> QED
    BY <1>2, LargestOf
<1>4. spans = {span[r] : r \in 1 .. n}
  BY <1>1
<1> HIDE DEF span, spans
<1>5. Max(spans) \in Nat
  <2>1. span[i] \in spans /\ \A y \in spans : span[i] >= y
    BY <1>2, <1>3, <1>4
  <2>2. Max(spans) \in spans
    BY <2>1, MaxIs
  <2> QED
    BY <1>2, <1>4, <2>2
<1>6. cells \in Nat
  <2>1. q.dimensions \in Seq(STRING) /\ q.metrics \in Seq(STRING)
    BY QueryIs, BodiesAssumption
  <2>2. Len(q.dimensions) \in Nat /\ Len(q.metrics) \in Nat
    BY <2>1
  <2>3. \A x, y \in Nat : x * y \in Nat
    OBVIOUS
  <2> HIDE DEF q
  <2> QED
    BY <2>2, <2>3
<1> HIDE DEF cells
<1>7. dear \in Int
  <2>1. CELLS_PER_TOKEN \in Nat \ {0} /\ FREE_CELLS \in Nat
    BY LimitAssumption
  <2>2. -(cells - FREE_CELLS) \in Int
    BY <1>6, <2>1
  <2> DEFINE x == -(cells - FREE_CELLS)
  <2> HIDE DEF x
  <2>3. x \div CELLS_PER_TOKEN \in Int
    BY <2>1, <2>2 DEF x
  <2> QED
    BY <2>3 DEF x
<1> HIDE DEF dear
<1>8. Max({0, dear}) \in Nat
  BY <1>7, MaxOfTwo
<1>9. Max(spans) \div DAYS_PER_TOKEN \in Nat
  BY <1>5, LimitAssumption
<1>10. TokenCost(q) = 1 + Max(spans) \div DAYS_PER_TOKEN + Max({0, dear})
  BY DEF TokenCost, spans, cells, dear
<1> HIDE DEF q
<1>11. TokenCost(q) \in Nat
  BY <1>8, <1>9, <1>10
<1> QED
  BY <1>11 DEF q

LEMMA SomethingAsked ==
  ASSUME NEW b \in Accepted
  PROVE  Len(Queries[b].dimensions) + Len(Queries[b].metrics) > 0
<1> DEFINE body == Bodies[b]
           x == Check(Len(body.metrics) <= MAX_METRICS, "too many metrics")
           y == Check(Len(body.dimensions) <= MAX_DIMENSIONS, "too many dimensions")
           z == Check(body.metrics # <<>> \/ body.dimensions # <<>>, "nothing asked for")
<1>1. /\ Passes(body) /\ body.metrics \in Seq(STRING) /\ body.dimensions \in Seq(STRING)
      /\ Queries[b].metrics = body.metrics /\ Queries[b].dimensions = body.dimensions
  BY QueryIs, BodiesAssumption
<1>2. Checks(body)[8] = CardinalityChecks(body)
  BY DEF Checks
<1> HIDE DEF body
<1>3. \A check \in ToSet(CardinalityChecks(body)) : check.passes
  BY <1>1, <1>2, StagesPass
<1>4. CardinalityChecks(body) = <<x, y, z>>
  BY DEF CardinalityChecks
<1>5. z.passes = (body.metrics # <<>> \/ body.dimensions # <<>>)
  BY DEF Check
<1> HIDE DEF x, y, z
<1>6. z \in ToSet(<<x, y, z>>)
  BY DEF ToSet
<1>7. body.metrics # <<>> \/ body.dimensions # <<>>
  BY <1>3, <1>4, <1>5, <1>6
<1>8. Len(body.metrics) \in Nat /\ Len(body.dimensions) \in Nat
  BY <1>1
<1>9. ASSUME NEW s \in Seq(STRING), s # <<>>  PROVE Len(s) # 0
  BY <1>9
<1>10. Len(body.metrics) # 0 \/ Len(body.dimensions) # 0
  BY <1>1, <1>7, <1>9
<1>11. Len(body.dimensions) + Len(body.metrics) > 0
  <2> DEFINE m == Len(body.metrics)
             n == Len(body.dimensions)
  <2> HIDE DEF m, n
  <2>1. m \in Nat /\ n \in Nat /\ (m # 0 \/ n # 0)
    BY <1>8, <1>10 DEF m, n
  <2>2. n + m > 0
    BY <2>1
  <2> QED
    BY <2>2 DEF m, n
<1> QED
  BY <1>1, <1>11, Zenon

ReplyTyped ==
  /\ reply.status \in {0, 200, 400, 429, 500} /\ reply.charged \in Nat
  /\ day.variety \in 0 .. MaxVariety

LEMMA ReplyTypedInit == Init => ReplyTyped
<1> SUFFICES ASSUME Init PROVE ReplyTyped
  OBVIOUS
<1>1. reply.status = 0 /\ reply.charged = 0
  BY DEF Init, NoReply, Failure, Answer
<1>2. day.variety = 0
  BY DEF Init, GInit
<1> QED
  BY <1>1, <1>2, BoundAssumption DEF ReplyTyped

LEMMA ReplyTypedStep == BirthInv /\ ReplyTyped /\ [Next]_rvars => ReplyTyped'
<1> SUFFICES ASSUME BirthInv, ReplyTyped, [Next]_rvars PROVE ReplyTyped'
  OBVIOUS
<1>1. CASE UNCHANGED rvars
  BY <1>1 DEF ReplyTyped, rvars, gvars
<1>2. ASSUME Build, UNCHANGED reply  PROVE ReplyTyped'
  <2>0. day \in [organic : Int, extras : Seq(Nat), variety : {day.variety}]
    BY DEF BirthInv, WorldTyped
  <2>1. ASSUME NEW isNew, NEW user, NEW c, Add(isNew, user, c)  PROVE day'.variety \in 0 .. MaxVariety
    <3>1. PICK v \in Visits(c) : /\ day.variety + Variety(v, c) <= MaxVariety
                                 /\ day' = [day EXCEPT !.variety = @ + Variety(v, c)]
      BY <2>1 DEF Add
    <3>2. Variety(v, c) \in Nat
      BY VarietyIsNat
    <3>3. day'.variety = day.variety + Variety(v, c)
      BY <2>0, <3>1
    <3> QED
      BY <3>1, <3>2, <3>3, BoundAssumption DEF ReplyTyped
  <2>2. CASE OpenDay
    <3>1. day'.variety = day.variety
      BY <2>0, <2>2 DEF OpenDay
    <3> QED
      BY <1>2, <3>1 DEF ReplyTyped
  <2>3. CASE AddNew
    <3>1. day'.variety \in 0 .. MaxVariety
      BY <2>1, <2>3 DEF AddNew
    <3> QED
      BY <1>2, <3>1 DEF ReplyTyped
  <2>4. CASE AddReturning
    <3>1. day'.variety \in 0 .. MaxVariety
      BY <2>1, <2>4 DEF AddReturning
    <3> QED
      BY <1>2, <3>1 DEF ReplyTyped
  <2> QED
    BY <1>2, <2>2, <2>3, <2>4 DEF Build
<1>3. ASSUME NEW i \in DOMAIN Bodies, Refuse(i) \/ OverQuota(i) \/ Fail(i) \/ Serve(i)
      PROVE  ReplyTyped'
  <2>1. day' = day
    BY <1>3 DEF Refuse, OverQuota, Fail, Serve, gvars
  <2>2. CASE Refuse(i) \/ OverQuota(i)
    <3>1. reply'.status \in {400, 429, 500} /\ reply'.charged = 0
      BY <2>2 DEF Refuse, OverQuota, Failure, Answer
    <3> QED
      BY <2>1, <3>1 DEF ReplyTyped
  <2>3. CASE Fail(i)
    <3>1. i \in Accepted /\ reply'.status = 500 /\ reply'.charged = TokenCost(Queries[i])
      BY <2>3 DEF Fail, Failure, Answer
    <3> QED
      BY <2>1, <3>1, CostIsNat DEF ReplyTyped
  <2>4. CASE Serve(i)
    <3>1. i \in Accepted /\ reply'.status = 200 /\ reply'.charged = TokenCost(Queries[i])
      BY <2>4, Zenon DEF Serve, Result, Answer
    <3> QED
      BY <2>1, <3>1, CostIsNat DEF ReplyTyped
  <2> QED
    BY <1>3, <2>2, <2>3, <2>4
<1>4. CASE Read
  <2>1. reply'.status = 0 /\ reply'.charged = 0 /\ day' = day
    BY <1>4 DEF Read, NoReply, Failure, Answer, gvars
  <2> QED
    BY <2>1 DEF ReplyTyped
<1> QED
  BY <1>1, <1>2, <1>3, <1>4 DEF Next

LEMMA TypesFollow == ReplyTyped /\ ServedInv => TypeOK
<1> SUFFICES ASSUME ReplyTyped, ServedInv PROVE TypeOK
  OBVIOUS
<1>1. ASSUME Served
      PROVE  /\ Q.limit \in 1 .. MAX_LIMIT /\ Q.offset \in Nat
             /\ Len(Q.dimensions) + Len(Q.metrics) > 0
             /\ \A i \in DOMAIN Q.ranges : Q.ranges[i].start <= Q.ranges[i].end
  <2>1. reply.body \in Accepted
    BY <1>1 DEF ServedInv
  <2>2. Q.limit \in 1 .. MAX_LIMIT /\ Q.offset \in Nat
    BY <2>1, LimitsAre DEF Q
  <2>3. Len(Q.dimensions) + Len(Q.metrics) > 0
    BY <2>1, SomethingAsked DEF Q
  <2>4. \A i \in DOMAIN Q.ranges : Q.ranges[i].start <= Q.ranges[i].end
    BY <2>1, RangesAre, RangesPass DEF Q
  <2> QED
    BY <2>2, <2>3, <2>4
<1> QED
  BY <1>1 DEF TypeOK, ReplyTyped

\* A query that validation lets through is one the pipeline can run: a page of
\* at least a row, dates in order, something asked for, and a cost in tokens.
THEOREM ReportTyped == Spec => []TypeOK
<1> DEFINE Inv == BirthInv /\ ReplyTyped /\ ServedInv
<1>1. Init => Inv
  <2>1. Init => ServedInv
    BY DEF Init, NoReply, Failure, Answer, Served, ServedInv
  <2> QED
    BY <2>1, BirthInit, ReplyTypedInit DEF Init
<1>2. Inv /\ [Next]_rvars => Inv'
  BY BirthStep, ReplyTypedStep, ServedStep
<1>3. Inv => TypeOK
  BY TypesFollow
<1> QED
  BY <1>1, <1>2, <1>3, PTL DEF Spec

(***************************************************************************)
(* Rows and their values                                                    *)
(***************************************************************************)
\* What a range of a query that passed is.
Inside(range) ==
  /\ range.start \in Int /\ range.end \in Int /\ range.start <= range.end
  /\ DATE_MIN < range.start /\ range.end < DATE_MAX
  /\ range.name \in Words

\* A query that passed: its ranges, its fields and its criteria.
Proper(q, n) ==
  /\ n \in Nat \ {0} /\ DOMAIN q.ranges = 1 .. n
  /\ \A r \in 1 .. n : Inside(q.ranges[r])
  /\ q.metrics \in Seq(STRING) /\ q.dimensions \in Seq(STRING)
  /\ ToSet(q.metrics) \subseteq METRICS /\ ToSet(q.dimensions) \subseteq DIMENSIONS
  /\ Len(Criteria(q)) \in Nat

LEMMA QueryIsProper ==
  ASSUME NEW b \in Accepted
  PROVE  \E n : Proper(Queries[b], n)
<1> DEFINE q == Queries[b]
           raw == Bodies[b].dateRanges
           Row(i) == [name  |-> IF raw[i].name = "" THEN DefaultName(i) ELSE raw[i].name,
                      start |-> Resolve(raw[i].start), end |-> Resolve(raw[i].end)]
<1>0. /\ b \in DOMAIN Bodies /\ q = Query(Bodies[b])
      /\ q.metrics = Bodies[b].metrics /\ q.dimensions = Bodies[b].dimensions
  BY QueryIs
<1>1. /\ Len(raw) \in Nat /\ DOMAIN q.ranges = 1 .. Len(raw) /\ DOMAIN raw = 1 .. Len(raw)
      /\ \A r \in DOMAIN q.ranges :
           /\ q.ranges[r].start \in Int /\ q.ranges[r].end \in Int
           /\ q.ranges[r].start = Resolve(raw[r].start) /\ q.ranges[r].end = Resolve(raw[r].end)
  BY RangesAre, Zenon
<1>2. /\ raw # <<>> /\ Len(raw) <= MAX_RANGES
      /\ \A r \in DOMAIN raw : /\ Resolve(raw[r].start) <= Resolve(raw[r].end)
                               /\ DATE_MIN < Resolve(raw[r].start)
                               /\ Resolve(raw[r].end) < DATE_MAX
  BY RangesPass, Zenon
<1>3. q.ranges = [i \in DOMAIN raw |-> Row(i)]
  <2> DEFINE body == Bodies[b]
  <2>1. q = Query(body) /\ raw = body.dateRanges
    BY <1>0
  <2> HIDE DEF body, q, raw
  <2>2. Query(body).ranges =
          [i \in DOMAIN body.dateRanges |->
             [name  |-> IF body.dateRanges[i].name = "" THEN DefaultName(i) ELSE body.dateRanges[i].name,
              start |-> Resolve(body.dateRanges[i].start), end |-> Resolve(body.dateRanges[i].end)]]
    BY Zenon DEF Query
  <2> QED
    BY <2>1, <2>2, Zenon
<1>4. ASSUME NEW r \in 1 .. Len(raw)  PROVE q.ranges[r].name \in Words
  <2>1. q.ranges[r] = Row(r)
    <3> HIDE DEF Row, raw, q
    <3> QED
      BY <1>1, <1>3
  <2>2. Row(r).name = IF raw[r].name = "" THEN DefaultName(r) ELSE raw[r].name
    OBVIOUS
  <2>3. DefaultName(r) \in Words
    <3>1. r \in 1 .. MAX_RANGES
      BY <1>1, <1>2, LimitAssumption
    <3> QED
      BY <3>1, WordsKnown
  <2>4. raw[r].name \in Words
    BY <1>0, <1>1, WordsKnown
  <2> QED
    BY <2>1, <2>2, <2>3, <2>4
<1>5. Len(raw) \in Nat \ {0}
  <2>1. \E S : raw \in Seq(S)
    BY <1>0, BodiesAssumption DEF IsList
  <2> QED
    BY <1>1, <1>2, <2>1
<1>6. \A r \in 1 .. Len(raw) : Inside(q.ranges[r])
  BY <1>1, <1>2, <1>4 DEF Inside
<1>7. /\ Bodies[b].metrics \in Seq(STRING) /\ Bodies[b].dimensions \in Seq(STRING)
      /\ ToSet(Bodies[b].metrics) \subseteq METRICS /\ ToSet(Bodies[b].dimensions) \subseteq DIMENSIONS
  BY <1>0, FieldsKnown, BodiesAssumption
<1>8. Len(Criteria(q)) \in Nat
  BY CriteriaAreList
<1> HIDE DEF q, raw
<1> QED
  BY <1>0, <1>1, <1>5, <1>6, <1>7, <1>8 DEF Proper, q

\* A unit of somebody there, that shows only strings with a rank.
Fit(u) ==
  /\ Fair(u) /\ Worded(u.session) /\ u.session \in Everyone
  /\ u.page \in Words /\ u.event \in Words

LEMMA NoneIsAWord == None \in Words /\ EVENT_NAMES \subseteq Words
BY WordsKnown

LEMMA EventNamesAre == VisitEvents \cup KEY_EVENTS = EVENT_NAMES
BY DEF VisitEvents, EVENT_NAMES

LEMMA UnitsOfFit ==
  ASSUME NEW q, NEW s \in Everyone, Known(s), Worded(s)
  PROVE  \A u \in ToSet(UnitsOf(q, s)) : Fit(u) /\ u.session = s
<1> DEFINE pages  == IF q.fanPage THEN s.pages ELSE <<None>>
           events == IF q.fanEvent THEN s.events ELSE <<[name |-> None, count |-> 1]>>
           T(i) == [j \in DOMAIN events |-> Unit(s, pages[i], events[j].name, events[j].count)]
           seqs == [i \in DOMAIN pages |-> T(i)]
           S == {Unit(s, pages[i], events[j].name, events[j].count) : i \in DOMAIN pages, j \in DOMAIN events}
<1>1. PICK n \in Nat : DOMAIN pages = 1 .. n /\ \A i \in 1 .. n : pages[i] \in Words
  <2>1. CASE q.fanPage
    <3>1. PICK U : s.pages \in Seq(U)
      BY DEF Known, Told
    <3>2. ToSet(s.pages) \subseteq Words
      BY DEF Worded
    <3> QED
      BY <2>1, <3>1, <3>2 DEF ToSet
  <2>2. CASE ~q.fanPage
    <3>1. pages = <<None>>
      BY <2>2
    <3> HIDE DEF pages
    <3> QED
      BY <3>1, NoneIsAWord
  <2> QED
    BY <2>1, <2>2
<1>2. PICK m \in Nat : DOMAIN events = 1 .. m
        /\ \A j \in 1 .. m : events[j].count \in Nat /\ events[j].name \in Words
  <2>1. CASE q.fanEvent
    <3> DEFINE R == [name : VisitEvents \cup KEY_EVENTS, count : Nat]
    <3>1. s.events \in Seq(R)
      BY DEF Known, Told
    <3> HIDE DEF R
    <3>2. PICK m \in Nat : DOMAIN s.events = 1 .. m /\ \A j \in 1 .. m : s.events[j] \in R
      BY <3>1
    <3>3. \A j \in 1 .. m : s.events[j].count \in Nat /\ s.events[j].name \in EVENT_NAMES
      BY <3>2, EventNamesAre DEF R
    <3> QED
      BY <2>1, <3>2, <3>3, NoneIsAWord
  <2>2. CASE ~q.fanEvent
    <3>1. events = <<[name |-> None, count |-> 1]>>
      BY <2>2
    <3>2. DOMAIN events = 1 .. 1 /\ events[1].count = 1 /\ events[1].name = None
      BY <3>1
    <3> HIDE DEF events
    <3> QED
      BY <3>2, NoneIsAWord
  <2> QED
    BY <2>1, <2>2
<1> HIDE DEF pages, events
<1>3. \A u \in S : u.session = s /\ u.count \in Nat /\ u.page \in Words /\ u.event \in Words
  BY <1>1, <1>2 DEF Unit
<1>4. seqs \in Seq(Seq(S))
  <2>1. ASSUME NEW i \in 1 .. n  PROVE T(i) \in Seq(S)
    <3>1. ASSUME NEW j \in 1 .. m
          PROVE  Unit(s, pages[i], events[j].name, events[j].count) \in S
      BY <1>1, <1>2
    <3> HIDE DEF S
    <3>2. T(i) \in [1 .. m -> S]
      BY <1>2, <3>1
    <3> QED
      BY <3>2
  <2> HIDE DEF T, S
  <2>2. seqs \in [1 .. n -> Seq(S)]
    BY <1>1, <2>1
  <2> QED
    BY <2>2
<1>5. UnitsOf(q, s) = FlattenSeq(seqs)
  BY DEF UnitsOf, pages, events
<1> HIDE DEF S, seqs
<1>6. UnitsOf(q, s) \in Seq(S)
  BY <1>4, <1>5, FlattenMembers
<1>7. ToSet(UnitsOf(q, s)) \subseteq S
  BY <1>6, ListOfMembers
<1> QED
  BY <1>3, <1>7 DEF Fit, Fair

LEMMA SeenAreWorded ==
  ASSUME BirthInv, TalesInv, WordsInv, NEW d \in Int, NEW s \in ToSet(SessionsOf(d))
  PROVE  Worded(s) /\ s.date = d /\ s \in Everyone /\ Known(s)
<1>1. PICK S : world \in Seq(Seq(S))
  BY DEF BirthInv, WorldTyped
<1>2. Len(world) \in Nat
  BY <1>1
<1>3. SessionsOf(d) \in Seq(Everyone) /\ \A t \in Everyone : Known(t)
  BY EveryoneIsKnown
<1>4. PICK i \in 1 .. Len(SessionsOf(d)) : s = SessionsOf(d)[i]
  BY <1>3 DEF ToSet
<1>5. s \in Everyone /\ Known(s)
  BY <1>3, <1>4
<1>6. CASE d \in HISTORY_START .. Building
  <2> DEFINE k == d - HISTORY_START + 1
  <2>1. k \in 1 .. Len(world) /\ HISTORY_START + k - 1 = d
    BY <1>2, <1>6, HistoryAssumption DEF Building
  <2>2. SessionsOf(d) = world[k]
    BY <1>6 DEF SessionsOf
  <2> HIDE DEF k
  <2>3. Worded(world[k][i]) /\ world[k][i].date = HISTORY_START + k - 1
    BY <1>4, <2>1, <2>2 DEF WordsInv
  <2> QED
    BY <1>4, <1>5, <2>1, <2>2, <2>3
<1>7. CASE d \notin HISTORY_START .. Building
  <2>1. SessionsOf(d) = <<>>
    BY <1>7 DEF SessionsOf
  <2>2. Len(SessionsOf(d)) = 0
    BY <2>1
  <2> QED
    BY <1>4, <2>2
<1> QED
  BY <1>6, <1>7

LEMMA UnitSetFits ==
  ASSUME BirthInv, TalesInv, WordsInv, NEW q, NEW range, range.start \in Int, range.end \in Int,
         NEW u \in UnitSet(q, range)
  PROVE  Fit(u) /\ u.session.date \in range.start .. range.end
<1>1. PICK s \in SeenIn(range) : u \in ToSet(UnitsOf(q, s))
  BY DEF UnitSet
<1>2. PICK d \in range.start .. range.end : s \in ToSet(SessionsOf(d))
  BY <1>1 DEF SeenIn
<1>3. Worded(s) /\ s.date = d /\ s \in Everyone /\ Known(s)
  BY <1>2, SeenAreWorded
<1>4. Fit(u) /\ u.session = s
  BY <1>1, <1>3, UnitsOfFit
<1> QED
  BY <1>3, <1>4

\* A value that a dimension has: a number or a word.
DimTyped(name, v) == IF name \in DateFamily THEN v \in Int ELSE v \in Words

LEMMA DateIsTyped ==
  ASSUME NEW name \in DateFamily, NEW d \in DATE_MIN + 1 .. DATE_MAX - 1
  PROVE  DimTyped(name, FromDate(name, d))
<1>1. d \in Int /\ Sunday0 \in Int /\ MonthOf[d] \in Int
  BY CalendarAssumption
<1>2. (d - 1 + Sunday0) \div 7 + 1 \in Int /\ (d - 1 + Sunday0) % 7 \in Int
  BY <1>1
<1>3. FromDate(name, d) \in Int
  BY <1>1, <1>2 DEF FromDate, DateFamily
<1> QED
  BY <1>3 DEF DimTyped

LEMMA ExtractIsTyped ==
  ASSUME NEW u, Fit(u), u.session.date \in DATE_MIN + 1 .. DATE_MAX - 1, NEW name \in DIMENSIONS
  PROVE  DimTyped(name, Extract(name, u))
<1>1. CASE name \in DateFamily
  <2>1. Extract(name, u) = FromDate(name, u.session.date)
    BY <1>1 DEF Extract, DateFamily
  <2> QED
    BY <1>1, <2>1, DateIsTyped
<1>2. CASE name \notin DateFamily
  <2>1. /\ {u.session.channel, u.session.medium, u.session.system, u.session.landing} \subseteq Words
        /\ u.page \in Words /\ u.event \in Words
    BY DEF Fit, Worded
  <2>2. "new" \in Words /\ "returning" \in Words
    BY WordsKnown
  <2>3. name \in {"sessionDefaultChannelGroup", "sessionMedium", "operatingSystem", "landingPage",
                  "pagePath", "eventName", "newVsReturning"}
    BY <1>2 DEF DIMENSIONS
  <2>4. Extract(name, u) \in Words
    BY <1>2, <2>1, <2>2, <2>3 DEF Extract
  <2> QED
    BY <1>2, <2>4 DEF DimTyped
<1> QED
  BY <1>1, <1>2

\* The metrics of a sound accumulator are numbers.
LEMMA MetricsAreInts ==
  ASSUME NEW a, Sound(a), NEW m \in METRICS
  PROVE  Metrics(a)[m] \in Int
<1>0. ASSUME NEW x \in Nat, NEW y \in Nat  PROVE Ratio(x, y) \in Int
  <2>1. CASE y = 0
    BY <2>1 DEF Ratio
  <2>2. CASE y # 0
    <3>1. x * Scale \in Int
      BY ScaleAssumption
    <3> DEFINE p == x * Scale
    <3> HIDE DEF p
    <3>2. p \div y \in Int
      BY <2>2, <3>1 DEF p
    <3> QED
      BY <2>2, <3>2 DEF Ratio, p
  <2> QED
    BY <2>1, <2>2
<1> DEFINE S == Cardinality(a.seen)
           T == Cardinality(a.users)
           A == Cardinality(a.active)
<1>1. S \in Nat /\ T \in Nat /\ A \in Nat
  BY FS_CardinalityType, FS_Subset DEF Sound
<1>2. /\ a.engaged \in Nat /\ a.withKey \in Nat /\ a.new \in Nat /\ a.duration \in Nat
      /\ a.engagement \in Nat /\ a.pageViews \in Nat /\ a.events \in Nat /\ a.keyEvents \in Nat
  BY DEF Sound, Shape
<1>3. ASSUME NEW x \in Nat  PROVE x * Scale \in Int
  BY ScaleAssumption
<1>4. (IF S = 0 THEN 0 ELSE Scale - Ratio(a.engaged, S)) \in Int
  BY <1>0, <1>1, <1>2, ScaleAssumption
<1>5. m \in {"sessions", "totalUsers", "activeUsers", "newUsers", "engagedSessions", "engagementRate",
             "bounceRate", "averageSessionDuration", "userEngagementDuration", "screenPageViews",
             "screenPageViewsPerSession", "eventCount", "keyEvents", "sessionKeyEventRate",
             "sessionsPerUser"}
  BY DEF METRICS, Metrics
<1> DEFINE M == Metrics(a)
<1>6. /\ M.sessions = S * Scale /\ M.totalUsers = T * Scale /\ M.activeUsers = A * Scale
      /\ M.newUsers = a.new * Scale /\ M.engagedSessions = a.engaged * Scale
      /\ M.engagementRate = Ratio(a.engaged, S)
      /\ M.bounceRate = (IF S = 0 THEN 0 ELSE Scale - Ratio(a.engaged, S))
      /\ M.averageSessionDuration = Ratio(a.duration, S)
      /\ M.userEngagementDuration = a.engagement * Scale
      /\ M.screenPageViews = a.pageViews * Scale
      /\ M.screenPageViewsPerSession = Ratio(a.pageViews, S)
      /\ M.eventCount = a.events * Scale /\ M.keyEvents = a.keyEvents * Scale
      /\ M.sessionKeyEventRate = Ratio(a.withKey, S)
      /\ M.sessionsPerUser = Ratio(S, A)
  BY Zenon DEF Metrics
<1> HIDE DEF M, S, T, A
<1>7. /\ S * Scale \in Int /\ T * Scale \in Int /\ A * Scale \in Int
      /\ a.new * Scale \in Int /\ a.engaged * Scale \in Int /\ a.engagement * Scale \in Int
      /\ a.pageViews * Scale \in Int /\ a.events * Scale \in Int /\ a.keyEvents * Scale \in Int
  BY <1>1, <1>2, <1>3
<1>8. /\ Ratio(a.engaged, S) \in Int /\ Ratio(a.duration, S) \in Int /\ Ratio(a.pageViews, S) \in Int
      /\ Ratio(a.withKey, S) \in Int /\ Ratio(S, A) \in Int
  BY <1>0, <1>1, <1>2
<1>9. /\ M.sessions \in Int /\ M.totalUsers \in Int /\ M.activeUsers \in Int /\ M.newUsers \in Int
      /\ M.engagedSessions \in Int /\ M.engagementRate \in Int /\ M.bounceRate \in Int
      /\ M.averageSessionDuration \in Int /\ M.userEngagementDuration \in Int
      /\ M.screenPageViews \in Int /\ M.screenPageViewsPerSession \in Int /\ M.eventCount \in Int
      /\ M.keyEvents \in Int /\ M.sessionKeyEventRate \in Int /\ M.sessionsPerUser \in Int
  BY <1>4, <1>6, <1>7, <1>8
<1>10. M[m] \in Int
  BY <1>5, <1>9
<1> QED
  BY <1>10 DEF M

(***************************************************************************)
(* Keys and rows                                                            *)
(***************************************************************************)
\* The key of a day that a range has, and of a unit.
DatedDims(q, d) == [k \in DOMAIN q.dimensions |-> FromDate(q.dimensions[k], d)]
DayKey(q, range, d) == [dims |-> DatedDims(q, d), range |-> range.name]
UnitKey(q, range, u) == [dims |-> DimsOf(q, u), range |-> range.name]
SpineKeys(q, range) == {DayKey(q, range, d) : d \in range.start .. range.end}
AdmittedIn(q, range) == {v \in UnitSet(q, range) : Admits(q.dimensionFilter, q, v)}
FoundKeys(q, range) == {UnitKey(q, range, u) : u \in AdmittedIn(q, range)}

LEMMA SpineSet ==
  ASSUME NEW q, NEW n, Proper(q, n)
  PROVE  /\ \E S : Spine(q) \in Seq(S)
         /\ ToSet(Spine(q)) = UNION {SpineKeys(q, q.ranges[r]) : r \in 1 .. n}
<1> DEFINE Row(r, i) == [dims |-> [k \in DOMAIN q.dimensions |-> FromDate(q.dimensions[k], DaysOf(q.ranges[r])[i])],
                         range |-> q.ranges[r].name]
           Rows(r) == [i \in DOMAIN DaysOf(q.ranges[r]) |-> Row(r, i)]
           seqs == [r \in DOMAIN q.ranges |-> Rows(r)]
           S == UNION {SpineKeys(q, q.ranges[r]) : r \in 1 .. n}
<1>0. n \in Nat /\ DOMAIN q.ranges = 1 .. n
  BY DEF Proper
<1>1. Spine(q) = FlattenSeq(seqs)
  BY DEF Spine
<1>2. ASSUME NEW r \in 1 .. n
      PROVE  Rows(r) \in Seq(SpineKeys(q, q.ranges[r])) /\ ToSet(Rows(r)) = SpineKeys(q, q.ranges[r])
  <2> DEFINE a == q.ranges[r].start
             b == q.ranges[r].end
             K == SpineKeys(q, q.ranges[r])
             D(d) == DayKey(q, q.ranges[r], d)
             f == Rows(r)
  <2>1. a \in Int /\ b \in Int /\ a <= b
    BY DEF Proper, Inside
  <2>2. PICK m \in Nat : m = b - a + 1
    BY <2>1
  <2>3. /\ DOMAIN DaysOf(q.ranges[r]) = 1 .. m
        /\ \A i \in 1 .. m : DaysOf(q.ranges[r])[i] = a + i - 1
    BY <2>2 DEF DaysOf
  <2>4. ASSUME NEW i \in 1 .. m  PROVE f[i] = D(a + i - 1) /\ a + i - 1 \in a .. b
    <3>1. f[i] = Row(r, i)
      BY <2>3
    <3>2. Row(r, i) = D(DaysOf(q.ranges[r])[i])
      BY DEF DayKey, DatedDims
    <3>3. DaysOf(q.ranges[r])[i] = a + i - 1
      BY <2>3
    <3>4. a + i - 1 \in a .. b
      BY <2>1, <2>2
    <3> HIDE DEF f, D, Row
    <3> QED
      BY <3>1, <3>2, <3>3, <3>4
  <2>5. DOMAIN f = 1 .. m /\ f = [i \in 1 .. m |-> f[i]]
    BY <2>3
  <2>6. \A d \in a .. b : d - a + 1 \in 1 .. m /\ a + (d - a + 1) - 1 = d
    BY <2>1, <2>2
  <2>7. K = {D(d) : d \in a .. b}
    BY DEF SpineKeys
  <2> HIDE DEF f, D, a, b, K
  <2>8. \A i \in 1 .. m : f[i] \in K
    BY <2>4, <2>7
  <2>9. f \in Seq(K)
    <3>1. f \in [1 .. m -> K]
      BY <2>5, <2>8
    <3> QED
      BY <3>1
  <2>10. ASSUME NEW d \in a .. b  PROVE \E i \in 1 .. m : D(d) = f[i]
    BY <2>4, <2>6
  <2>11. ToSet(f) = K
    BY <2>5, <2>7, <2>8, <2>10 DEF ToSet
  <2> QED
    BY <2>9, <2>11 DEF f, K
<1> HIDE DEF Rows
<1>3. \A r \in 1 .. n : Rows(r) \in Seq(S)
  <2> TAKE r \in 1 .. n
  <2> DEFINE K == SpineKeys(q, q.ranges[r])
  <2>1. Rows(r) \in Seq(K) /\ K \subseteq S
    BY <1>2
  <2> HIDE DEF K, S
  <2> QED
    BY <2>1
<1> HIDE DEF S
<1>4. seqs \in Seq(Seq(S)) /\ DOMAIN seqs = 1 .. n /\ \A r \in 1 .. n : seqs[r] = Rows(r)
  <2>1. seqs \in [1 .. n -> Seq(S)] /\ \A r \in 1 .. n : seqs[r] = Rows(r)
    BY <1>0, <1>3
  <2> HIDE DEF seqs
  <2> QED
    BY <1>0, <2>1
<1> HIDE DEF seqs
<1>5. FlattenSeq(seqs) \in Seq(S) /\ ToSet(FlattenSeq(seqs)) = UNION {ToSet(seqs[r]) : r \in 1 .. n}
  BY <1>0, <1>4, FlattenMembers, FlattenedSet
<1>6. UNION {ToSet(seqs[r]) : r \in 1 .. n} = UNION {SpineKeys(q, q.ranges[r]) : r \in 1 .. n}
  BY <1>2, <1>4
<1> QED
  BY <1>1, <1>5, <1>6

\* What compute_rows makes of keys: a row for each.
GroupOfKey(q, key) ==
  Picked(Collected(q), {j \in DOMAIN Collected(q) : KeyOfUnit(Collected(q)[j]) = key})
RowOf(q, key) ==
  [dims |-> key.dims, range |-> key.range, values |-> Metrics(Accumulated(q, GroupOfKey(q, key)))]
Rowed(q, rows, keys) ==
  /\ DOMAIN rows = DOMAIN keys /\ \A i \in DOMAIN keys : rows[i] = RowOf(q, keys[i])
  /\ \A i, j \in DOMAIN keys : i # j => keys[i] # keys[j]

\* The keys that a report has.
KeysOf(q, n) ==
  (UNION {FoundKeys(q, q.ranges[r]) : r \in 1 .. n})
    \cup (IF Synthesized(q) THEN UNION {SpineKeys(q, q.ranges[r]) : r \in 1 .. n} ELSE {})

LEMMA AppendedSet ==
  ASSUME NEW S, NEW x \in Seq(S), NEW y \in Seq(S)
  PROVE  x \o y \in Seq(S) /\ ToSet(x \o y) = ToSet(x) \cup ToSet(y)
<1> DEFINE z == x \o y
<1>1. z \in Seq(S) /\ Len(z) = Len(x) + Len(y)
  OBVIOUS
<1>2. /\ \A i \in 1 .. Len(x) : z[i] = x[i]
      /\ \A i \in 1 .. Len(y) : z[Len(x) + i] = y[i]
  OBVIOUS
<1> HIDE DEF z
<1>3. PICK m \in Nat, k \in Nat : m = Len(x) /\ k = Len(y)
  OBVIOUS
<1>4. DOMAIN x = 1 .. m /\ DOMAIN y = 1 .. k /\ DOMAIN z = 1 .. m + k
  BY <1>1, <1>3
<1>5. ASSUME NEW i \in 1 .. m + k  PROVE z[i] \in ToSet(x) \cup ToSet(y)
  <2>1. CASE i <= m
    BY <1>2, <1>3, <1>4, <2>1 DEF ToSet
  <2>2. CASE i > m
    <3>1. i - m \in 1 .. k /\ m + (i - m) = i
      BY <2>2
    <3>2. z[i] = y[i - m]
      BY <1>2, <1>3, <3>1
    <3> QED
      BY <1>4, <3>1, <3>2 DEF ToSet
  <2> QED
    BY <2>1, <2>2
<1>6. ASSUME NEW i \in 1 .. m  PROVE x[i] \in ToSet(z)
  <2>1. i \in 1 .. m + k /\ z[i] = x[i]
    BY <1>2, <1>3
  <2> QED
    BY <1>4, <2>1 DEF ToSet
<1>7. ASSUME NEW i \in 1 .. k  PROVE y[i] \in ToSet(z)
  <2>1. m + i \in 1 .. m + k /\ z[m + i] = y[i]
    BY <1>2, <1>3
  <2> QED
    BY <1>4, <2>1 DEF ToSet
<1>8. ToSet(z) \subseteq ToSet(x) \cup ToSet(y)
  BY <1>4, <1>5 DEF ToSet
<1>9. ToSet(x) \subseteq ToSet(z) /\ ToSet(y) \subseteq ToSet(z)
  BY <1>4, <1>6, <1>7 DEF ToSet
<1> QED
  BY <1>1, <1>8, <1>9 DEF z

LEMMA FoundSet ==
  ASSUME BirthInv, TalesInv, NEW q, NEW n, Proper(q, n),
         NEW found, found = [i \in DOMAIN Collected(q) |-> KeyOfUnit(Collected(q)[i])]
  PROVE  /\ \E S : found \in Seq(S)
         /\ ToSet(found) = UNION {FoundKeys(q, q.ranges[r]) : r \in 1 .. n}
<1> DEFINE collected == Collected(q)
           E(r) == Entries(q, q.ranges[r])
           F(r) == FoundKeys(q, q.ranges[r])
<1>1. n \in Nat /\ Ranged(q, n)
  BY DEF Proper, Inside, Ranged
<1>2. PICK S : collected \in Seq(S)
  BY <1>1, CollectedSet
<1>3. ToSet(collected) = UNION {E(r) : r \in 1 .. n}
  BY <1>1, CollectedSet
<1>4. PICK m \in Nat : DOMAIN collected = 1 .. m
  BY <1>2
<1>5. \A i \in 1 .. m : found[i] = KeyOfUnit(collected[i])
  BY <1>4
<1>6. DOMAIN found = 1 .. m /\ found = [i \in 1 .. m |-> found[i]]
  BY <1>4
<1> HIDE DEF collected
<1>7. ASSUME NEW r \in 1 .. n, NEW c \in E(r)  PROVE KeyOfUnit(c) \in F(r)
  <2>1. PICK u \in AdmittedIn(q, q.ranges[r]) : c = Entry(q, q.ranges[r], u)
    BY <1>7 DEF Entries, AdmittedIn
  <2>2. KeyOfUnit(c) = UnitKey(q, q.ranges[r], u)
    BY <2>1 DEF KeyOfUnit, Entry, UnitKey
  <2> QED
    BY <2>1, <2>2 DEF FoundKeys
<1>8. ASSUME NEW r \in 1 .. n, NEW key \in F(r)  PROVE \E c \in E(r) : KeyOfUnit(c) = key
  <2>1. PICK u \in AdmittedIn(q, q.ranges[r]) : key = UnitKey(q, q.ranges[r], u)
    BY <1>8 DEF FoundKeys
  <2> DEFINE c == Entry(q, q.ranges[r], u)
  <2>2. c \in E(r)
    BY <2>1 DEF Entries, AdmittedIn
  <2>3. KeyOfUnit(c) = key
    BY <2>1 DEF KeyOfUnit, Entry, UnitKey
  <2> HIDE DEF c, E
  <2> QED
    BY <2>2, <2>3
<1> HIDE DEF E, F
<1>9. \A c : (\E i \in 1 .. m : c = collected[i]) <=> (\E r \in 1 .. n : c \in E(r))
  BY <1>3, <1>4 DEF ToSet
<1>10. \A i \in 1 .. m : \E r \in 1 .. n : found[i] \in F(r)
  BY <1>5, <1>7, <1>9
<1>11. \A r \in 1 .. n : \A key \in F(r) : \E i \in 1 .. m : found[i] = key
  BY <1>5, <1>8, <1>9
<1> DEFINE U == UNION {F(r) : r \in 1 .. n}
<1>12. ToSet(found) = U
  <2>1. \A x : x \in ToSet(found) <=> \E i \in 1 .. m : x = found[i]
    BY <1>6 DEF ToSet
  <2>2. \A x : x \in U <=> \E r \in 1 .. n : x \in F(r)
    OBVIOUS
  <2> HIDE DEF U
  <2>3. \A x : x \in ToSet(found) <=> x \in U
    BY <1>10, <1>11, <2>1, <2>2
  <2> QED
    BY <2>3
<1>13. \A i \in 1 .. m : found[i] \in U
  BY <1>10
<1>14. found \in Seq(U)
  <2> HIDE DEF U
  <2>1. found \in [1 .. m -> U]
    BY <1>6, <1>13
  <2> QED
    BY <2>1
<1> QED
  BY <1>12, <1>14 DEF F

LEMMA AllRowsAre ==
  ASSUME BirthInv, TalesInv, NEW q, NEW n, Proper(q, n)
  PROVE  \E keys, S : /\ keys \in Seq(S) /\ ToSet(keys) = KeysOf(q, n)
                      /\ Rowed(q, AllRows(q), keys)
                      /\ AllRows(q) \in Seq({RowOf(q, key) : key \in KeysOf(q, n)})
<1> DEFINE collected == Collected(q)
           found     == [i \in DOMAIN collected |-> KeyOfUnit(collected[i])]
           all       == IF Synthesized(q) THEN found \o Spine(q) ELSE found
           keys      == Inserted(all)
           Row(i)    == RowOf(q, keys[i])
<1>1. AllRows(q) = [i \in DOMAIN keys |-> Row(i)]
  BY DEF AllRows, ComputedRows, GroupKeys, RowOf, GroupOfKey
<1>2. PICK S : found \in Seq(S)
  BY FoundSet, Zenon
<1>3. ToSet(found) = UNION {FoundKeys(q, q.ranges[r]) : r \in 1 .. n}
  BY FoundSet, Zenon
<1>4. PICK T : Spine(q) \in Seq(T)
  BY SpineSet, Zenon
<1>5. ToSet(Spine(q)) = UNION {SpineKeys(q, q.ranges[r]) : r \in 1 .. n}
  BY SpineSet, Zenon
<1> HIDE DEF found
<1> DEFINE K == S \cup T
<1>6. found \in Seq(K) /\ Spine(q) \in Seq(K)
  <2>1. S \subseteq K /\ T \subseteq K
    OBVIOUS
  <2> HIDE DEF K
  <2> QED
    BY <1>2, <1>4, <2>1
<1> HIDE DEF K
<1>7. all \in Seq(K) /\ ToSet(all) = KeysOf(q, n)
  <2>1. found \o Spine(q) \in Seq(K) /\ ToSet(found \o Spine(q)) = ToSet(found) \cup ToSet(Spine(q))
    BY <1>6, AppendedSet
  <2>2. CASE Synthesized(q)
    BY <1>3, <1>5, <2>1, <2>2 DEF KeysOf
  <2>3. CASE ~Synthesized(q)
    BY <1>3, <1>6, <2>3 DEF KeysOf
  <2> QED
    BY <2>2, <2>3
<1> HIDE DEF all
<1>8. /\ keys \in Seq(K) /\ ToSet(keys) = KeysOf(q, n)
      /\ \A a, b \in DOMAIN keys : a # b => keys[a] # keys[b]
  BY <1>7, InsertedKeys
<1> HIDE DEF keys
<1>9. PICK m \in Nat : DOMAIN keys = 1 .. m
  BY <1>8
<1>10. /\ DOMAIN AllRows(q) = DOMAIN keys
       /\ \A i \in DOMAIN keys : AllRows(q)[i] = RowOf(q, keys[i])
  <2> DEFINE rows == AllRows(q)
  <2>1. rows = [i \in DOMAIN keys |-> Row(i)]
    BY <1>1
  <2> HIDE DEF rows
  <2> QED
    BY <2>1 DEF rows
<1>11. AllRows(q) \in Seq({RowOf(q, key) : key \in KeysOf(q, n)})
  <2> DEFINE R == {RowOf(q, key) : key \in KeysOf(q, n)}
  <2>1. \A i \in 1 .. m : Row(i) \in R
    BY <1>8, <1>9 DEF ToSet
  <2> HIDE DEF R, Row
  <2>2. AllRows(q) \in [1 .. m -> R]
    BY <1>1, <1>9, <2>1
  <2> HIDE DEF R
  <2>3. AllRows(q) \in Seq(R)
    BY <2>2
  <2> QED
    BY <2>3 DEF R
<1>12. Rowed(q, AllRows(q), keys)
  BY <1>8, <1>10 DEF Rowed
<1> QED
  BY <1>8, <1>11, <1>12

\* A row whose every cell is a number or a string that has a rank.
RowTyped(q, row) ==
  /\ row.range \in Words
  /\ \A k \in DOMAIN q.dimensions : DimTyped(q.dimensions[k], row.dims[k])
  /\ \A m \in METRICS : row.values[m] \in Int

LEMMA KeysAreTyped ==
  ASSUME BirthInv, TalesInv, WordsInv, NEW q, NEW n, Proper(q, n), NEW key \in KeysOf(q, n)
  PROVE  /\ key.range \in Words
         /\ \A k \in DOMAIN q.dimensions : DimTyped(q.dimensions[k], key.dims[k])
<1>0. \A k \in DOMAIN q.dimensions : q.dimensions[k] \in DIMENSIONS
  BY DEF Proper, ToSet
<1>1. \A r \in 1 .. n : Inside(q.ranges[r])
  BY DEF Proper
<1>2. ASSUME NEW r \in 1 .. n, NEW u \in AdmittedIn(q, q.ranges[r]), key = UnitKey(q, q.ranges[r], u)
      PROVE  /\ key.range \in Words
             /\ \A k \in DOMAIN q.dimensions : DimTyped(q.dimensions[k], key.dims[k])
  <2>1. Fit(u) /\ u.session.date \in q.ranges[r].start .. q.ranges[r].end
    BY <1>1, UnitSetFits DEF AdmittedIn, Inside
  <2>2. u.session.date \in DATE_MIN + 1 .. DATE_MAX - 1
    BY <1>1, <2>1, CalendarAssumption DEF Inside
  <2>3. /\ key.range = q.ranges[r].name
        /\ \A k \in DOMAIN q.dimensions : key.dims[k] = Extract(q.dimensions[k], u)
    BY <1>2 DEF UnitKey, DimsOf
  <2> QED
    BY <1>0, <1>1, <2>1, <2>2, <2>3, ExtractIsTyped DEF Inside
<1>3. ASSUME Synthesized(q),
             NEW r \in 1 .. n, NEW d \in q.ranges[r].start .. q.ranges[r].end, key = DayKey(q, q.ranges[r], d)
      PROVE  /\ key.range \in Words
             /\ \A k \in DOMAIN q.dimensions : DimTyped(q.dimensions[k], key.dims[k])
  <2>1. d \in DATE_MIN + 1 .. DATE_MAX - 1
    BY <1>1, CalendarAssumption DEF Inside
  <2>2. \A k \in DOMAIN q.dimensions : q.dimensions[k] \in DateFamily
    BY <1>3 DEF Synthesized, ToSet
  <2>3. /\ key.range = q.ranges[r].name
        /\ \A k \in DOMAIN q.dimensions : key.dims[k] = FromDate(q.dimensions[k], d)
    BY <1>3 DEF DayKey, DatedDims
  <2> QED
    BY <1>1, <2>1, <2>2, <2>3, DateIsTyped DEF Inside
<1> QED
  BY <1>2, <1>3 DEF KeysOf, FoundKeys, SpineKeys

LEMMA RowsAreTyped ==
  ASSUME BirthInv, TalesInv, WordsInv, NEW q, NEW n, Proper(q, n), NEW key \in KeysOf(q, n)
  PROVE  RowTyped(q, RowOf(q, key))
<1> DEFINE group == GroupOfKey(q, key)
           a == Accumulated(q, group)
<1>1. n \in Nat /\ Ranged(q, n) /\ DOMAIN q.ranges = 1 .. n
  BY DEF Proper, Inside, Ranged
<1>2. PICK S : Collected(q) \in Seq(S)
  BY <1>1, CollectedSet
<1>3. \A c \in ToSet(Collected(q)) : Fair(c.unit)
  BY <1>1, CollectedAre DEF Ranged
<1>4. group \in Seq(S) /\ \A x \in ToSet(group) : Fair(x.unit)
  <2> DEFINE I == {j \in DOMAIN Collected(q) : KeyOfUnit(Collected(q)[j]) = key}
  <2>1. group = Picked(Collected(q), I)
    BY DEF GroupOfKey
  <2> HIDE DEF I, group
  <2>2. group \in Seq(S) /\ \A x \in ToSet(group) : \E i \in DOMAIN Collected(q) \cap I : x = Collected(q)[i]
    BY <1>2, <2>1, PickedMembers
  <2> QED
    BY <1>3, <2>2 DEF ToSet
<1> HIDE DEF group
<1>5. Sound(a)
  BY <1>4, AccumulatedIsSound
<1> HIDE DEF a
<1>6. \A m \in METRICS : Metrics(a)[m] \in Int
  BY <1>5, MetricsAreInts
<1> DEFINE row == RowOf(q, key)
<1>7. row.dims = key.dims /\ row.range = key.range /\ row.values = Metrics(a)
  BY DEF RowOf, a, group
<1> HIDE DEF row
<1>8. RowTyped(q, row)
  BY <1>6, <1>7, KeysAreTyped DEF RowTyped
<1> QED
  BY <1>8 DEF row

LEMMA FieldsApart ==
  /\ Absent \notin METRICS /\ DIMENSIONS \cap METRICS = {}
  /\ Absent \notin DIMENSIONS /\ DIMENSION_RANGE \notin DIMENSIONS
<1>1. METRICS = {"sessions", "totalUsers", "activeUsers", "newUsers", "engagedSessions", "engagementRate",
                 "bounceRate", "averageSessionDuration", "userEngagementDuration", "screenPageViews",
                 "screenPageViewsPerSession", "eventCount", "keyEvents", "sessionKeyEventRate",
                 "sessionsPerUser"}
  BY DEF METRICS, Metrics
<1>2. DIMENSIONS = {"date", "week", "month", "yearMonth", "dayOfWeek",
                    "sessionDefaultChannelGroup", "sessionMedium", "operatingSystem", "landingPage",
                    "pagePath", "eventName", "newVsReturning"}
  BY DEF DIMENSIONS, DateFamily
<1> QED
  BY <1>1, <1>2 DEF Absent, DIMENSION_RANGE

\* The place of a dimension among those asked for.
LEMMA PlaceIs ==
  ASSUME NEW names \in Seq(STRING), NEW name \in ToSet(names)
  PROVE  SelectInSeq(names, LAMBDA n : n = name) \in DOMAIN names
         /\ names[SelectInSeq(names, LAMBDA n : n = name)] = name
<1> DEFINE I == {i \in 1 .. Len(names) : names[i] = name}
<1>1. I \in SUBSET Nat /\ I # {} /\ DOMAIN names = 1 .. Len(names)
  BY DEF ToSet
<1>2. SelectInSeq(names, LAMBDA n : n = name) = IF I # {} THEN Min(I) ELSE 0
  BY DEF SelectInSeq
<1>3. Min(I) \in I
  <2> HIDE DEF I
  <2>1. \E x \in I : \A y \in I : x <= y
    BY <1>1, LeastOf
  <2> QED
    BY <2>1, MinIs
<1> QED
  BY <1>1, <1>2, <1>3

LEMMA RankIsInt ==
  ASSUME NEW q, NEW n, Proper(q, n), NEW row, RowTyped(q, row), NEW c, ~Misdirected(q, c)
  PROVE  RankOf(q, row, c) \in Int
<1>1. CASE c.metric # Absent
  <2>1. c.metric \in METRICS
    BY <1>1 DEF Misdirected, Proper
  <2> QED
    BY <1>1, <2>1 DEF RankOf, RowTyped
<1>2. CASE c.metric = Absent /\ c.dimension = DIMENSION_RANGE
  <2>1. Text[row.range] \in Int
    BY TextAssumption DEF RowTyped
  <2> QED
    BY <1>2, <2>1 DEF RankOf
<1>3. CASE c.metric = Absent /\ c.dimension # DIMENSION_RANGE
  <2> DEFINE name == c.dimension
             k == SelectInSeq(q.dimensions, LAMBDA x : x = c.dimension)
             value == row.dims[k]
  <2>1. name \in ToSet(q.dimensions) /\ q.dimensions \in Seq(STRING) /\ name \in DIMENSIONS
    BY <1>3 DEF Misdirected, Proper
  <2>2. k \in DOMAIN q.dimensions /\ q.dimensions[k] = name
    BY <2>1, PlaceIs
  <2>3. RankOf(q, row, c) = DimensionRank(name, value, c.orderType)
    BY <1>3, Zenon DEF RankOf
  <2> HIDE DEF k
  <2>4. DimTyped(name, value)
    BY <2>2 DEF RowTyped
  <2> HIDE DEF value
  <2>5. DimensionRank(name, value, c.orderType) \in Int
    <3>1. CASE name \in DateFamily
      BY <2>4, <3>1 DEF DimTyped, DimensionRank
    <3>2. CASE name \notin DateFamily
      <4>1. AsNumber(name, value) = 0
        BY <2>1, <3>2, FieldsApart DEF AsNumber
      <4>2. Text[value] \in Int /\ Folded[value] \in Int
        BY <2>4, <3>2, TextAssumption DEF DimTyped
      <4> QED
        BY <3>2, <4>1, <4>2 DEF DimensionRank
    <3> QED
      BY <3>1, <3>2
  <2> QED
    BY <2>3, <2>5
<1> QED
  BY <1>1, <1>2, <1>3

\* Only an order that was asked for may go astray.
LEMMA CriteriaAreDirected ==
  ASSUME NEW q, NEW n, Proper(q, n), ~Crashes(q), NEW k \in 1 .. Len(Criteria(q)),
         \E S : q.orderBys \in Seq(S)
  PROVE  ~Misdirected(q, Criteria(q)[k])
<1>1. CASE q.orderBys # <<>>
  <2>1. Criteria(q) = q.orderBys
    BY <1>1 DEF Criteria
  <2>2. k \in DOMAIN q.orderBys
    BY <2>1
  <2> QED
    BY <2>1, <2>2 DEF Crashes
<1>2. CASE q.orderBys = <<>>
  <2> DEFINE first == Criterion(q.metrics[1], Absent, TRUE, "")
             last == Criterion(Absent, DIMENSION_RANGE, FALSE, "")
             D(i) == Criterion(Absent, q.dimensions[i], FALSE, "ALPHANUMERIC")
             A == IF q.metrics = <<>> THEN <<>> ELSE <<first>>
             B == [i \in DOMAIN q.dimensions |-> D(i)]
             C == <<last>>
             All == {first, last} \cup {D(i) : i \in DOMAIN q.dimensions}
             Good == {c \in All : ~Misdirected(q, c)}
  <2>1. Criteria(q) = A \o B \o C
    BY <1>2 DEF Criteria
  <2>2. PICK m \in Nat : DOMAIN q.dimensions = 1 .. m
    BY DEF Proper
  <2>3. last \in Good
    BY DEF Misdirected, Criterion
  <2>4. ASSUME NEW i \in 1 .. m  PROVE D(i) \in Good
    <3>1. q.dimensions[i] \in ToSet(q.dimensions)
      BY <2>2 DEF ToSet
    <3>2. ~Misdirected(q, D(i))
      BY <3>1 DEF Misdirected, Criterion
    <3>3. D(i) \in All
      BY <2>2
    <3> HIDE DEF D, All
    <3> QED
      BY <3>2, <3>3
  <2>5. q.metrics # <<>> => first \in Good
    <3> SUFFICES ASSUME q.metrics # <<>> PROVE first \in Good
      OBVIOUS
    <3>1. q.metrics[1] \in ToSet(q.metrics) /\ q.metrics[1] \in METRICS
      BY DEF Proper, ToSet
    <3>2. ~Misdirected(q, first)
      BY <3>1, FieldsApart DEF Misdirected, Criterion
    <3>3. first \in All
      OBVIOUS
    <3> HIDE DEF first, All
    <3> QED
      BY <3>2, <3>3
  <2> HIDE DEF first, last, D, Good
  <2>6. C \in Seq(Good)
    BY <2>3
  <2>7. A \in Seq(Good)
    BY <2>5
  <2>8. B \in Seq(Good)
    <3>1. B \in [1 .. m -> Good]
      BY <2>2, <2>4
    <3> QED
      BY <3>1
  <2> HIDE DEF A, B, C
  <2>9. A \o B \o C \in Seq(Good)
    BY <2>6, <2>7, <2>8
  <2>10. Criteria(q)[k] \in Good
    BY <2>1, <2>9
  <2> QED
    BY <2>10 DEF Good
<1> QED
  BY <1>1, <1>2

(***************************************************************************)
(* What was answered is still what would be                                 *)
(***************************************************************************)
LEMMA RowsStay ==
  ASSUME UNCHANGED gvars, NEW CONSTANT q
  PROVE  FinalRows(q)' = FinalRows(q) /\ Collected(q)' = Collected(q)
<1> DEFINE Days(range) == [i \in DOMAIN DaysOf(range) |-> SessionsOf(DaysOf(range)[i])]
           Lists(sessions) == [i \in DOMAIN sessions |-> UnitsOf(q, sessions[i])]
           Admitted(units) == Picked(units, {i \in DOMAIN units : Admits(q.dimensionFilter, q, units[i])})
           In(range, admitted) ==
             [i \in DOMAIN admitted |->
                [unit |-> admitted[i], range |-> range.name,
                 dims |-> [k \in DOMAIN q.dimensions |-> Extract(q.dimensions[k], admitted[i])]]]
<1>0. world' = world
  BY DEF gvars
<1>1. ASSUME NEW CONSTANT d  PROVE SessionsOf(d)' = SessionsOf(d)
  BY <1>0 DEF SessionsOf, Building
<1>2. ASSUME NEW CONSTANT range  PROVE Days(range)' = Days(range)
  BY <1>1
<1>3. ASSUME NEW CONSTANT range
      PROVE  UnitsIn(q, range) = In(range, Admitted(FlattenSeq(Lists(FlattenSeq(Days(range))))))
  BY DEF UnitsIn
<1> HIDE DEF Days
<1>4. ASSUME NEW CONSTANT range
      PROVE  UnitsIn(q, range)' = In(range, Admitted(FlattenSeq(Lists(FlattenSeq(Days(range)'))))) 
  BY DEF UnitsIn, Days
<1> HIDE DEF Lists, Admitted, In
<1>5. ASSUME NEW CONSTANT range  PROVE UnitsIn(q, range)' = UnitsIn(q, range)
  BY <1>2, <1>3, <1>4
<1> DEFINE seqs == [i \in DOMAIN q.ranges |-> UnitsIn(q, q.ranges[i])]
<1>6. seqs' = seqs
  BY <1>5
<1>7. Collected(q) = FlattenSeq(seqs) /\ Collected(q)' = FlattenSeq(seqs')
  BY DEF Collected
<1> HIDE DEF seqs
<1>8. Collected(q)' = Collected(q)
  BY <1>6, <1>7
<1> DEFINE Rows(units) == ComputedRows(q, units, GroupKeys(q, [i \in DOMAIN units |-> KeyOfUnit(units[i])]))
           Final(rows) == Ordered(q, Having(q, rows))
<1>9. AllRows(q) = Rows(Collected(q)) /\ AllRows(q)' = Rows(Collected(q)')
  BY DEF AllRows
<1>10. FinalRows(q) = Final(AllRows(q)) /\ FinalRows(q)' = Final(AllRows(q)')
  BY DEF FinalRows
<1> HIDE DEF Rows, Final
<1> QED
  BY <1>8, <1>9, <1>10


LEMMA AggregatesStay ==
  ASSUME UNCHANGED gvars, NEW CONSTANT q
  PROVE  Aggregates(q, FinalRows(q))' = Aggregates(q, FinalRows(q))
<1> DEFINE Of(rows, units) ==
             IF rows = <<>> \/ q.metrics = <<>> THEN [a \in {} |-> <<>>]
             ELSE [a \in ToSet(q.aggregations) |->
                     [r \in DOMAIN q.ranges |-> Aggregate(q, rows, units, a, q.ranges[r])]]
<1>1. Aggregates(q, FinalRows(q)) = Of(FinalRows(q), Collected(q))
  BY DEF Aggregates
<1>2. Aggregates(q, FinalRows(q))' = Of(FinalRows(q)', Collected(q)')
  BY DEF Aggregates
<1> HIDE DEF Of
<1> QED
  BY <1>1, <1>2, RowsStay

\* While an answer is read the world stays, and the answer is what the query
\* comes to in it.
Answers(i) ==
  LET q == Queries[i] IN
  /\ i \in Accepted /\ ~Crashes(q)
  /\ reply.rows = FinalRows(q)
  /\ reply.aggregates = Aggregates(q, FinalRows(q))
  /\ reply.page = Page(q, FinalRows(q))
AnsweredInv == Served => WorldDone /\ \E i \in DOMAIN Bodies : reply.body = i /\ Answers(i)

LEMMA AnsweredStay ==
  ASSUME UNCHANGED rvars, AnsweredInv  PROVE AnsweredInv'
<1>0. UNCHANGED gvars /\ reply' = reply
  BY DEF rvars
<1>1. WorldDone' = WorldDone
  BY <1>0 DEF gvars, WorldDone, DayDone, Building, Index, Sessions
<1>2. ASSUME NEW CONSTANT b, Answers(b)  PROVE Answers(b)'
  <2> DEFINE q == Queries[b]
  <2>1. FinalRows(q)' = FinalRows(q) /\ Aggregates(q, FinalRows(q))' = Aggregates(q, FinalRows(q))
    BY <1>0, RowsStay, AggregatesStay
  <2> QED
    BY <1>0, <1>2, <2>1 DEF Answers
<1>3. ASSUME Served  PROVE \E i \in DOMAIN Bodies : reply'.body = i /\ Answers(i)'
  <2>1. PICK i \in DOMAIN Bodies : reply.body = i /\ Answers(i)
    BY <1>3 DEF AnsweredInv
  <2>2. Answers(i)'
    BY <1>2, <2>1
  <2> QED
    BY <1>0, <2>1, <2>2
<1> QED
  BY <1>0, <1>1, <1>3 DEF AnsweredInv, Served

LEMMA AnsweredStep == BirthInv /\ AnsweredInv /\ [Next]_rvars => AnsweredInv'
<1> SUFFICES ASSUME BirthInv, AnsweredInv, [Next]_rvars PROVE AnsweredInv'
  OBVIOUS
<1>1. CASE UNCHANGED rvars
  BY <1>1, AnsweredStay
<1>2. ASSUME Build, UNCHANGED reply  PROVE AnsweredInv'
  <2>0. Building \in Int /\ LastDay \in Int /\ (Building < LastDay => Building # LastDay)
    BY HistoryAssumption DEF BirthInv, WorldTyped, Building
  <2>1. ~WorldDone
    BY <1>2, <2>0, Zenon DEF Build, WorldDone, OpenDay, AddNew, AddReturning
  <2> QED
    BY <1>2, <2>1 DEF AnsweredInv, Served
<1>3. ASSUME NEW i \in DOMAIN Bodies, Refuse(i) \/ OverQuota(i) \/ Fail(i)
      PROVE  AnsweredInv'
  <2>1. reply'.status \in {400, 429, 500}
    BY <1>3 DEF Refuse, OverQuota, Fail, Failure, Answer
  <2> QED
    BY <2>1 DEF AnsweredInv, Served
<1>4. ASSUME NEW i \in DOMAIN Bodies, Serve(i)  PROVE AnsweredInv'
  <2> DEFINE q == Queries[i]
  <2>1. /\ i \in Accepted /\ WorldDone /\ ~Crashes(q) /\ UNCHANGED gvars
        /\ reply' = Result(i, q, FinalRows(q))
    BY <1>4 DEF Serve, Asked
  <2>2. WorldDone' = WorldDone
    BY <2>1 DEF gvars, WorldDone, DayDone, Building, Index, Sessions
  <2>3. FinalRows(q)' = FinalRows(q) /\ Aggregates(q, FinalRows(q))' = Aggregates(q, FinalRows(q))
    BY <2>1, RowsStay, AggregatesStay
  <2>4. /\ reply'.body = i /\ reply'.rows = FinalRows(q)
        /\ reply'.page = Page(q, FinalRows(q)) /\ reply'.aggregates = Aggregates(q, FinalRows(q))
    BY <2>1, Zenon DEF Result, Answer
  <2>5. Answers(i)'
    BY <2>1, <2>3, <2>4 DEF Answers
  <2> QED
    BY <1>4, <2>1, <2>2, <2>4, <2>5 DEF AnsweredInv
<1>5. CASE Read
  <2>1. reply'.status # 200
    BY <1>5 DEF Read, NoReply, Failure, Answer
  <2> QED
    BY <2>1 DEF AnsweredInv, Served
<1> QED
  BY <1>1, <1>2, <1>3, <1>4, <1>5 DEF Next

(***************************************************************************)
(* The order of the rows                                                    *)
(***************************************************************************)
RowSet(q, n) == {RowOf(q, key) : key \in KeysOf(q, n)}

\* The rows that pass the filter: a list of rows, of numbers and known strings.
LEMMA HavingIs ==
  ASSUME BirthInv, TalesInv, WordsInv, NEW q, NEW n, Proper(q, n)
  PROVE  /\ AllRows(q) \in Seq(RowSet(q, n)) /\ Having(q, AllRows(q)) \in Seq(RowSet(q, n))
         /\ \A row \in RowSet(q, n) : RowTyped(q, row)
<1> DEFINE R == RowSet(q, n)
<1>1. AllRows(q) \in Seq(R)
  BY AllRowsAre, Zenon DEF RowSet
<1>2. \A row \in R : RowTyped(q, row)
  BY RowsAreTyped, Zenon DEF RowSet
<1> HIDE DEF R
<1>3. Having(q, AllRows(q)) \in Seq(R)
  BY <1>1, PickedMembers DEF Having
<1> QED
  BY <1>1, <1>2, <1>3 DEF R

LEMMA RowsAreRanked ==
  ASSUME NEW q, NEW n, Proper(q, n), ~Crashes(q), \E S : q.orderBys \in Seq(S),
         NEW R, \A row \in R : RowTyped(q, row), NEW rows \in Seq(R),
         NEW k \in 1 .. Len(Criteria(q))
  PROVE  Ranked(q, rows, Criteria(q)[k])
<1> DEFINE c == Criteria(q)[k]
<1>1. ~Misdirected(q, c)
  BY CriteriaAreDirected
<1> HIDE DEF c
<1>2. \A i \in DOMAIN rows : rows[i] \in R
  OBVIOUS
<1>3. \A i \in DOMAIN rows : RankOf(q, rows[i], c) \in Int
  BY <1>1, <1>2, RankIsInt
<1> QED
  BY <1>3 DEF Ranked, c

LEMMA PermutedSet ==
  ASSUME NEW R, NEW rows \in Seq(R), NEW s \in Seq(R), NEW p, Arranges(s, rows, p, Len(rows)), Len(s) = Len(rows)
  PROVE  ToSet(s) = ToSet(rows)
<1>0. PICK m \in Nat : m = Len(rows) /\ DOMAIN rows = 1 .. m /\ DOMAIN s = 1 .. m
  OBVIOUS
<1>1. /\ p \in [1 .. m -> 1 .. m] /\ \A a \in 1 .. m : s[a] = rows[p[a]]
      /\ \A k \in 1 .. m : \E a \in 1 .. m : p[a] = k
  BY <1>0 DEF Arranges, Permutes
<1>2. \A a \in 1 .. m : p[a] \in 1 .. m
  BY <1>1
<1> QED
  BY <1>0, <1>1, <1>2 DEF ToSet

\* A served query's rows.
OrderBysAreList(q) == \E S : q.orderBys \in Seq(S)

LEMMA QueryIsOrdered ==
  ASSUME NEW b \in Accepted
  PROVE  OrderBysAreList(Queries[b])
<1>1. b \in DOMAIN Bodies /\ Queries[b].orderBys = Bodies[b].orderBys
  BY QueryIs DEF Query
<1> QED
  BY <1>1, BodiesAssumption DEF IsList, OrderBysAreList

LEMMA FinalRowsAre ==
  ASSUME BirthInv, TalesInv, WordsInv, NEW q, NEW n, Proper(q, n), ~Crashes(q), OrderBysAreList(q)
  PROVE  /\ FinalRows(q) \in Seq(RowSet(q, n))
         /\ Len(FinalRows(q)) = Len(Having(q, AllRows(q)))
         /\ \E p : /\ Arranges(FinalRows(q), Having(q, AllRows(q)), p, Len(Having(q, AllRows(q))))
                  /\ Follows(q, 1, FinalRows(q), p, Len(Having(q, AllRows(q))))
         /\ InOrder(q, 1, FinalRows(q), Len(FinalRows(q)))
         /\ ToSet(FinalRows(q)) = ToSet(Having(q, AllRows(q)))
<1> DEFINE R == RowSet(q, n)
           rows == Having(q, AllRows(q))
<1>1. rows \in Seq(R) /\ \A row \in R : RowTyped(q, row)
  BY HavingIs, Zenon
<1> HIDE DEF R, rows
<1>2. Len(Criteria(q)) \in Nat
  BY DEF Proper
<1>3. \A k \in 1 .. Len(Criteria(q)) : Ranked(q, rows, Criteria(q)[k])
  BY <1>1, RowsAreRanked DEF OrderBysAreList
<1>4. Ordered(q, rows) \in Seq(R) /\ Len(Ordered(q, rows)) = Len(rows)
  BY <1>1, <1>2, OrderIs
<1>5. PICK p : Arranges(Ordered(q, rows), rows, p, Len(rows)) /\ Follows(q, 1, Ordered(q, rows), p, Len(rows))
  BY <1>1, <1>2, <1>3, OrderSorts
<1>6. InOrder(q, 1, Ordered(q, rows), Len(rows))
  BY <1>1, <1>2, <1>3, OrderSorts
<1>7. ToSet(Ordered(q, rows)) = ToSet(rows)
  BY <1>1, <1>4, <1>5, PermutedSet
<1>8. FinalRows(q) = Ordered(q, rows)
  BY DEF FinalRows, rows
<1> QED
  BY <1>4, <1>5, <1>6, <1>7, <1>8 DEF R, rows

LEMMA OrderFollows == BirthInv /\ TalesInv /\ WordsInv /\ AnsweredInv => OrderIsLexicographic
<1> SUFFICES ASSUME BirthInv, TalesInv, WordsInv, AnsweredInv, Served
             PROVE  /\ \A i, j \in DOMAIN reply.rows : i < j =>
                         /\ ~InFront(reply.rows[j], reply.rows[i])
                         /\ InFront(reply.rows[i], reply.rows[j]) \/ FoundBefore(reply.rows[i], reply.rows[j])
                    /\ ToSet(reply.rows) = ToSet(Having(Q, AllRows(Q)))
  BY DEF OrderIsLexicographic
<1>1. PICK b \in DOMAIN Bodies : reply.body = b /\ Answers(b)
  BY DEF AnsweredInv
<1> DEFINE q == Queries[b]
<1>2. b \in Accepted /\ ~Crashes(q) /\ reply.rows = FinalRows(q) /\ Q = q
  BY <1>1 DEF Answers, Q
<1>3. PICK n : Proper(q, n)
  BY <1>2, QueryIsProper
<1>4. OrderBysAreList(q)
  BY <1>2, QueryIsOrdered
<1> HIDE DEF q
<1> DEFINE found == Having(q, AllRows(q))
           rows  == FinalRows(q)
<1>5. PICK R : rows \in Seq(R) /\ found \in Seq(R)
  BY <1>2, <1>3, <1>4, FinalRowsAre, HavingIs, Zenon
<1>6. InOrder(q, 1, rows, Len(rows))
  BY <1>2, <1>3, <1>4, FinalRowsAre, Zenon
<1>7. ToSet(rows) = ToSet(found)
  BY <1>2, <1>3, <1>4, FinalRowsAre, Zenon
<1>8. PICK p : Arranges(rows, found, p, Len(found)) /\ Follows(q, 1, rows, p, Len(found))
  BY <1>2, <1>3, <1>4, FinalRowsAre, Zenon
<1>9. Len(rows) = Len(found)
  BY <1>2, <1>3, <1>4, FinalRowsAre, Zenon
<1> HIDE DEF rows, found
<1>10. PICK m \in Nat : m = Len(rows) /\ DOMAIN rows = 1 .. m /\ DOMAIN found = 1 .. m /\ m = Len(found)
  BY <1>5, <1>9
<1>11. \A x, y : InFront(x, y) <=> AheadFrom(q, 1, x, y)
  <2>1. Len(Criteria(q)) \in Nat
    BY <1>3 DEF Proper
  <2>2. DOMAIN Criteria(q) = 1 .. Len(Criteria(q))
    BY <2>1
  <2> QED
    BY <1>2, <2>2 DEF InFront, AheadFrom
<1>12. ASSUME NEW i \in 1 .. m, NEW j \in 1 .. m, i < j
       PROVE  /\ ~InFront(rows[j], rows[i])
              /\ InFront(rows[i], rows[j]) \/ FoundBefore(rows[i], rows[j])
  <2>1. ~AheadFrom(q, 1, rows[j], rows[i])
    BY <1>6, <1>10, <1>12 DEF InOrder
  <2>2. AheadFrom(q, 1, rows[i], rows[j]) \/ p[i] < p[j]
    BY <1>8, <1>10, <1>12 DEF Follows
  <2>3. p[i] \in 1 .. m /\ p[j] \in 1 .. m /\ rows[i] = found[p[i]] /\ rows[j] = found[p[j]]
    BY <1>8, <1>10 DEF Arranges, Permutes
  <2>4. p[i] < p[j] => FoundBefore(rows[i], rows[j])
    BY <1>2, <1>10, <2>3 DEF FoundBefore, found
  <2> QED
    BY <1>11, <2>1, <2>2, <2>4
<1> QED
  BY <1>2, <1>7, <1>10, <1>12 DEF rows, found

LEMMA AnswersInit == Init => BirthInv /\ TalesInv /\ WordsInv /\ AnsweredInv
<1>1. Init => AnsweredInv
  BY DEF Init, NoReply, Failure, Answer, Served, AnsweredInv
<1>2. Init => TalesInv
  BY DEF Init, GInit, TalesInv
<1> QED
  BY <1>1, <1>2, BirthInit, WordsInit DEF Init

\* The rows of an answer are those that pass the metric filter, in the order of
\* the first criterion, ties in that of the next: the sorts are applied from the
\* last to the first, each of them stable (report.py:560-583).
THEOREM RowsComeInOrder == Spec => []OrderIsLexicographic
<1> DEFINE Inv == BirthInv /\ TalesInv /\ WordsInv /\ AnsweredInv
<1>1. Init => Inv
  BY AnswersInit
<1>2. Inv /\ [Next]_rvars => Inv'
  BY BirthStep, TalesStep, WordsStep, AnsweredStep
<1>3. Inv => OrderIsLexicographic
  BY OrderFollows
<1> QED
  BY <1>1, <1>2, <1>3, PTL DEF Spec

(***************************************************************************)
(* The extremes                                                             *)
(***************************************************************************)
\* Of finitely many numbers, at least one, there is a largest and a least.
LEMMA ExtremesExist ==
  ASSUME NEW n \in Nat, NEW I \in SUBSET (1 .. n), I # {}, NEW f, \A i \in I : f[i] \in Int
  PROVE  /\ \E i \in I : \A j \in I : f[j] <= f[i]
         /\ \E i \in I : \A j \in I : f[i] <= f[j]
<1>1. PICK o \in I : TRUE
  OBVIOUS
<1>2. n \in Nat \ {0} /\ o \in 1 .. n
  BY <1>1
<1> DEFINE up == [i \in 1 .. n |-> IF i \in I THEN f[i] ELSE f[o]]
           down == [i \in 1 .. n |-> IF i \in I THEN -f[i] ELSE -f[o]]
<1>3. \A i \in I : i \in 1 .. n /\ up[i] = f[i] /\ down[i] = -f[i]
  OBVIOUS
<1>4. \A i \in 1 .. n : \E k \in I : up[i] = f[k] /\ down[i] = -f[k]
  BY <1>1
<1> HIDE DEF up, down
<1>5. \A i \in 1 .. n : up[i] \in Int /\ down[i] \in Int
  BY <1>4
<1>6. \E i \in 1 .. n : \A j \in 1 .. n : up[j] <= up[i]
  BY <1>2, <1>5, LargestOf
<1>7. \E i \in 1 .. n : \A j \in 1 .. n : down[j] <= down[i]
  BY <1>2, <1>5, LargestOf
<1>8. \E i \in I : \A j \in I : f[j] <= f[i]
  <2>1. PICK i \in 1 .. n : \A j \in 1 .. n : up[j] <= up[i]
    BY <1>6
  <2>2. PICK k \in I : up[i] = f[k]
    BY <1>4
  <2> QED
    BY <1>3, <2>1, <2>2
<1>9. \E i \in I : \A j \in I : f[i] <= f[j]
  <2>1. PICK i \in 1 .. n : \A j \in 1 .. n : down[j] <= down[i]
    BY <1>7
  <2>2. PICK k \in I : down[i] = -f[k]
    BY <1>4
  <2>3. \A j \in I : f[k] <= f[j]
    BY <1>3, <2>1, <2>2
  <2> QED
    BY <2>2, <2>3
<1> QED
  BY <1>8, <1>9

\* Numbers that have a largest and a least.
Spanned(values) ==
  /\ Max(values) \in values /\ \A v \in values : v <= Max(values)
  /\ Min(values) \in values /\ \A v \in values : Min(values) <= v

RowsIn(rows, range) == {i \in DOMAIN rows : rows[i].range = range.name}
ValuesIn(rows, range, m) == {rows[i].values[m] : i \in RowsIn(rows, range)}

\* The candidates of a range that has rows.
LEMMA CandidatesAre ==
  ASSUME NEW R, NEW rows \in Seq(R), NEW m, \A row \in R : row.values[m] \in Int, NEW range,
         RowsIn(rows, range) # {}
  PROVE  /\ Candidates(rows, range, m) = ValuesIn(rows, range, m)
         /\ Spanned(ValuesIn(rows, range, m))
<1> DEFINE I == RowsIn(rows, range)
           values == ValuesIn(rows, range, m)
<1>0. PICK n \in Nat : DOMAIN rows = 1 .. n
  OBVIOUS
<1>1. Candidates(rows, range, m) = values
  BY Zenon DEF Candidates, RowsIn, ValuesIn
<1> DEFINE f == [i \in 1 .. n |-> rows[i].values[m]]
<1>2. I # {} /\ I \in SUBSET (1 .. n) /\ \A i \in I : f[i] = rows[i].values[m]
  BY <1>0 DEF RowsIn
<1>3. \A i \in I : f[i] \in Int
  BY <1>0, <1>2
<1> HIDE DEF f
<1>4. values = {f[i] : i \in I} /\ values \subseteq Int
  BY <1>2, <1>3 DEF ValuesIn
<1> HIDE DEF values, I
<1>5. \E x \in values : \A y \in values : x >= y
  <2>1. PICK i \in I : \A j \in I : f[j] <= f[i]
    BY <1>2, <1>3, ExtremesExist
  <2> QED
    BY <1>3, <1>4, <2>1
<1>6. \E x \in values : \A y \in values : x <= y
  <2>1. PICK i \in I : \A j \in I : f[i] <= f[j]
    BY <1>2, <1>3, ExtremesExist
  <2> QED
    BY <1>3, <1>4, <2>1
<1>7. Max(values) \in values /\ \A y \in values : Max(values) >= y
  BY <1>5, MaxIs
<1>8. Min(values) \in values /\ \A y \in values : Min(values) <= y
  BY <1>6, MinIs
<1> QED
  BY <1>1, <1>4, <1>7, <1>8 DEF Spanned, values

LEMMA ExtremesFollow == BirthInv /\ TalesInv /\ WordsInv /\ AnsweredInv => ExtremesReached
<1> SUFFICES ASSUME BirthInv, TalesInv, WordsInv, AnsweredInv, Served,
                    {"MAXIMUM", "MINIMUM"} \subseteq DOMAIN reply.aggregates,
                    NEW r \in DOMAIN Q.ranges, NEW m \in ToSet(Q.metrics),
                    NEW values, values = {reply.rows[i].values[m] : i \in RowsOf(r)}, values # {}
             PROVE  /\ {reply.aggregates["MAXIMUM"][r][m], reply.aggregates["MINIMUM"][r][m]} \subseteq values
                    /\ \A v \in values : /\ reply.aggregates["MINIMUM"][r][m] <= v
                                         /\ v <= reply.aggregates["MAXIMUM"][r][m]
  BY DEF ExtremesReached
<1>1. PICK b \in DOMAIN Bodies : reply.body = b /\ Answers(b)
  BY DEF AnsweredInv
<1> DEFINE q == Queries[b]
           rows == FinalRows(q)
           units == Collected(q)
<1>2. /\ b \in Accepted /\ ~Crashes(q) /\ reply.rows = rows /\ Q = q
      /\ reply.aggregates = Aggregates(q, rows)
  BY <1>1 DEF Answers, Q
<1>3. PICK n : Proper(q, n)
  BY <1>2, QueryIsProper
<1>4. OrderBysAreList(q)
  BY <1>2, QueryIsOrdered
<1> HIDE DEF q
<1> DEFINE R == RowSet(q, n)
<1>5. rows \in Seq(R)
  BY <1>2, <1>3, <1>4, FinalRowsAre, Zenon
<1>6. \A row \in R : RowTyped(q, row)
  BY <1>3, HavingIs, Zenon
<1>7. m \in METRICS
  BY <1>2, <1>3 DEF Proper
<1>8. \A row \in R : row.values[m] \in Int
  BY <1>6, <1>7 DEF RowTyped
<1> HIDE DEF R, rows, units
<1>9. Aggregates(q, rows) = [a \in ToSet(q.aggregations) |->
                               [s \in DOMAIN q.ranges |-> Aggregate(q, rows, units, a, q.ranges[s])]]
  <2>1. ~(rows = <<>> \/ q.metrics = <<>>)
    BY <1>2 DEF Aggregates
  <2> QED
    BY <2>1 DEF Aggregates, units
<1>10. ASSUME NEW a \in {"MAXIMUM", "MINIMUM"}
       PROVE  reply.aggregates[a][r][m] = Aggregate(q, rows, units, a, q.ranges[r])[m]
  <2>1. a \in ToSet(q.aggregations) /\ r \in DOMAIN q.ranges
    BY <1>2, <1>9
  <2> QED
    BY <1>2, <1>9, <2>1
<1>11. /\ RowsIn(rows, q.ranges[r]) = RowsOf(r) /\ values = ValuesIn(rows, q.ranges[r], m)
       /\ RowsIn(rows, q.ranges[r]) # {}
  BY <1>2 DEF RowsOf, RowsIn, ValuesIn
<1>12. Candidates(rows, q.ranges[r], m) = values /\ Spanned(values)
  BY <1>5, <1>8, <1>11, CandidatesAre
<1>13. m \in ToSet(q.metrics)
  BY <1>2
<1>14. Aggregate(q, rows, units, "MAXIMUM", q.ranges[r])[m] = Max(values)
  BY <1>12, <1>13 DEF Aggregate
<1>15. Aggregate(q, rows, units, "MINIMUM", q.ranges[r])[m] = Min(values)
  BY <1>12, <1>13 DEF Aggregate
<1> QED
  BY <1>10, <1>12, <1>14, <1>15 DEF Spanned

\* The largest and the least that an answer gives of a range bound its rows and
\* are among them: they are taken of its own rows, as they are returned.
THEOREM ExtremesAreReached == Spec => []ExtremesReached
<1> DEFINE Inv == BirthInv /\ TalesInv /\ WordsInv /\ AnsweredInv
<1>1. Init => Inv
  BY AnswersInit
<1>2. Inv /\ [Next]_rvars => Inv'
  BY BirthStep, TalesStep, WordsStep, AnsweredStep
<1>3. Inv => ExtremesReached
  BY ExtremesFollow
<1> QED
  BY <1>1, <1>2, <1>3, PTL DEF Spec

(***************************************************************************)
(* Empty rows                                                               *)
(***************************************************************************)
\* The rows of a list have each a key of its own.
Keyed(q, n, rows, keys) ==
  \A i \in DOMAIN rows : /\ keys[i] \in KeysOf(q, n) /\ rows[i] = RowOf(q, keys[i])
                         /\ \A j \in DOMAIN rows : i # j => keys[i] # keys[j]

LEMMA AllRowsAreKeyed ==
  ASSUME BirthInv, TalesInv, NEW q, NEW n, Proper(q, n)
  PROVE  /\ \E keys : Keyed(q, n, AllRows(q), keys)
         /\ ToSet(AllRows(q)) = RowSet(q, n)
<1> DEFINE rows == AllRows(q)
<1>1. PICK keys, S : /\ keys \in Seq(S) /\ ToSet(keys) = KeysOf(q, n) /\ Rowed(q, rows, keys)
                     /\ rows \in Seq({RowOf(q, key) : key \in KeysOf(q, n)})
  BY AllRowsAre, Zenon
<1> HIDE DEF rows
<1>2. /\ DOMAIN rows = DOMAIN keys /\ \A i \in DOMAIN keys : rows[i] = RowOf(q, keys[i])
      /\ \A i, j \in DOMAIN keys : i # j => keys[i] # keys[j]
  BY <1>1 DEF Rowed
<1>3. \A i \in DOMAIN keys : keys[i] \in KeysOf(q, n)
  BY <1>1 DEF ToSet
<1>4. \A key \in KeysOf(q, n) : \E i \in DOMAIN keys : keys[i] = key
  BY <1>1 DEF ToSet
<1>5. Keyed(q, n, rows, keys)
  BY <1>2, <1>3 DEF Keyed
<1>6. ToSet(rows) = RowSet(q, n)
  <2>1. \A x \in ToSet(rows) : x \in RowSet(q, n)
    BY <1>2, <1>3 DEF ToSet, RowSet
  <2>2. \A x \in RowSet(q, n) : x \in ToSet(rows)
    BY <1>2, <1>4 DEF ToSet, RowSet
  <2> QED
    BY <2>1, <2>2
<1> QED
  BY <1>5, <1>6 DEF rows

\* What is picked of rows has their keys, and so has another order of them.
LEMMA PickedAreKeyed ==
  ASSUME NEW q, NEW n, NEW R, NEW rows \in Seq(R), NEW keys, Keyed(q, n, rows, keys), NEW I
  PROVE  \E k : Keyed(q, n, Picked(rows, I), k)
<1> DEFINE t == Picked(rows, I)
<1>1. PICK g : Selection(g, t, rows, I, Len(rows))
  BY PickedSelects, Zenon
<1>2. t \in Seq(R)
  BY PickedSelects, Zenon
<1> HIDE DEF t
<1>3. PICK m \in Nat, l \in Nat : m = Len(rows) /\ l = Len(t) /\ DOMAIN rows = 1 .. m /\ DOMAIN t = 1 .. l
  BY <1>2
<1>4. /\ \A a \in 1 .. l : g[a] \in 1 .. m /\ t[a] = rows[g[a]]
      /\ \A a, b \in 1 .. l : a < b => g[a] < g[b]
  BY <1>1, <1>3 DEF Selection
<1>5. \A a, b \in 1 .. l : a # b => g[a] # g[b]
  BY <1>4
<1> DEFINE k == [a \in 1 .. l |-> keys[g[a]]]
<1>6. \A a \in 1 .. l : k[a] = keys[g[a]]
  OBVIOUS
<1> HIDE DEF k
<1>7. Keyed(q, n, t, k)
  BY <1>3, <1>4, <1>5, <1>6 DEF Keyed
<1> QED
  BY <1>7 DEF t

LEMMA ArrangedAreKeyed ==
  ASSUME NEW q, NEW n, NEW R, NEW rows \in Seq(R), NEW keys, Keyed(q, n, rows, keys),
         NEW s \in Seq(R), Len(s) = Len(rows), NEW p, Arranges(s, rows, p, Len(rows))
  PROVE  \E k : Keyed(q, n, s, k)
<1>3. PICK m \in Nat : m = Len(rows) /\ DOMAIN rows = 1 .. m /\ DOMAIN s = 1 .. m
  OBVIOUS
<1>4. /\ \A a \in 1 .. m : p[a] \in 1 .. m /\ s[a] = rows[p[a]]
      /\ \A a, b \in 1 .. m : a < b => p[a] # p[b]
  BY <1>3 DEF Arranges, Permutes
<1>5. ASSUME NEW a \in 1 .. m, NEW b \in 1 .. m, a # b  PROVE p[a] # p[b]
  <2>1. a < b \/ b < a
    BY <1>5
  <2> QED
    BY <1>4, <2>1
<1> DEFINE k == [a \in 1 .. m |-> keys[p[a]]]
<1>6. \A a \in 1 .. m : k[a] = keys[p[a]]
  OBVIOUS
<1> HIDE DEF k
<1>7. Keyed(q, n, s, k)
  BY <1>3, <1>4, <1>5, <1>6 DEF Keyed
<1> QED
  BY <1>7

LEMMA FinalRowsAreKeyed ==
  ASSUME BirthInv, TalesInv, WordsInv, NEW q, NEW n, Proper(q, n), ~Crashes(q), OrderBysAreList(q)
  PROVE  \E keys : Keyed(q, n, FinalRows(q), keys)
<1> DEFINE R == RowSet(q, n)
           all == AllRows(q)
           rows == Having(q, all)
           final == FinalRows(q)
<1>1. PICK keys : Keyed(q, n, all, keys)
  BY AllRowsAreKeyed, Zenon
<1>2. all \in Seq(R)
  BY HavingIs, Zenon
<1>3. rows \in Seq(R)
  BY HavingIs, Zenon
<1>4. final \in Seq(R)
  BY FinalRowsAre, Zenon
<1>5. Len(final) = Len(rows)
  BY FinalRowsAre, Zenon
<1>6. PICK p : Arranges(final, rows, p, Len(rows))
  BY FinalRowsAre, Zenon
<1> DEFINE I == {i \in DOMAIN all : Holds(q.metricFilter, all[i].values)}
<1>7. rows = Picked(all, I)
  BY DEF Having
<1> HIDE DEF R, all, rows, final, I
<1>8. PICK k : Keyed(q, n, rows, k)
  BY <1>1, <1>2, <1>7, PickedAreKeyed
<1>9. \E k2 : Keyed(q, n, final, k2)
  BY <1>3, <1>4, <1>5, <1>6, <1>8, ArrangedAreKeyed
<1> QED
  BY <1>9 DEF final

\* Without a metric filter every row is returned.
LEMMA AllAreReturned ==
  ASSUME BirthInv, TalesInv, WordsInv, NEW q, NEW n, Proper(q, n), ~Crashes(q), OrderBysAreList(q),
         q.metricFilter = <<>>
  PROVE  ToSet(FinalRows(q)) = RowSet(q, n)
<1> DEFINE R == RowSet(q, n)
           all == AllRows(q)
           rows == Having(q, all)
<1>1. ToSet(FinalRows(q)) = ToSet(rows)
  BY FinalRowsAre, Zenon
<1>2. all \in Seq(R)
  BY HavingIs, Zenon
<1>3. ToSet(all) = R
  BY AllRowsAreKeyed, Zenon
<1> DEFINE I == {i \in DOMAIN all : Holds(q.metricFilter, all[i].values)}
<1>4. rows = Picked(all, I)
  BY DEF Having
<1>5. \A values : Holds(q.metricFilter, values)
  BY DEF Holds
<1>6. I = DOMAIN all
  BY <1>5
<1> HIDE DEF R, all, rows, I
<1>7. ToSet(rows) = {all[i] : i \in DOMAIN all \cap I}
  BY <1>2, <1>4, PickedSet
<1>8. ToSet(rows) = ToSet(all)
  BY <1>6, <1>7 DEF ToSet
<1> QED
  BY <1>1, <1>3, <1>8 DEF R

\* A key is its dimensions and the name of its range.
Plain(key) == key = [dims |-> key.dims, range |-> key.range]

LEMMA KeyIs ==
  ASSUME NEW q, NEW n, NEW key \in KeysOf(q, n)
  PROVE  /\ key = [dims |-> key.dims, range |-> key.range]
         /\ key.dims = [k \in DOMAIN q.dimensions |-> key.dims[k]]
<1>1. ASSUME NEW range, NEW u, key = UnitKey(q, range, u)
      PROVE  /\ key = [dims |-> key.dims, range |-> key.range]
             /\ key.dims = [k \in DOMAIN q.dimensions |-> key.dims[k]]
  <2>1. key = [dims |-> DimsOf(q, u), range |-> range.name]
    BY <1>1 DEF UnitKey
  <2>2. key.dims = DimsOf(q, u) /\ key.range = range.name
    BY <2>1
  <2> QED
    BY <2>1, <2>2 DEF DimsOf
<1>2. ASSUME NEW range, NEW d, key = DayKey(q, range, d)
      PROVE  /\ key = [dims |-> key.dims, range |-> key.range]
             /\ key.dims = [k \in DOMAIN q.dimensions |-> key.dims[k]]
  <2>1. key = [dims |-> DatedDims(q, d), range |-> range.name]
    BY <1>2 DEF DayKey
  <2>2. key.dims = DatedDims(q, d) /\ key.range = range.name
    BY <2>1
  <2> QED
    BY <2>1, <2>2 DEF DatedDims
<1>3. (\E range, u : key = UnitKey(q, range, u)) \/ (\E range, d : key = DayKey(q, range, d))
  BY DEF KeysOf, FoundKeys, SpineKeys
<1> QED
  BY <1>1, <1>2, <1>3

LEMMA KeyIsPlain ==
  ASSUME NEW q, NEW n, NEW key \in KeysOf(q, n)
  PROVE  Plain(key)
  BY KeyIs DEF Plain

\* The places of a day of a range, among rows.
DayIn(q, rows, range, d) ==
  {i \in DOMAIN rows : /\ rows[i].range = range.name
                       /\ \A k \in DOMAIN q.dimensions : rows[i].dims[k] = FromDate(q.dimensions[k], d)}

LEMMA DayHasOneRow ==
  ASSUME BirthInv, TalesInv, WordsInv, NEW q, NEW n, Proper(q, n), ~Crashes(q), OrderBysAreList(q),
         q.metricFilter = <<>>, Synthesized(q),
         NEW r \in 1 .. n, NEW d \in q.ranges[r].start .. q.ranges[r].end
  PROVE  Cardinality(DayIn(q, FinalRows(q), q.ranges[r], d)) = 1
<1> DEFINE rows == FinalRows(q)
           key == DayKey(q, q.ranges[r], d)
           I == DayIn(q, rows, q.ranges[r], d)
<1>1. ToSet(rows) = RowSet(q, n)
  BY AllAreReturned, Zenon
<1>2. PICK keys : Keyed(q, n, rows, keys)
  BY FinalRowsAreKeyed, Zenon
<1>3. key \in KeysOf(q, n)
  BY DEF KeysOf, SpineKeys
<1>4. key.range = q.ranges[r].name /\ key.dims = [k \in DOMAIN q.dimensions |-> FromDate(q.dimensions[k], d)]
      /\ key = [dims |-> key.dims, range |-> key.range]
  BY DEF DayKey, DatedDims
<1> HIDE DEF rows, key
<1>5. PICK i \in DOMAIN rows : rows[i] = RowOf(q, key)
  BY <1>1, <1>3 DEF RowSet, ToSet
<1>6. i \in I
  <2>1. rows[i].range = key.range /\ rows[i].dims = key.dims
    BY <1>5 DEF RowOf
  <2> QED
    BY <1>4, <2>1 DEF DayIn
<1>7. ASSUME NEW j \in I  PROVE keys[j] = key
  <2>1. j \in DOMAIN rows /\ keys[j] \in KeysOf(q, n) /\ rows[j] = RowOf(q, keys[j])
    BY <1>2 DEF Keyed, DayIn
  <2>2. rows[j].range = keys[j].range /\ rows[j].dims = keys[j].dims
    BY <2>1 DEF RowOf
  <2>3. keys[j].range = key.range /\ \A k \in DOMAIN q.dimensions : keys[j].dims[k] = FromDate(q.dimensions[k], d)
    BY <1>4, <2>2 DEF DayIn
  <2>4. keys[j] = [dims |-> keys[j].dims, range |-> keys[j].range]
        /\ keys[j].dims = [k \in DOMAIN q.dimensions |-> keys[j].dims[k]]
    BY <2>1, KeyIs
  <2>5. keys[j].dims = key.dims
    BY <1>4, <2>3, <2>4
  <2> QED
    BY <1>4, <2>3, <2>4, <2>5
<1>8. \A j \in I : j \in DOMAIN rows
  BY DEF DayIn
<1>9. \A j \in I : j = i
  BY <1>2, <1>6, <1>7, <1>8 DEF Keyed
<1>10. I = {i}
  BY <1>6, <1>9
<1> HIDE DEF I
<1>11. Cardinality(I) = 1
  BY <1>10, FS_Singleton
<1> QED
  BY <1>11 DEF I, rows

(***************************************************************************)
(* Queries that are alike                                                   *)
(***************************************************************************)
\* Two queries that fan out alike come to the same units.
LEMMA SameUnits ==
  ASSUME NEW q, NEW p, p.fanPage = q.fanPage, p.fanEvent = q.fanEvent
  PROVE  /\ \A s : UnitsOf(p, s) = UnitsOf(q, s)
         /\ \A range : UnitSet(p, range) = UnitSet(q, range)
<1>1. ASSUME NEW s  PROVE UnitsOf(p, s) = UnitsOf(q, s)
  BY DEF UnitsOf
<1>2. ASSUME NEW range  PROVE UnitSet(p, range) = UnitSet(q, range)
  <2>1. \A s : ToSet(UnitsOf(p, s)) = ToSet(UnitsOf(q, s))
    BY <1>1
  <2> QED
    BY <2>1 DEF UnitSet
<1> QED
  BY <1>1, <1>2

LEMMA SameCriteria ==
  ASSUME NEW q, NEW p, p.orderBys = q.orderBys, p.metrics = q.metrics, p.dimensions = q.dimensions
  PROVE  Criteria(p) = Criteria(q) /\ Crashes(p) = Crashes(q)
<1>1. Criteria(p) = Criteria(q)
  BY Zenon DEF Criteria
<1>2. \A c : Misdirected(p, c) = Misdirected(q, c)
  BY DEF Misdirected
<1>3. Crashes(p) = Crashes(q)
  BY <1>2 DEF Crashes
<1> QED
  BY <1>1, <1>3

\* They differ in their empty rows and in their pages.
Alike(p, q) ==
  /\ p.ranges = q.ranges /\ p.dimensions = q.dimensions /\ p.metrics = q.metrics
  /\ p.cited = q.cited /\ p.fanPage = q.fanPage /\ p.fanEvent = q.fanEvent
  /\ p.dimensionFilter = q.dimensionFilter /\ p.metricFilter = q.metricFilter
  /\ p.orderBys = q.orderBys

LEMMA SameCollected ==
  ASSUME NEW q, NEW p, Alike(p, q)
  PROVE  /\ Collected(p) = Collected(q)
         /\ \A f, u : Admits(f, p, u) = Admits(f, q, u)
<1> DEFINE Lists(x, sessions) == [i \in DOMAIN sessions |-> UnitsOf(x, sessions[i])]
           Admitted(x, units) == Picked(units, {i \in DOMAIN units : Admits(x.dimensionFilter, x, units[i])})
           In(x, range, admitted) ==
             [i \in DOMAIN admitted |->
                [unit |-> admitted[i], range |-> range.name,
                 dims |-> [k \in DOMAIN x.dimensions |-> Extract(x.dimensions[k], admitted[i])]]]
           Seen(range) == FlattenSeq([i \in DOMAIN DaysOf(range) |-> SessionsOf(DaysOf(range)[i])])
<1>0. /\ p.ranges = q.ranges /\ p.dimensions = q.dimensions
      /\ p.cited = q.cited /\ p.fanPage = q.fanPage /\ p.fanEvent = q.fanEvent
      /\ p.dimensionFilter = q.dimensionFilter
  BY DEF Alike
<1>1. \A s : UnitsOf(p, s) = UnitsOf(q, s)
  BY <1>0, SameUnits
<1>2. ASSUME NEW f, NEW u  PROVE Admits(f, p, u) = Admits(f, q, u)
  BY <1>0 DEF Admits
<1>3. ASSUME NEW sessions  PROVE Lists(p, sessions) = Lists(q, sessions)
  BY <1>1
<1>4. ASSUME NEW units  PROVE Admitted(p, units) = Admitted(q, units)
  <2>1. \A u : Admits(p.dimensionFilter, p, u) = Admits(q.dimensionFilter, q, u)
    BY <1>0, <1>2
  <2> QED
    BY <2>1
<1>5. ASSUME NEW range, NEW admitted  PROVE In(p, range, admitted) = In(q, range, admitted)
  BY <1>0
<1>6. ASSUME NEW x, NEW range
      PROVE  UnitsIn(x, range) = In(x, range, Admitted(x, FlattenSeq(Lists(x, Seen(range)))))
  BY DEF UnitsIn
<1> HIDE DEF Lists, Admitted, In, Seen
<1>7. ASSUME NEW range  PROVE UnitsIn(p, range) = UnitsIn(q, range)
  BY <1>3, <1>4, <1>5, <1>6
<1> DEFINE S(x) == [i \in DOMAIN x.ranges |-> UnitsIn(x, x.ranges[i])]
<1>8. S(p) = S(q)
  BY <1>0, <1>7
<1>9. Collected(p) = FlattenSeq(S(p)) /\ Collected(q) = FlattenSeq(S(q))
  BY DEF Collected
<1> HIDE DEF S
<1> QED
  BY <1>2, <1>8, <1>9

LEMMA SameRows ==
  ASSUME NEW q, NEW p, Alike(p, q), NEW key
  PROVE  RowOf(p, key) = RowOf(q, key)
<1>1. GroupOfKey(p, key) = GroupOfKey(q, key)
  BY SameCollected, Zenon DEF GroupOfKey
<1>2. \A units : Accumulated(p, units) = Accumulated(q, units)
  BY DEF Alike, Accumulated
<1> QED
  BY <1>1, <1>2, Zenon DEF RowOf

\* Without the empty rows, the keys are among those with them.
LEMMA FewerKeys ==
  ASSUME NEW q, NEW p, Alike(p, q), NEW n, Proper(q, n), ~Synthesized(p)
  PROVE  Proper(p, n) /\ KeysOf(p, n) \subseteq KeysOf(q, n)
<1>0. /\ p.ranges = q.ranges /\ p.dimensions = q.dimensions /\ p.metrics = q.metrics
      /\ p.fanPage = q.fanPage /\ p.fanEvent = q.fanEvent /\ p.orderBys = q.orderBys
      /\ p.dimensionFilter = q.dimensionFilter
  BY DEF Alike
<1>1. Proper(p, n)
  BY <1>0, SameCriteria DEF Proper
<1>2. ASSUME NEW u  PROVE DimsOf(p, u) = DimsOf(q, u)
  BY <1>0 DEF DimsOf
<1>3. ASSUME NEW range, NEW u  PROVE UnitKey(p, range, u) = UnitKey(q, range, u)
  BY <1>2 DEF UnitKey
<1>4. ASSUME NEW range  PROVE AdmittedIn(p, range) = AdmittedIn(q, range)
  <2>1. UnitSet(p, range) = UnitSet(q, range)
    BY <1>0, SameUnits
  <2>2. \A u : Admits(p.dimensionFilter, p, u) = Admits(q.dimensionFilter, q, u)
    BY <1>0, SameCollected
  <2> QED
    BY <2>1, <2>2 DEF AdmittedIn
<1>5. ASSUME NEW range  PROVE FoundKeys(p, range) = FoundKeys(q, range)
  BY <1>3, <1>4 DEF FoundKeys
<1>6. KeysOf(p, n) \subseteq KeysOf(q, n)
  BY <1>0, <1>5 DEF KeysOf
<1> QED
  BY <1>1, <1>6

LEMMA SameRowsStay ==
  ASSUME BirthInv, TalesInv, WordsInv, NEW q, NEW n, Proper(q, n), ~Crashes(q), OrderBysAreList(q),
         q.metricFilter = <<>>, NEW p, Alike(p, q), ~Synthesized(p)
  PROVE  ToSet(FinalRows(p)) \subseteq ToSet(FinalRows(q))
<1>1. Proper(p, n) /\ KeysOf(p, n) \subseteq KeysOf(q, n)
  BY FewerKeys
<1>2. p.metricFilter = <<>> /\ p.orderBys = q.orderBys /\ p.metrics = q.metrics /\ p.dimensions = q.dimensions
  BY DEF Alike
<1>3. OrderBysAreList(p)
  BY <1>2 DEF OrderBysAreList
<1>4. ~Crashes(p)
  BY <1>2, SameCriteria
<1>5. ToSet(FinalRows(p)) = RowSet(p, n)
  BY <1>1, <1>2, <1>3, <1>4, AllAreReturned
<1>6. ToSet(FinalRows(q)) = RowSet(q, n)
  BY AllAreReturned
<1>7. \A key : RowOf(p, key) = RowOf(q, key)
  BY SameRows
<1>8. RowSet(p, n) \subseteq RowSet(q, n)
  BY <1>1, <1>7 DEF RowSet
<1> QED
  BY <1>5, <1>6, <1>8

QueryFields ==
  {"dimensions", "metrics", "cited", "computed", "fanPage", "fanEvent", "ranges", "limit", "offset",
   "dimensionFilter", "metricFilter", "orderBys", "keepEmptyRows", "aggregations"}

LEMMA QueryHas ==
  ASSUME NEW body  PROVE DOMAIN Query(body) = QueryFields
BY DEF Query, QueryFields

LEMMA SpineFollows == BirthInv /\ TalesInv /\ WordsInv /\ AnsweredInv => SpineGapFree
<1> SUFFICES ASSUME BirthInv, TalesInv, WordsInv, AnsweredInv, Served, Synthesized(Q), Q.metricFilter = <<>>
             PROVE  /\ \A r \in DOMAIN Q.ranges : \A d \in Q.ranges[r].start .. Q.ranges[r].end :
                         Cardinality(DayIn(Q, reply.rows, Q.ranges[r], d)) = 1
                    /\ ToSet(FinalRows([Q EXCEPT !.keepEmptyRows = FALSE])) \subseteq ToSet(reply.rows)
  <2> DEFINE D(r, d) == {i \in RowsOf(r) : \A k \in DOMAIN Q.dimensions :
                           reply.rows[i].dims[k] = FromDate(Q.dimensions[k], d)}
             rest == ToSet(FinalRows([Q EXCEPT !.keepEmptyRows = FALSE])) \subseteq ToSet(reply.rows)
             asked == Served /\ Synthesized(Q) /\ Q.metricFilter = <<>>
  <2>1. \A r, d : D(r, d) = DayIn(Q, reply.rows, Q.ranges[r], d)
    BY DEF RowsOf, DayIn
  <2>2. SpineGapFree <=>
          (asked => /\ \A r \in DOMAIN Q.ranges : \A d \in Q.ranges[r].start .. Q.ranges[r].end :
                         Cardinality(D(r, d)) = 1
                    /\ rest)
    BY Zenon DEF SpineGapFree
  <2> HIDE DEF D, rest
  <2>3. SpineGapFree <=>
          (asked => /\ \A r \in DOMAIN Q.ranges : \A d \in Q.ranges[r].start .. Q.ranges[r].end :
                         Cardinality(DayIn(Q, reply.rows, Q.ranges[r], d)) = 1
                    /\ rest)
    BY <2>1, <2>2
  <2> QED
    BY <2>3, Zenon DEF rest
<1>1. PICK b \in DOMAIN Bodies : reply.body = b /\ Answers(b)
  BY DEF AnsweredInv
<1> DEFINE q == Queries[b]
           p == [q EXCEPT !.keepEmptyRows = FALSE]
<1>2. b \in Accepted /\ ~Crashes(q) /\ reply.rows = FinalRows(q) /\ Q = q
  BY <1>1 DEF Answers, Q
<1>3. PICK n : Proper(q, n)
  BY <1>2, QueryIsProper
<1>4. OrderBysAreList(q)
  BY <1>2, QueryIsOrdered
<1>5. Alike(p, q) /\ p.keepEmptyRows = FALSE
  <2>1. q = Query(Bodies[b])
    BY <1>2, QueryIs
  <2> HIDE DEF q
  <2>2. DOMAIN q = QueryFields
    BY <2>1, QueryHas
  <2> QED
    BY <2>2 DEF Alike, QueryFields
<1> HIDE DEF q, p
<1>6. q.metricFilter = <<>> /\ Synthesized(q) /\ DOMAIN q.ranges = 1 .. n
  BY <1>2, <1>3 DEF Proper
<1>7. \A r \in 1 .. n : \A d \in q.ranges[r].start .. q.ranges[r].end :
        Cardinality(DayIn(q, FinalRows(q), q.ranges[r], d)) = 1
  BY <1>2, <1>3, <1>4, <1>6, DayHasOneRow
<1>8. ~Synthesized(p)
  BY <1>5 DEF Synthesized
<1>9. ToSet(FinalRows(p)) \subseteq ToSet(FinalRows(q))
  BY <1>2, <1>3, <1>4, <1>5, <1>6, <1>8, SameRowsStay
<1>10. p = [Q EXCEPT !.keepEmptyRows = FALSE]
  BY <1>2 DEF p
<1>11. \A r \in DOMAIN Q.ranges : \A d \in Q.ranges[r].start .. Q.ranges[r].end :
        Cardinality(DayIn(Q, reply.rows, Q.ranges[r], d)) = 1
  BY <1>2, <1>6, <1>7
<1>12. ToSet(FinalRows([Q EXCEPT !.keepEmptyRows = FALSE])) \subseteq ToSet(reply.rows)
  BY <1>2, <1>9, <1>10, Zenon
<1> QED
  BY <1>11, <1>12

\* keepEmptyRows gives every day of every range its row, and no day two, and
\* leaves the rows that units make as they were: the spine is of the same keys.
THEOREM NoDayIsMissing == Spec => []SpineGapFree
<1> DEFINE Inv == BirthInv /\ TalesInv /\ WordsInv /\ AnsweredInv
<1>1. Init => Inv
  BY AnswersInit
<1>2. Inv /\ [Next]_rvars => Inv'
  BY BirthStep, TalesStep, WordsStep, AnsweredStep
<1>3. Inv => SpineGapFree
  BY SpineFollows
<1> QED
  BY <1>1, <1>2, <1>3, PTL DEF Spec

(***************************************************************************)
(* Filters                                                                  *)
(***************************************************************************)
IsLeaf(leaf) == LeafOk(leaf) /\ \A a, b \in Predicates \cap DOMAIN leaf.test : a = b

\* What a node of a filter that compiles is.
IsNode(tree, n, key) ==
  /\ key \in Nodes /\ Key(tree[n]) = key
  /\ \A other \in Nodes : other \in DOMAIN tree[n] <=> other = key
  /\ key = "filter" => IsLeaf(tree[n].filter) /\ tree[n].filter.fieldName \in Fields(tree)
  /\ key = "notExpression" => tree[n].notExpression \in n + 1 .. Len(tree)
  /\ key = "andGroup" => tree[n].andGroup \in Seq(n + 1 .. Len(tree))
  /\ key = "orGroup" => tree[n].orGroup \in Seq(n + 1 .. Len(tree))

Compiles(tree) == \A n \in DOMAIN tree : Exclusive(tree[n]) /\ WellFormed(tree[n])

LEMMA TreeHasNodes ==
  ASSUME NEW tree, IsTree(tree), Compiles(tree), NEW n \in DOMAIN tree
  PROVE  \E key : IsNode(tree, n, key)
<1>1. PICK key \in Nodes : Present(tree[n]) = {key}
  BY DEF Compiles, Exclusive
<1>2. Key(tree[n]) = key
  BY <1>1 DEF Key
<1>3. \A other \in Nodes : other \in DOMAIN tree[n] <=> other = key
  BY <1>1 DEF Present
<1>4. /\ key = "filter" => IsLeaf(tree[n].filter)
      /\ key = "notExpression" => tree[n].notExpression \in n + 1 .. Len(tree)
      /\ key = "andGroup" => tree[n].andGroup \in Seq(n + 1 .. Len(tree))
      /\ key = "orGroup" => tree[n].orGroup \in Seq(n + 1 .. Len(tree))
  <2>1. key = "filter" => LeafOk(tree[n].filter)
    BY <1>1 DEF Compiles, WellFormed
  <2>2. key \in DOMAIN tree[n]
    BY <1>3
  <2> QED
    BY <2>1, <2>2 DEF IsTree, IsLeaf
<1>5. key = "filter" => tree[n].filter.fieldName \in Fields(tree)
  BY <1>1, <1>4 DEF Fields, Citing, IsLeaf, LeafOk
<1>6. IsNode(tree, n, key)
  BY <1>2, <1>3, <1>4, <1>5 DEF IsNode
<1> QED
  BY <1>6

\* What a node comes to, when those behind it come to h.
Verdict(tree, values, n, h) ==
  LET key == Key(tree[n]) IN
  CASE key = "filter"        -> LeafHolds(tree[n].filter, values[tree[n].filter.fieldName])
    [] key = "notExpression" -> ~h[tree[n].notExpression]
    [] OTHER -> Combine(key, {h[m] : m \in ToSet(tree[n][key])})

LEMMA LeafIsBoolean ==
  ASSUME NEW leaf, IsLeaf(leaf), NEW value
  PROVE  LeafHolds(leaf, value) \in BOOLEAN
<1> DEFINE test == leaf.test
           number == AsNumber(leaf.fieldName, value)
<1>1. ASSUME NEW o \in Operations, NEW v, NEW w  PROVE Compare(o, v, w) \in BOOLEAN
  <2>1. CASE o = "EQUAL"
    <3>1. Compare(o, v, w) = (v = w)
      BY <2>1 DEF Compare
    <3> QED
      BY <3>1
  <2>2. CASE o = "LESS_THAN"
    <3>1. Compare(o, v, w) = (v < w)
      BY <2>2 DEF Compare
    <3> QED
      BY <3>1
  <2>3. CASE o = "LESS_THAN_OR_EQUAL"
    <3>1. Compare(o, v, w) = (v <= w)
      BY <2>3 DEF Compare
    <3> QED
      BY <3>1
  <2>4. CASE o = "GREATER_THAN"
    <3>1. Compare(o, v, w) = (v > w)
      BY <2>4 DEF Compare
    <3> QED
      BY <3>1
  <2>5. CASE o = "GREATER_THAN_OR_EQUAL"
    <3>1. Compare(o, v, w) = (v >= w)
      BY <2>5 DEF Compare
    <3> QED
      BY <3>1
  <2> QED
    BY <2>1, <2>2, <2>3, <2>4, <2>5 DEF Operations
<1>2. CASE "in" \in DOMAIN test
  <2>1. LeafHolds(leaf, value) = (value \in test.in)
    BY <1>2 DEF LeafHolds, IsLeaf, Predicates
  <2> QED
    BY <2>1
<1>3. CASE "operation" \in DOMAIN test
  <2>1. LeafHolds(leaf, value) = Compare(test.operation, number, test.reference)
    BY <1>3 DEF LeafHolds, IsLeaf, Predicates
  <2>2. test.operation \in Operations
    BY <1>3 DEF IsLeaf, Predicates, LeafOk
  <2> QED
    BY <1>1, <2>1, <2>2
<1>4. CASE "from" \in DOMAIN test
  <2>1. LeafHolds(leaf, value) = (number \in test.from .. test.to)
    BY <1>4 DEF LeafHolds, IsLeaf, Predicates
  <2> QED
    BY <2>1
<1>5. CASE "empty" \in DOMAIN test
  <2>1. LeafHolds(leaf, value) = (value \in EMPTY_VALUES)
    BY <1>5 DEF LeafHolds, IsLeaf, Predicates
  <2> QED
    BY <2>1
<1> QED
  BY <1>2, <1>3, <1>4, <1>5 DEF IsLeaf, LeafOk

\* A verdict is yes or no, and depends on nothing but what is behind the node.
LEMMA VerdictIs ==
  ASSUME NEW tree, NEW n \in DOMAIN tree, NEW key, IsNode(tree, n, key),
         NEW values, NEW h
  PROVE  /\ Verdict(tree, values, n, h) \in BOOLEAN
         /\ \A k : (\A m \in n + 1 .. Len(tree) : k[m] = h[m])
                     => Verdict(tree, values, n, k) = Verdict(tree, values, n, h)
<1>1. CASE key = "filter"
  <2>1. \A k : Verdict(tree, values, n, k) = LeafHolds(tree[n].filter, values[tree[n].filter.fieldName])
    BY <1>1 DEF Verdict, IsNode
  <2>2. IsLeaf(tree[n].filter)
    BY <1>1 DEF IsNode
  <2> QED
    BY <2>1, <2>2, LeafIsBoolean
<1>2. CASE key = "notExpression"
  <2>1. \A k : Verdict(tree, values, n, k) = ~k[tree[n].notExpression]
    BY <1>2 DEF Verdict, IsNode
  <2>2. tree[n].notExpression \in n + 1 .. Len(tree)
    BY <1>2 DEF IsNode
  <2> QED
    BY <2>1, <2>2
<1>3. CASE key \in {"andGroup", "orGroup"}
  <2> DEFINE J == ToSet(tree[n][key])
  <2>1. \A k : Verdict(tree, values, n, k) = Combine(key, {k[m] : m \in J})
    BY <1>3 DEF Verdict, IsNode
  <2>2. J \subseteq n + 1 .. Len(tree)
    BY <1>3 DEF IsNode, ToSet
  <2>3. ASSUME NEW verdicts  PROVE Combine(key, verdicts) \in BOOLEAN
    <3>1. CASE key = "andGroup"
      <4>1. Combine(key, verdicts) = (FALSE \notin verdicts)
        BY <3>1 DEF Combine
      <4> QED
        BY <4>1
    <3>2. CASE key # "andGroup"
      <4>1. Combine(key, verdicts) = (TRUE \in verdicts)
        BY <3>2 DEF Combine
      <4> QED
        BY <4>1
    <3> QED
      BY <3>1, <3>2
  <2> HIDE DEF J
  <2>4. ASSUME NEW k, \A m \in n + 1 .. Len(tree) : k[m] = h[m]
        PROVE  {k[m] : m \in J} = {h[m] : m \in J}
    BY <2>2, <2>4
  <2> QED
    BY <2>1, <2>3, <2>4
<1> QED
  BY <1>1, <1>2, <1>3 DEF IsNode, Nodes

\* What all the nodes come to.
Verdicts(tree, values, h) ==
  \A n \in DOMAIN tree : h[n] \in BOOLEAN /\ h[n] = Verdict(tree, values, n, h)

LEMMA HoldsIs ==
  ASSUME NEW tree, IsTree(tree), Compiles(tree), tree # <<>>, NEW values
  PROVE  \E h : Verdicts(tree, values, h) /\ Holds(tree, values) = h[1]
<1> DEFINE V(n, f) == Verdict(tree, values, n, f)
           Rec(f) == f = [n \in DOMAIN tree |-> V(n, f)]
<1>0. PICK N \in Nat : N = Len(tree) /\ DOMAIN tree = 1 .. N
  BY DEF IsTree, IsList
<1>1. ASSUME NEW n \in 1 .. N, NEW f, NEW g, \A m \in n + 1 .. N : g[m] = f[m]
      PROVE  V(n, f) \in BOOLEAN /\ V(n, g) = V(n, f)
  BY <1>0, <1>1, TreeHasNodes, VerdictIs
<1> DEFINE Done(f, i) == f = [n \in 1 .. N |-> f[n]] /\ \A n \in N + 1 - i .. N : f[n] = V(n, f)
           P == {i \in 0 .. N : \E f : Done(f, i)}
<1> HIDE DEF V
<1>2. 0 \in P
  <2> DEFINE f == [n \in 1 .. N |-> TRUE]
  <2>1. f = [n \in 1 .. N |-> f[n]]
    OBVIOUS
  <2>2. N + 1 - 0 .. N = {}
    OBVIOUS
  <2>3. Done(f, 0)
    BY <2>1, <2>2
  <2> HIDE DEF Done
  <2> QED
    BY <2>3
<1>3. ASSUME NEW i \in 1 .. N, i - 1 \in P  PROVE i \in P
  <2>1. PICK f : Done(f, i - 1)
    BY <1>3
  <2> DEFINE k == N + 1 - i
             g == [n \in 1 .. N |-> IF n = k THEN V(k, f) ELSE f[n]]
  <2>2. /\ k \in 1 .. N /\ N + 1 - (i - 1) = k + 1
        /\ \A n \in k .. N : n \in 1 .. N /\ (n = k \/ n \in k + 1 .. N)
        /\ \A n \in k + 1 .. N : n \in 1 .. N /\ n # k
        /\ \A n \in k .. N : \A m \in n + 1 .. N : m \in k + 1 .. N
    OBVIOUS
  <2>3. \A n \in 1 .. N : g[n] = IF n = k THEN V(k, f) ELSE f[n]
    OBVIOUS
  <2>4. g = [n \in 1 .. N |-> g[n]]
    OBVIOUS
  <2> HIDE DEF g, k
  <2>5. \A n \in k + 1 .. N : g[n] = f[n] /\ f[n] = V(n, f)
    BY <2>1, <2>2, <2>3
  <2>6. ASSUME NEW n \in k .. N  PROVE g[n] = V(n, g)
    <3>1. V(n, g) = V(n, f)
      <4>1. n \in 1 .. N /\ \A m \in n + 1 .. N : g[m] = f[m]
        BY <2>2, <2>5
      <4> QED
        BY <1>1, <4>1
    <3>2. CASE n = k
      BY <2>2, <2>3, <3>1, <3>2
    <3>3. CASE n # k
      BY <2>2, <2>5, <3>1, <3>3
    <3> QED
      BY <3>2, <3>3
  <2>7. Done(g, i)
    BY <2>4, <2>6 DEF k
  <2> HIDE DEF Done
  <2> QED
    BY <2>7
<1>4. N \in P
  <2> HIDE DEF P
  <2> QED
    BY <1>2, <1>3, Climb
<1>5. PICK f : Rec(f)
  <2>1. PICK f : Done(f, N)
    BY <1>4
  <2>2. \A n \in 1 .. N : n \in N + 1 - N .. N
    OBVIOUS
  <2>3. f = [n \in 1 .. N |-> f[n]] /\ \A n \in 1 .. N : f[n] = V(n, f)
    BY <2>1, <2>2
  <2>4. Rec(f)
    BY <1>0, <2>3
  <2> HIDE DEF Rec
  <2> QED
    BY <2>4
<1> DEFINE h == CHOOSE g : Rec(g)
<1>6. Rec(h)
  <2> HIDE DEF Rec
  <2> QED
    BY <1>5
<1>7. Holds(tree, values) = (tree # <<>> => h[1])
  BY DEF Holds, V, Verdict
<1> HIDE DEF h
<1>8. \A n \in DOMAIN tree : h[n] = V(n, h)
  BY <1>6
<1>9. \A n \in DOMAIN tree : V(n, h) \in BOOLEAN
  BY <1>0, <1>1
<1>10. Verdicts(tree, values, h)
  BY <1>8, <1>9 DEF Verdicts, V
<1>11. 1 \in DOMAIN tree
  BY <1>0 DEF IsTree, IsList
<1>12. Holds(tree, values) = h[1]
  <2>1. h[1] \in BOOLEAN
    BY <1>8, <1>9, <1>11
  <2> QED
    BY <1>7, <2>1
<1> QED
  BY <1>10, <1>12

\* Of each unit, the values of the fields that a filter cites and its verdicts.
Valued(tree, units, W) == \A u \in units : \A name \in Fields(tree) : W[u][name] = Extract(name, u)
Judged(tree, units, W, H) == \A u \in units : Verdicts(tree, W[u], H[u])
Agrees(units, H, M, m) == \A u : u \in M[m] <=> u \in units /\ H[u][m]

LEMMA PartIs ==
  ASSUME NEW tree, NEW n \in DOMAIN tree, NEW key, IsNode(tree, n, key), NEW N, N = Len(tree),
         n + 1 .. N \subseteq DOMAIN tree,
         NEW units, NEW W, Valued(tree, units, W), NEW H, Judged(tree, units, W, H),
         NEW M, \A m \in n + 1 .. N : Agrees(units, H, M, m)
  PROVE  \A u : u \in Part(tree[n], units, M) <=> u \in units /\ H[u][n]
<1> DEFINE node == tree[n]
           X == Part(tree[n], units, M)
<1>1. ASSUME NEW u \in units
      PROVE  /\ H[u][n] = Verdict(tree, W[u], n, H[u])
             /\ \A m \in n + 1 .. N : H[u][m] \in BOOLEAN
  BY DEF Judged, Verdicts
<1>2. /\ key \in Nodes /\ Key(node) = key
      /\ \A other \in Nodes : other \in DOMAIN node <=> other = key
  BY DEF IsNode
<1>3. CASE key = "filter"
  <2>1. X = {u \in units : LeafHolds(node.filter, Extract(node.filter.fieldName, u))}
    BY <1>2, <1>3 DEF Part, Nodes
  <2>2. ASSUME NEW u \in units
        PROVE  H[u][n] = LeafHolds(node.filter, Extract(node.filter.fieldName, u))
    <3>1. Verdict(tree, W[u], n, H[u]) = LeafHolds(node.filter, W[u][node.filter.fieldName])
      BY <1>2, <1>3 DEF Verdict
    <3>2. node.filter.fieldName \in Fields(tree)
      BY <1>3 DEF IsNode
    <3>3. W[u][node.filter.fieldName] = Extract(node.filter.fieldName, u)
      BY <3>2 DEF Valued
    <3> QED
      BY <1>1, <3>1, <3>3
  <2> QED
    BY <2>1, <2>2
<1>4. CASE key = "notExpression"
  <2> DEFINE m == node.notExpression
  <2>1. X = units \ M[m]
    BY <1>2, <1>4 DEF Part, Nodes
  <2>2. m \in n + 1 .. N
    BY <1>4 DEF IsNode
  <2>3. ASSUME NEW u \in units  PROVE H[u][n] = ~H[u][m]
    <3>1. Verdict(tree, W[u], n, H[u]) = ~H[u][m]
      BY <1>2, <1>4 DEF Verdict
    <3> QED
      BY <1>1, <3>1
  <2> HIDE DEF m, X
  <2>4. \A u : u \in M[m] <=> u \in units /\ H[u][m]
    BY <2>2 DEF Agrees
  <2> QED
    BY <2>1, <2>3, <2>4 DEF X
<1>5. CASE key = "andGroup"
  <2> DEFINE group == node.andGroup
  <2>1. X = {u \in units : \A i \in DOMAIN group : u \in M[group[i]]}
    BY <1>2, <1>5 DEF Part, Nodes
  <2>2. \A i \in DOMAIN group : group[i] \in n + 1 .. N
    BY <1>5 DEF IsNode
  <2>3. ASSUME NEW u \in units  PROVE H[u][n] <=> \A i \in DOMAIN group : H[u][group[i]]
    <3>1. Verdict(tree, W[u], n, H[u]) = Combine(key, {H[u][m] : m \in ToSet(node[key])})
      BY <1>2, <1>5 DEF Verdict
    <3>2. node[key] = group
      BY <1>5
    <3> DEFINE J == ToSet(group)
               verdicts == {H[u][m] : m \in J}
    <3>3. Combine(key, verdicts) = (FALSE \notin verdicts)
      BY <1>5 DEF Combine
    <3>4. J = {group[i] : i \in DOMAIN group}
      BY DEF ToSet
    <3> HIDE DEF group, J
    <3>5. \A m \in J : H[u][m] \in BOOLEAN
      BY <1>1, <2>2, <3>4
    <3>6. FALSE \notin verdicts <=> \A m \in J : H[u][m]
      BY <3>5
    <3> HIDE DEF verdicts
    <3>7. H[u][n] <=> FALSE \notin verdicts
      BY <1>1, <3>1, <3>2, <3>3 DEF verdicts, J
    <3> QED
      BY <3>4, <3>6, <3>7
  <2> HIDE DEF group, X
  <2>4. \A i \in DOMAIN group : \A u : u \in M[group[i]] <=> u \in units /\ H[u][group[i]]
    BY <2>2 DEF Agrees
  <2> QED
    BY <2>1, <2>3, <2>4 DEF X
<1>6. CASE key = "orGroup"
  <2> DEFINE group == node.orGroup
  <2>1. X = UNION {M[group[i]] : i \in DOMAIN group}
    BY <1>2, <1>6 DEF Part, Nodes
  <2>2. \A i \in DOMAIN group : group[i] \in n + 1 .. N
    BY <1>6 DEF IsNode
  <2>3. ASSUME NEW u \in units  PROVE H[u][n] <=> \E i \in DOMAIN group : H[u][group[i]]
    <3>1. Verdict(tree, W[u], n, H[u]) = Combine(key, {H[u][m] : m \in ToSet(node[key])})
      BY <1>2, <1>6 DEF Verdict
    <3>2. node[key] = group
      BY <1>6
    <3> DEFINE J == ToSet(group)
               verdicts == {H[u][m] : m \in J}
    <3>3. Combine(key, verdicts) = (TRUE \in verdicts)
      BY <1>6 DEF Combine
    <3>4. J = {group[i] : i \in DOMAIN group}
      BY DEF ToSet
    <3> HIDE DEF group, J
    <3>5. \A m \in J : H[u][m] \in BOOLEAN
      BY <1>1, <2>2, <3>4
    <3>6. TRUE \in verdicts <=> \E m \in J : H[u][m]
      BY <3>5
    <3> HIDE DEF verdicts
    <3>7. H[u][n] <=> TRUE \in verdicts
      BY <1>1, <3>1, <3>2, <3>3 DEF verdicts, J
    <3> QED
      BY <3>4, <3>6, <3>7
  <2> HIDE DEF group, X
  <2>4. \A i \in DOMAIN group : \A u : u \in M[group[i]] <=> u \in units /\ H[u][group[i]]
    BY <2>2 DEF Agrees
  <2> QED
    BY <2>1, <2>3, <2>4 DEF X
<1> QED
  BY <1>2, <1>3, <1>4, <1>5, <1>6 DEF Nodes

LEMMA MeaningIs ==
  ASSUME NEW tree, IsTree(tree), Compiles(tree), tree # <<>>,
         NEW units, NEW W, Valued(tree, units, W)
  PROVE  Meaning(tree, units) = {u \in units : Holds(tree, W[u])}
<1>0. PICK N \in Nat : N = Len(tree) /\ DOMAIN tree = 1 .. N
  BY DEF IsTree, IsList
<1>1. 1 \in 1 .. N
  BY <1>0 DEF IsTree, IsList
<1> DEFINE Fine(u, h) == Verdicts(tree, W[u], h) /\ Holds(tree, W[u]) = h[1]
           H == [u \in units |-> CHOOSE h : Fine(u, h)]
<1>2. ASSUME NEW u \in units  PROVE Fine(u, H[u])
  <2>1. \E h : Fine(u, h)
    BY HoldsIs
  <2>2. H[u] = CHOOSE h : Fine(u, h)
    OBVIOUS
  <2> HIDE DEF Fine, H
  <2> QED
    BY <2>1, <2>2
<1> HIDE DEF H
<1>3. Judged(tree, units, W, H)
  BY <1>2 DEF Judged
<1>4. \A u \in units : Holds(tree, W[u]) = H[u][1]
  BY <1>2
<1> HIDE DEF Fine
<1> DEFINE Rec(M) == M = [n \in DOMAIN tree |-> Part(tree[n], units, M)]
           A(M, n) == Agrees(units, H, M, n)
<1>5. ASSUME NEW n \in 1 .. N, NEW M, \A m \in n + 1 .. N : A(M, m)
      PROVE  \A u : u \in Part(tree[n], units, M) <=> u \in units /\ H[u][n]
  <2>1. PICK key : IsNode(tree, n, key)
    BY <1>0, TreeHasNodes
  <2>2. n + 1 .. N \subseteq DOMAIN tree /\ n \in DOMAIN tree
    BY <1>0
  <2> QED
    BY <1>0, <1>3, <1>5, <2>1, <2>2, PartIs
<1> DEFINE M0 == [n \in 1 .. N |-> {u \in units : H[u][n]}]
<1>6. Rec(M0)
  <2>1. \A n \in 1 .. N : M0[n] = {u \in units : H[u][n]}
    OBVIOUS
  <2>2. M0 = [n \in 1 .. N |-> M0[n]]
    OBVIOUS
  <2> HIDE DEF M0
  <2>3. \A n \in 1 .. N : A(M0, n)
    BY <2>1 DEF Agrees
  <2>4. ASSUME NEW n \in 1 .. N  PROVE M0[n] = Part(tree[n], units, M0)
    <3>1. \A m \in n + 1 .. N : m \in 1 .. N
      OBVIOUS
    <3>2. \A u : u \in Part(tree[n], units, M0) <=> u \in units /\ H[u][n]
      BY <1>5, <2>3, <3>1
    <3> QED
      BY <2>1, <3>2
  <2> QED
    BY <1>0, <2>2, <2>4
<1> HIDE DEF M0
<1> DEFINE M == CHOOSE f : Rec(f)
<1>7. Rec(M)
  <2> HIDE DEF Rec
  <2> QED
    BY <1>6
<1>8. Meaning(tree, units) = M[1]
  BY DEF Meaning
<1> HIDE DEF M
<1>9. \A n \in 1 .. N : M[n] = Part(tree[n], units, M)
  BY <1>0, <1>7
<1> HIDE DEF Rec, A
<1> DEFINE P == {i \in 0 .. N : \A n \in N + 1 - i .. N : A(M, n)}
<1>10. 0 \in P
  <2>1. N + 1 - 0 .. N = {}
    OBVIOUS
  <2> QED
    BY <2>1
<1>11. ASSUME NEW i \in 1 .. N, i - 1 \in P  PROVE i \in P
  <2> DEFINE k == N + 1 - i
  <2>1. /\ k \in 1 .. N /\ N + 1 - (i - 1) = k + 1
        /\ \A n \in k .. N : n = k \/ n \in k + 1 .. N
    OBVIOUS
  <2>2. \A m \in k + 1 .. N : A(M, m)
    BY <1>11, <2>1
  <2> HIDE DEF k
  <2>3. \A u : u \in Part(tree[k], units, M) <=> u \in units /\ H[u][k]
    BY <1>5, <2>1, <2>2
  <2>4. A(M, k)
    BY <1>9, <2>1, <2>3 DEF A, Agrees
  <2>5. \A n \in k .. N : A(M, n)
    BY <2>1, <2>2, <2>4
  <2> QED
    BY <2>5 DEF k
<1>12. N \in P
  <2> HIDE DEF P
  <2> QED
    BY <1>10, <1>11, Climb
<1>13. A(M, 1)
  <2>1. 1 \in N + 1 - N .. N
    BY <1>1
  <2> QED
    BY <1>12, <2>1
<1> QED
  BY <1>4, <1>8, <1>13 DEF A, Agrees

\* A filter that passes is well formed at every node.
LEMMA NodesPass ==
  ASSUME NEW f, IsList(f), NEW registry,
         \A check \in ToSet(FilterChecks(f, registry)) : check.passes
  PROVE  Fields(f) \subseteq registry /\ Compiles(f)
<1> DEFINE x == Check(f # <<>> => DOMAIN f[1] # {}, "invalid value")
           y == Check(Fields(f) \subseteq registry, "not a valid field")
           front == <<x, y>>
           Of(n) == NodeChecks(f[n])
           seqs == [n \in DOMAIN f |-> Of(n)]
           S == UNION {ToSet(Of(n)) : n \in DOMAIN f}
           rest == FlattenSeq(seqs)
           T == {x, y} \cup S
<1>1. PICK N \in Nat : DOMAIN f = 1 .. N
  BY DEF IsList
<1>2. ASSUME NEW n \in DOMAIN f
      PROVE  /\ Of(n) \in Seq(S) /\ DOMAIN Of(n) = 1 .. 3
             /\ Of(n)[1].passes = Exclusive(f[n]) /\ Of(n)[3].passes = WellFormed(f[n])
  <2> DEFINE c1 == Check(Exclusive(f[n]), "invalid filter")
             c2 == Check(~Raises(f[n]), Escapes)
             c3 == Check(WellFormed(f[n]), "invalid filter")
  <2>1. Of(n) = <<c1, c2, c3>>
    BY DEF NodeChecks
  <2>2. c1.passes = Exclusive(f[n]) /\ c3.passes = WellFormed(f[n])
    BY DEF Check
  <2> HIDE DEF c1, c2, c3, Of
  <2>3. Of(n) \in Seq({c1, c2, c3}) /\ ToSet(Of(n)) = {c1, c2, c3}
    BY <2>1 DEF ToSet
  <2>4. {c1, c2, c3} \subseteq S
    BY <2>3
  <2> HIDE DEF S
  <2> QED
    BY <2>1, <2>2, <2>3, <2>4
<1> HIDE DEF Of, S
<1>3. seqs \in Seq(Seq(S)) /\ DOMAIN seqs = DOMAIN f /\ \A n \in DOMAIN f : seqs[n] = Of(n)
  <2>1. seqs \in [1 .. N -> Seq(S)]
    BY <1>1, <1>2
  <2> QED
    BY <1>1, <2>1
<1> HIDE DEF seqs
<1>4. rest \in Seq(S) /\ \A n \in DOMAIN f : \A k \in 1 .. 3 : Of(n)[k] \in ToSet(rest)
  BY <1>2, <1>3, FlattenMembers
<1>5. FilterChecks(f, registry) = front \o rest
  BY DEF FilterChecks, seqs, Of
<1> HIDE DEF rest
<1>6. y.passes = (Fields(f) \subseteq registry)
  BY DEF Check
<1> HIDE DEF x, y
<1>7. y \in ToSet(front \o rest) /\ \A c \in ToSet(rest) : c \in ToSet(front \o rest)
  <2>1. front \in Seq(T) /\ rest \in Seq(T) /\ y \in ToSet(front)
    <3>1. S \subseteq T /\ x \in T /\ y \in T
      OBVIOUS
    <3> HIDE DEF T
    <3>2. front \in Seq(T) /\ rest \in Seq(T)
      BY <1>4, <3>1
    <3>3. y \in ToSet(front)
      BY DEF ToSet
    <3> QED
      BY <3>2, <3>3
  <2> HIDE DEF front, T
  <2>2. ToSet(front \o rest) = ToSet(front) \cup ToSet(rest)
    BY <2>1, AppendedSet
  <2> QED
    BY <2>1, <2>2
<1>8. y.passes /\ \A c \in ToSet(rest) : c.passes
  BY <1>5, <1>7
<1>9. ASSUME NEW n \in DOMAIN f  PROVE Exclusive(f[n]) /\ WellFormed(f[n])
  <2>1. Of(n)[1].passes /\ Of(n)[3].passes
    BY <1>4, <1>8
  <2> QED
    BY <1>2, <2>1
<1> QED
  BY <1>6, <1>8, <1>9 DEF Compiles

\* The dimension filter of a query that passed, and what is fanned out into for
\* the fields that it or the report names.
Legible(q) ==
  /\ q.cited = ToSet(q.dimensions) \cup Fields(q.dimensionFilter) /\ q.cited \subseteq DIMENSIONS
  /\ "pagePath" \in q.cited => q.fanPage
  /\ "eventName" \in q.cited => q.fanEvent

LEMMA FilterPasses ==
  ASSUME NEW b \in Accepted
  PROVE  /\ IsTree(Queries[b].dimensionFilter) /\ Compiles(Queries[b].dimensionFilter)
         /\ Legible(Queries[b])
<1> DEFINE body == Bodies[b]
           f == body.dimensionFilter
<1>1. Passes(body) /\ IsTree(f) /\ Queries[b] = Query(body)
  BY QueryIs, BodiesAssumption
<1>2. Checks(body)[9] = FilterChecks(f, DIMENSIONS)
  BY DEF Checks
<1>3. /\ Query(body).dimensionFilter = f /\ Query(body).dimensions = body.dimensions
      /\ Query(body).cited = Cited(body)
      /\ Query(body).fanPage = FanOut(body, "page") /\ Query(body).fanEvent = FanOut(body, "event")
  BY DEF Query
<1>4. Cited(body) = ToSet(body.dimensions) \cup Fields(f)
  BY DEF Cited
<1>5. ToSet(body.dimensions) \subseteq DIMENSIONS
  BY FieldsKnown
<1> HIDE DEF body
<1>6. \A check \in ToSet(FilterChecks(f, DIMENSIONS)) : check.passes
  BY <1>1, <1>2, StagesPass
<1> HIDE DEF f
<1>7. Fields(f) \subseteq DIMENSIONS /\ Compiles(f)
  BY <1>1, <1>6, NodesPass DEF IsTree
<1>8. /\ "pagePath" \in Cited(body) => FanOut(body, "page")
      /\ "eventName" \in Cited(body) => FanOut(body, "event")
  <2>1. Scope("pagePath") = "page" /\ Scope("eventName") = "event"
    BY DEF Scope
  <2> QED
    BY <2>1 DEF FanOut
<1>9. Legible(Query(body))
  BY <1>3, <1>4, <1>5, <1>7, <1>8 DEF Legible
<1> QED
  BY <1>1, <1>3, <1>7, <1>9

\* What a session comes to for one of its pages and one of its events.
Fanned(q, s, page, event) ==
  Unit(s, IF q.fanPage THEN page ELSE None, IF q.fanEvent THEN event.name ELSE None,
       IF q.fanEvent THEN event.count ELSE 1)
Moment(s, page, event) == Unit(s, page, event.name, event.count)

\* A session comes to nothing else, and has a page and an event to come to.
LEMMA UnitsOfSet ==
  ASSUME NEW q, NEW s, Known(s)
  PROVE  \A u : u \in ToSet(UnitsOf(q, s))
                  <=> \E page \in ToSet(s.pages), event \in ToSet(s.events) : u = Fanned(q, s, page, event)
<1> DEFINE pages  == IF q.fanPage THEN s.pages ELSE <<None>>
           events == IF q.fanEvent THEN s.events ELSE <<[name |-> None, count |-> 1]>>
           P(page) == IF q.fanPage THEN page ELSE None
           N(event) == IF q.fanEvent THEN event.name ELSE None
           C(event) == IF q.fanEvent THEN event.count ELSE 1
           T(i) == [j \in DOMAIN events |-> Unit(s, pages[i], events[j].name, events[j].count)]
           seqs == [i \in DOMAIN pages |-> T(i)]
           S == {Unit(s, pages[i], events[j].name, events[j].count) : i \in DOMAIN pages, j \in DOMAIN events}
<1>1. PICK n \in Nat :
        /\ DOMAIN pages = 1 .. n
        /\ \A i \in 1 .. n : \E page \in ToSet(s.pages) : pages[i] = P(page)
        /\ \A page \in ToSet(s.pages) : \E i \in 1 .. n : pages[i] = P(page)
  <2>1. PICK U : s.pages \in Seq(U) /\ s.pages # <<>>
    BY DEF Known, Told
  <2>2. CASE q.fanPage
    BY <2>1, <2>2 DEF ToSet
  <2>3. CASE ~q.fanPage
    <3>1. pages = <<None>> /\ \A page : P(page) = None
      BY <2>3
    <3>2. DOMAIN pages = 1 .. 1 /\ pages[1] = None
      BY <3>1
    <3>3. 1 \in DOMAIN s.pages
      BY <2>1
    <3>4. s.pages[1] \in ToSet(s.pages)
      BY <3>3 DEF ToSet
    <3> HIDE DEF pages, P
    <3> QED
      BY <3>1, <3>2, <3>4
  <2> QED
    BY <2>2, <2>3
<1>2. PICK m \in Nat :
        /\ DOMAIN events = 1 .. m
        /\ \A j \in 1 .. m : \E event \in ToSet(s.events) :
             events[j].name = N(event) /\ events[j].count = C(event)
        /\ \A event \in ToSet(s.events) : \E j \in 1 .. m :
             events[j].name = N(event) /\ events[j].count = C(event)
  <2>1. PICK R : s.events \in Seq(R) /\ s.events # <<>>
    BY DEF Known, Told
  <2>2. CASE q.fanEvent
    <3>1. events = s.events /\ \A event : N(event) = event.name /\ C(event) = event.count
      BY <2>2
    <3> HIDE DEF events, N, C
    <3> QED
      BY <2>1, <3>1 DEF ToSet
  <2>3. CASE ~q.fanEvent
    <3>1. events = <<[name |-> None, count |-> 1]>> /\ \A event : N(event) = None /\ C(event) = 1
      BY <2>3
    <3>2. DOMAIN events = 1 .. 1 /\ events[1].name = None /\ events[1].count = 1
      BY <3>1
    <3>3. 1 \in DOMAIN s.events
      BY <2>1
    <3>4. s.events[1] \in ToSet(s.events)
      BY <3>3 DEF ToSet
    <3> HIDE DEF events, N, C
    <3> QED
      BY <3>1, <3>2, <3>4
  <2> QED
    BY <2>2, <2>3
<1>3. \A page, event : Fanned(q, s, page, event) = Unit(s, P(page), N(event), C(event))
  BY DEF Fanned
<1> HIDE DEF pages, events, P, N, C
<1>4. seqs \in Seq(Seq(S)) /\ DOMAIN seqs = 1 .. n
  <2>1. ASSUME NEW i \in 1 .. n  PROVE T(i) \in Seq(S)
    <3>1. ASSUME NEW j \in 1 .. m
          PROVE  Unit(s, pages[i], events[j].name, events[j].count) \in S
      BY <1>1, <1>2
    <3> HIDE DEF S
    <3>2. T(i) \in [1 .. m -> S]
      BY <1>2, <3>1
    <3> QED
      BY <3>2
  <2> HIDE DEF T, S
  <2>2. seqs \in [1 .. n -> Seq(S)]
    BY <1>1, <2>1
  <2> QED
    BY <2>2
<1>5. UnitsOf(q, s) = FlattenSeq(seqs)
  BY DEF UnitsOf, pages, events
<1>6. \A i \in 1 .. n : \A u :
        u \in ToSet(seqs[i]) <=> \E j \in 1 .. m : u = Unit(s, pages[i], events[j].name, events[j].count)
  <2>1. ASSUME NEW i \in 1 .. n, NEW u
        PROVE  u \in ToSet(T(i)) <=> \E j \in 1 .. m : u = Unit(s, pages[i], events[j].name, events[j].count)
    BY <1>2 DEF ToSet
  <2>2. \A i \in 1 .. n : seqs[i] = T(i)
    BY <1>1
  <2> HIDE DEF T, seqs
  <2> QED
    BY <2>1, <2>2
<1> HIDE DEF S, seqs, T
<1>7. ToSet(UnitsOf(q, s)) = UNION {ToSet(seqs[i]) : i \in 1 .. n}
  BY <1>4, <1>5, FlattenedSet
<1>8. \A u : u \in ToSet(UnitsOf(q, s))
               <=> \E i \in 1 .. n, j \in 1 .. m : u = Unit(s, pages[i], events[j].name, events[j].count)
  BY <1>6, <1>7
<1>9. ASSUME NEW u \in ToSet(UnitsOf(q, s))
      PROVE  \E page \in ToSet(s.pages), event \in ToSet(s.events) : u = Fanned(q, s, page, event)
  <2>1. PICK i \in 1 .. n, j \in 1 .. m : u = Unit(s, pages[i], events[j].name, events[j].count)
    BY <1>8
  <2>2. PICK page \in ToSet(s.pages) : pages[i] = P(page)
    BY <1>1
  <2>3. PICK event \in ToSet(s.events) : events[j].name = N(event) /\ events[j].count = C(event)
    BY <1>2
  <2> QED
    BY <1>3, <2>1, <2>2, <2>3
<1>10. ASSUME NEW page \in ToSet(s.pages), NEW event \in ToSet(s.events)
       PROVE  Fanned(q, s, page, event) \in ToSet(UnitsOf(q, s))
  <2>1. PICK i \in 1 .. n : pages[i] = P(page)
    BY <1>1
  <2>2. PICK j \in 1 .. m : events[j].name = N(event) /\ events[j].count = C(event)
    BY <1>2
  <2>3. Fanned(q, s, page, event) = Unit(s, pages[i], events[j].name, events[j].count)
    BY <1>3, <2>1, <2>2
  <2> QED
    BY <1>8, <2>3
<1> QED
  BY <1>9, <1>10

\* A unit shows the moments it was made of, and the filter takes them alike.
LEMMA UnitsShow ==
  ASSUME Legible(Q), NEW s, NEW page, NEW event
  PROVE  Shows(Fanned(Q, s, page, event), Moment(s, page, event))
<1> DEFINE u == Fanned(Q, s, page, event)
           moment == Moment(s, page, event)
<1>1. /\ u.session = s /\ moment.session = s
      /\ Q.fanPage => u.page = moment.page
      /\ Q.fanEvent => u.event = moment.event
  BY DEF Fanned, Moment, Unit
<1> HIDE DEF u, moment
<1>2. ASSUME NEW name \in Q.cited  PROVE Extract(name, u) = Extract(name, moment)
  <2>1. name \in DIMENSIONS /\ (name = "pagePath" => Q.fanPage) /\ (name = "eventName" => Q.fanEvent)
    BY DEF Legible
  <2>2. CASE name = "pagePath"
    BY <1>1, <2>1, <2>2 DEF Extract, DateFamily
  <2>3. CASE name = "eventName"
    BY <1>1, <2>1, <2>3 DEF Extract, DateFamily
  <2>4. CASE name \in DateFamily
    BY <1>1, <2>4 DEF Extract
  <2>5. CASE name \in {"sessionDefaultChannelGroup", "sessionMedium", "operatingSystem", "landingPage",
                       "newVsReturning"}
    BY <1>1, <2>5 DEF Extract, DateFamily
  <2> QED
    BY <2>1, <2>2, <2>3, <2>4, <2>5 DEF DIMENSIONS
<1> QED
  BY <1>1, <1>2 DEF Shows, Legible, u, moment

LEMMA AdmittedAlike ==
  ASSUME Legible(Q), NEW u, NEW moment, Shows(u, moment), NEW f
  PROVE  Admits(f, Q, u) = Admits(f, Q, moment)
<1>1. \A name \in Q.cited : Extract(name, u) = Extract(name, moment)
  BY DEF Shows, Legible
<1>2. [name \in Q.cited |-> Extract(name, u)] = [name \in Q.cited |-> Extract(name, moment)]
  BY <1>1
<1> QED
  BY <1>2 DEF Admits

\* What the ranges of a name have counted.
LEMMA UnitsNamedAre ==
  ASSUME BirthInv, TalesInv, NEW n \in Nat, Ranged(Q, n), NEW name
  PROVE  \A u : u \in UnitsNamed(name)
                  <=> \E k \in 1 .. n : /\ Q.ranges[k].name = name
                                       /\ u \in UnitSet(Q, Q.ranges[k])
                                       /\ Admits(Q.dimensionFilter, Q, u)
<1> DEFINE C == ToSet(Collected(Q))
           E(k) == Entries(Q, Q.ranges[k])
           A(u) == Admits(Q.dimensionFilter, Q, u)
           S(k) == UnitSet(Q, Q.ranges[k])
           In(k, u) == Entry(Q, Q.ranges[k], u)
<1>1. C = UNION {E(k) : k \in 1 .. n}
  BY CollectedSet
<1>2. ASSUME NEW k \in 1 .. n, NEW c \in E(k)
      PROVE  c.unit \in S(k) /\ A(c.unit) /\ c.range = Q.ranges[k].name
  BY <1>2 DEF Entries, Entry
<1>3. ASSUME NEW k \in 1 .. n, NEW u \in S(k), A(u)
      PROVE  In(k, u) \in E(k) /\ In(k, u).unit = u /\ In(k, u).range = Q.ranges[k].name
  BY <1>3 DEF Entries, Entry
<1> HIDE DEF E, A, S, In
<1>4. \A u : u \in UnitsNamed(name) <=> \E c \in C : c.unit = u /\ c.range = name
  BY DEF UnitsNamed
<1> HIDE DEF C
<1>5. ASSUME NEW u \in UnitsNamed(name)
      PROVE  \E k \in 1 .. n : Q.ranges[k].name = name /\ u \in S(k) /\ A(u)
  <2>1. PICK c \in C : c.unit = u /\ c.range = name
    BY <1>4
  <2>2. PICK k \in 1 .. n : c \in E(k)
    BY <1>1
  <2> QED
    BY <1>2, <2>1, <2>2
<1>6. ASSUME NEW k \in 1 .. n, NEW u, Q.ranges[k].name = name, u \in S(k), A(u)
      PROVE  u \in UnitsNamed(name)
  <2>1. In(k, u) \in C /\ In(k, u).unit = u /\ In(k, u).range = name
    BY <1>1, <1>3, <1>6
  <2> QED
    BY <1>4, <2>1
<1> QED
  BY <1>5, <1>6 DEF S, A

LEMMA FilterFollows == BirthInv /\ TalesInv /\ ServedInv => FilterIsSetAlgebra
<1> DEFINE tree == Q.dimensionFilter
           Right(name) ==
             /\ \A moment \in Happened(name) :
                  moment \in Meaning(tree, Happened(name)) <=> \E u \in UnitsNamed(name) : Shows(u, moment)
             /\ \A u \in UnitsNamed(name) : \E moment \in Happened(name) : Shows(u, moment)
<1>a. (Served /\ tree # <<>> => \A r \in DOMAIN Q.ranges : Right(Q.ranges[r].name)) => FilterIsSetAlgebra
  BY DEF FilterIsSetAlgebra
<1> SUFFICES ASSUME BirthInv, TalesInv, ServedInv, Served, tree # <<>>, NEW r \in DOMAIN Q.ranges
             PROVE  Right(Q.ranges[r].name)
  BY <1>a, Zenon
<1>1. PICK b : b \in Accepted /\ Q = Queries[b]
  BY DEF ServedInv, Q
<1>2. IsTree(tree) /\ Compiles(tree) /\ Legible(Q)
  BY <1>1, FilterPasses
<1>3. PICK n : Proper(Q, n)
  BY <1>1, QueryIsProper
<1>4. n \in Nat /\ Ranged(Q, n)
  BY <1>3 DEF Proper, Inside, Ranged
<1> DEFINE name == Q.ranges[r].name
           H == Happened(name)
           Own(k) == k \in 1 .. n /\ Q.ranges[k].name = name
           A(u) == Admits(tree, Q, u)
<1>5. ASSUME NEW k \in 1 .. n, NEW s \in SeenIn(Q.ranges[k])  PROVE Known(s)
  <2>1. PICK d \in Q.ranges[k].start .. Q.ranges[k].end : s \in ToSet(SessionsOf(d))
    BY DEF SeenIn
  <2>2. SessionsOf(d) \in Seq(Everyone) /\ \A t \in Everyone : Known(t)
    BY EveryoneIsKnown
  <2> QED
    BY <2>1, <2>2 DEF ToSet
<1>6. \A m : m \in H <=> \E k : Own(k) /\ \E s \in SeenIn(Q.ranges[k]) : m \in Moments(s)
  <2>1. DOMAIN Q.ranges = 1 .. n
    BY <1>4 DEF Ranged
  <2> QED
    BY <2>1 DEF Happened
<1>7. \A s, m : m \in Moments(s)
                  <=> \E page \in ToSet(s.pages), event \in ToSet(s.events) : m = Moment(s, page, event)
  BY DEF Moments, Moment
<1>8. \A u : u \in UnitsNamed(name)
               <=> A(u) /\ \E k : Own(k) /\ \E s \in SeenIn(Q.ranges[k]) : u \in ToSet(UnitsOf(Q, s))
  <2>1. \A k, u : u \in UnitSet(Q, Q.ranges[k])
                    <=> \E s \in SeenIn(Q.ranges[k]) : u \in ToSet(UnitsOf(Q, s))
    BY DEF UnitSet
  <2>2. \A u : u \in UnitsNamed(name)
                 <=> \E k \in 1 .. n : Q.ranges[k].name = name /\ u \in UnitSet(Q, Q.ranges[k]) /\ A(u)
    BY <1>4, UnitsNamedAre
  <2> HIDE DEF A, name
  <2> QED
    BY <2>1, <2>2
<1>9. \A m : m \in Meaning(tree, H) <=> m \in H /\ A(m)
  <2> HIDE DEF H, tree
  <2> DEFINE W == [m \in H |-> [field \in Q.cited |-> Extract(field, m)]]
  <2>1. \A m \in H : W[m] = [field \in Q.cited |-> Extract(field, m)]
    OBVIOUS
  <2> HIDE DEF W
  <2>2. Fields(tree) \subseteq Q.cited
    BY <1>2 DEF Legible, tree
  <2>3. Valued(tree, H, W)
    BY <2>1, <2>2 DEF Valued
  <2>4. Meaning(tree, H) = {m \in H : Holds(tree, W[m])}
    BY <1>2, <2>3, MeaningIs
  <2>5. \A m \in H : Holds(tree, W[m]) = A(m)
    BY <2>1, Zenon DEF Admits
  <2> QED
    BY <2>4, <2>5
<1> HIDE DEF H, A, tree, name
<1>10. ASSUME NEW u, NEW m, Shows(u, m)  PROVE A(u) = A(m)
  BY <1>2, <1>10, AdmittedAlike DEF A
<1>11. ASSUME NEW m \in H  PROVE m \in Meaning(tree, H) <=> \E u \in UnitsNamed(name) : Shows(u, m)
  <2>1. ASSUME A(m)  PROVE \E u \in UnitsNamed(name) : Shows(u, m)
    <3>1. PICK k : Own(k) /\ \E s \in SeenIn(Q.ranges[k]) : m \in Moments(s)
      BY <1>6
    <3>2. PICK s \in SeenIn(Q.ranges[k]) : m \in Moments(s)
      BY <3>1
    <3>3. PICK page \in ToSet(s.pages), event \in ToSet(s.events) : m = Moment(s, page, event)
      BY <1>7, <3>2
    <3> DEFINE u == Fanned(Q, s, page, event)
    <3>4. u \in ToSet(UnitsOf(Q, s))
      BY <1>5, <3>1, UnitsOfSet
    <3>5. Shows(u, m)
      BY <1>2, <3>3, UnitsShow
    <3> HIDE DEF u
    <3>6. A(u)
      BY <1>10, <2>1, <3>5
    <3>7. u \in UnitsNamed(name)
      BY <1>8, <3>1, <3>4, <3>6
    <3> QED
      BY <3>5, <3>7
  <2>2. ASSUME NEW u \in UnitsNamed(name), Shows(u, m)  PROVE A(m)
    <3>1. A(u)
      BY <1>8
    <3>2. A(u) = A(m)
      BY <1>10, <2>2
    <3> QED
      BY <3>1, <3>2
  <2> QED
    BY <1>9, <2>1, <2>2
<1>12. ASSUME NEW u \in UnitsNamed(name)  PROVE \E m \in H : Shows(u, m)
  <2>1. PICK k : Own(k) /\ \E s \in SeenIn(Q.ranges[k]) : u \in ToSet(UnitsOf(Q, s))
    BY <1>8
  <2>2. PICK s \in SeenIn(Q.ranges[k]) : u \in ToSet(UnitsOf(Q, s))
    BY <2>1
  <2>3. PICK page \in ToSet(s.pages), event \in ToSet(s.events) : u = Fanned(Q, s, page, event)
    BY <1>5, <2>1, <2>2, UnitsOfSet
  <2> DEFINE m == Moment(s, page, event)
  <2>4. Shows(u, m)
    BY <1>2, <2>3, UnitsShow
  <2>5. m \in Moments(s)
    BY <1>7
  <2> HIDE DEF m
  <2>6. m \in H
    BY <1>6, <2>1, <2>2, <2>5
  <2> QED
    BY <2>4, <2>6
<1> QED
  BY <1>11, <1>12 DEF H, name

\* A filter keeps what it stands for in the world, whatever its tree, whether
\* its fields are asked for or only cited, and in every range, also when several
\* go by one name: what a session is fanned out into shows all that filters.py's
\* compiled predicate reads, and that predicate is the algebra of sets.
THEOREM FiltersAreSets == Spec => []FilterIsSetAlgebra
<1> DEFINE Inv == BirthInv /\ TalesInv /\ ServedInv
<1>1. Init => Inv
  <2>1. Init => ServedInv
    BY DEF Init, NoReply, Failure, Answer, Served, ServedInv
  <2>2. Init => TalesInv
    BY DEF Init, GInit, TalesInv
  <2> QED
    BY <2>1, <2>2, BirthInit DEF Init
<1>2. Inv /\ [Next]_rvars => Inv'
  BY BirthStep, TalesStep, ServedStep
<1>3. Inv => FilterIsSetAlgebra
  BY FilterFollows
<1> QED
  BY <1>1, <1>2, <1>3, PTL DEF Spec

(***************************************************************************)
(* Sums over finite sets                                                    *)
(***************************************************************************)
First(s) == CHOOSE y \in s : TRUE
Adds(it, f, D) ==
  it = [s \in SUBSET D |-> IF s = {} THEN 0 ELSE f[First(s)] + it[s \ {First(s)}]]
Numbers(f, D) == \A x \in D : f[x] \in Int

\* A finite set, without its first member.
LEMMA WithoutFirst ==
  ASSUME NEW D, IsFiniteSet(D), NEW s \in SUBSET D, s # {}
  PROVE  /\ First(s) \in s /\ s \ {First(s)} \in SUBSET D
         /\ IsFiniteSet(s) /\ Cardinality(s) \in Nat
         /\ Cardinality(s \ {First(s)}) = Cardinality(s) - 1
<1>1. First(s) \in s
  BY DEF First
<1>2. IsFiniteSet(s)
  BY FS_Subset
<1> QED
  BY <1>1, <1>2, FS_RemoveElement, FS_CardinalityType

\* The sums of the sets of at most k members.
AddsUpTo(it, f, D, k) ==
  \A s \in SUBSET D : Cardinality(s) <= k =>
    it[s] = IF s = {} THEN 0 ELSE f[First(s)] + it[s \ {First(s)}]

LEMMA SumsExist ==
  ASSUME NEW D, IsFiniteSet(D), NEW f, Numbers(f, D)
  PROVE  \E it \in [SUBSET D -> Int] : Adds(it, f, D)
<1>0. PICK n \in Nat : n = Cardinality(D)
  BY FS_CardinalityType
<1>1. \A s \in SUBSET D : Cardinality(s) \in 0 .. n
  <2>1. ASSUME NEW s \in SUBSET D  PROVE Cardinality(s) \in 0 .. n
    <3>1. IsFiniteSet(s) /\ Cardinality(s) <= Cardinality(D)
      BY FS_Subset
    <3> QED
      BY <1>0, <3>1, FS_CardinalityType
  <2> QED
    BY <2>1
<1> DEFINE P == {k \in 0 .. n : \E it \in [SUBSET D -> Int] : AddsUpTo(it, f, D, k)}
<1>2. 0 \in P
  <2> DEFINE z == [s \in SUBSET D |-> 0]
  <2>1. ASSUME NEW s \in SUBSET D, Cardinality(s) <= 0  PROVE s = {}
    <3>1. Cardinality(s) = 0
      BY <1>1, <2>1
    <3> QED
      BY <3>1, FS_Subset, FS_EmptySet
  <2>2. z \in [SUBSET D -> Int] /\ \A s \in SUBSET D : z[s] = 0
    OBVIOUS
  <2> HIDE DEF z
  <2>3. AddsUpTo(z, f, D, 0)
    BY <2>1, <2>2 DEF AddsUpTo
  <2> QED
    BY <2>2, <2>3
<1>3. ASSUME NEW k \in 1 .. n, k - 1 \in P  PROVE k \in P
  <2>1. PICK it \in [SUBSET D -> Int] : AddsUpTo(it, f, D, k - 1)
    BY <1>3
  <2> DEFINE v(s) == IF s = {} THEN 0 ELSE f[First(s)] + it[s \ {First(s)}]
             jt == [s \in SUBSET D |-> v(s)]
  <2>2. ASSUME NEW s \in SUBSET D  PROVE v(s) \in Int
    <3>1. CASE s = {}
      BY <3>1
    <3>2. CASE s # {}
      <4>1. First(s) \in D /\ s \ {First(s)} \in SUBSET D
        BY <3>2, WithoutFirst
      <4>2. f[First(s)] \in Int /\ it[s \ {First(s)}] \in Int
        BY <4>1 DEF Numbers
      <4> QED
        BY <3>2, <4>2
    <3> QED
      BY <3>1, <3>2
  <2>3. jt \in [SUBSET D -> Int] /\ \A s \in SUBSET D : jt[s] = v(s)
    <3> HIDE DEF v
    <3> QED
      BY <2>2
  <2> HIDE DEF jt
  <2>4. ASSUME NEW s \in SUBSET D, Cardinality(s) <= k - 1  PROVE jt[s] = it[s]
    <3>1. it[s] = v(s)
      BY <2>1, <2>4 DEF AddsUpTo
    <3> QED
      BY <2>3, <3>1
  <2>5. ASSUME NEW s \in SUBSET D, Cardinality(s) <= k
        PROVE  jt[s] = IF s = {} THEN 0 ELSE f[First(s)] + jt[s \ {First(s)}]
    <3>1. CASE s = {}
      BY <2>3, <3>1
    <3>2. CASE s # {}
      <4>1. s \ {First(s)} \in SUBSET D /\ Cardinality(s \ {First(s)}) <= k - 1
        <5>1. /\ s \ {First(s)} \in SUBSET D /\ Cardinality(s) \in Nat
              /\ Cardinality(s \ {First(s)}) = Cardinality(s) - 1
          BY <3>2, WithoutFirst
        <5> QED
          BY <2>5, <5>1
      <4>2. jt[s \ {First(s)}] = it[s \ {First(s)}]
        BY <2>4, <4>1
      <4>3. jt[s] = v(s)
        BY <2>3
      <4> QED
        BY <3>2, <4>2, <4>3
    <3> QED
      BY <3>1, <3>2
  <2>6. AddsUpTo(jt, f, D, k)
    BY <2>5 DEF AddsUpTo
  <2> QED
    BY <2>3, <2>6
<1>4. PICK it \in [SUBSET D -> Int] : AddsUpTo(it, f, D, n)
  <2>1. \A k \in 0 .. n : k \in P
    <3>1. \A k \in 1 .. n : k - 1 \in P => k \in P
      BY <1>3, Zenon
    <3> HIDE DEF P
    <3> QED
      BY <1>2, <3>1, Climb, Zenon
  <2> HIDE DEF P
  <2>2. n \in P
    BY <2>1
  <2> QED
    BY <2>2 DEF P
<1>5. ASSUME NEW s \in SUBSET D
      PROVE  it[s] = IF s = {} THEN 0 ELSE f[First(s)] + it[s \ {First(s)}]
  <2>1. Cardinality(s) <= n
    BY <1>1
  <2> QED
    BY <1>4, <2>1 DEF AddsUpTo
<1>6. it = [s \in SUBSET D |-> IF s = {} THEN 0 ELSE f[First(s)] + it[s \ {First(s)}]]
  <2>1. it = [s \in SUBSET D |-> it[s]]
    BY <1>4
  <2> QED
    BY <1>5, <2>1
<1>7. Adds(it, f, D)
  BY <1>6 DEF Adds
<1> QED
  BY <1>7

\* What the sums over the subsets of D are.
Table(h, f, D) ==
  /\ h \in [SUBSET D -> Int] /\ h[{}] = 0
  /\ \A s \in SUBSET D : s # {} => h[s] = f[First(s)] + h[s \ {First(s)}]

LEMMA SumIs ==
  ASSUME NEW D, IsFiniteSet(D), NEW f, Numbers(f, D)
  PROVE  \E h : Table(h, f, D) /\ Sum(f, D) = h[D]
<1> DEFINE h == CHOOSE it : Adds(it, f, D)
<1>1. Sum(f, D) = h[D]
  BY DEF Sum, SumFunctionOnSet, FoldFunctionOnSet, MapThenFoldSet, Adds, First
<1>2. Adds(h, f, D)
  BY SumsExist
<1> HIDE DEF h
<1>3. /\ DOMAIN h = SUBSET D /\ h = [s \in SUBSET D |-> h[s]]
      /\ \A s \in SUBSET D : h[s] = IF s = {} THEN 0 ELSE f[First(s)] + h[s \ {First(s)}]
  BY <1>2 DEF Adds
<1>4. h[{}] = 0
  BY <1>3
<1>0. PICK n \in Nat : n = Cardinality(D)
  BY FS_CardinalityType
<1> DEFINE P == {k \in 0 .. n : \A s \in SUBSET D : Cardinality(s) = k => h[s] \in Int}
<1>5. 0 \in P
  <2>1. ASSUME NEW s \in SUBSET D, Cardinality(s) = 0  PROVE h[s] \in Int
    <3>1. s = {}
      BY <2>1, FS_Subset, FS_EmptySet
    <3> QED
      BY <1>4, <3>1
  <2> QED
    BY <2>1
<1>6. ASSUME NEW k \in 1 .. n, k - 1 \in P  PROVE k \in P
  <2>1. ASSUME NEW s \in SUBSET D, Cardinality(s) = k  PROVE h[s] \in Int
    <3>1. s # {}
      BY <2>1, FS_EmptySet
    <3>2. /\ First(s) \in s /\ s \ {First(s)} \in SUBSET D
          /\ Cardinality(s \ {First(s)}) = k - 1
      BY <2>1, <3>1, WithoutFirst
    <3>3. h[s \ {First(s)}] \in Int
      BY <1>6, <3>2
    <3>4. f[First(s)] \in Int
      BY <3>2 DEF Numbers
    <3>5. h[s] = f[First(s)] + h[s \ {First(s)}]
      BY <1>3, <3>1
    <3> QED
      BY <3>3, <3>4, <3>5
  <2> QED
    BY <2>1
<1>7. ASSUME NEW s \in SUBSET D  PROVE h[s] \in Int
  <2>1. Cardinality(s) \in 0 .. n
    <3>1. IsFiniteSet(s) /\ Cardinality(s) <= Cardinality(D)
      BY FS_Subset
    <3> QED
      BY <1>0, <3>1, FS_CardinalityType
  <2>2. \A k \in 0 .. n : k \in P
    <3>1. \A k \in 1 .. n : k - 1 \in P => k \in P
      BY <1>6, Zenon
    <3> HIDE DEF P
    <3> QED
      BY <1>5, <3>1, Climb, Zenon
  <2> QED
    BY <2>1, <2>2
<1>8. h \in [SUBSET D -> Int]
  BY <1>3, <1>7
<1> QED
  BY <1>1, <1>3, <1>4, <1>8 DEF Table

\* Any member may be the first.
LEMMA TableAdds ==
  ASSUME NEW D, IsFiniteSet(D), NEW f, Numbers(f, D), NEW h, Table(h, f, D)
  PROVE  \A s \in SUBSET D : \A x \in s : h[s] = f[x] + h[s \ {x}]
<1>0. PICK n \in Nat : n = Cardinality(D)
  BY FS_CardinalityType
<1>1. \A s \in SUBSET D : IsFiniteSet(s) /\ Cardinality(s) \in 0 .. n
  <2>1. ASSUME NEW s \in SUBSET D  PROVE IsFiniteSet(s) /\ Cardinality(s) \in 0 .. n
    <3>1. IsFiniteSet(s) /\ Cardinality(s) <= Cardinality(D)
      BY FS_Subset
    <3> QED
      BY <1>0, <3>1, FS_CardinalityType
  <2> QED
    BY <2>1
<1> DEFINE Good(s) == \A x \in s : h[s] = f[x] + h[s \ {x}]
           P == {k \in 0 .. n : \A s \in SUBSET D : Cardinality(s) = k => Good(s)}
<1>2. 0 \in P
  <2>1. ASSUME NEW s \in SUBSET D, Cardinality(s) = 0  PROVE Good(s)
    <3>1. s = {}
      BY <1>1, <2>1, FS_EmptySet
    <3> QED
      BY <3>1
  <2> QED
    BY <2>1
<1>3. ASSUME NEW k \in 1 .. n, k - 1 \in P  PROVE k \in P
  <2>1. ASSUME NEW s \in SUBSET D, Cardinality(s) = k, NEW x \in s  PROVE h[s] = f[x] + h[s \ {x}]
    <3> DEFINE y == First(s)
    <3>1. y \in s /\ h[s] = f[y] + h[s \ {y}]
      BY WithoutFirst DEF Table
    <3> HIDE DEF y
    <3>2. CASE x = y
      BY <3>1, <3>2
    <3>3. CASE x # y
      <4>1. /\ Cardinality(s \ {x}) = k - 1 /\ Cardinality(s \ {y}) = k - 1
            /\ s \ {x} \in SUBSET D /\ s \ {y} \in SUBSET D
        BY <1>1, <2>1, <3>1, FS_RemoveElement
      <4>2. Good(s \ {x}) /\ Good(s \ {y})
        BY <1>3, <4>1
      <4>3. x \in s \ {y} /\ y \in s \ {x} /\ (s \ {x}) \ {y} = (s \ {y}) \ {x}
        BY <3>1, <3>3
      <4>4. h[s \ {y}] = f[x] + h[(s \ {y}) \ {x}]
        BY <4>2, <4>3
      <4>5. h[s \ {x}] = f[y] + h[(s \ {y}) \ {x}]
        BY <4>2, <4>3
      <4> DEFINE r == (s \ {y}) \ {x}
      <4>6. f[x] \in Int /\ f[y] \in Int /\ h[r] \in Int
        BY <3>1 DEF Numbers, Table
      <4> HIDE DEF r
      <4> QED
        BY <3>1, <4>4, <4>5, <4>6 DEF r
    <3> QED
      BY <3>2, <3>3
  <2> QED
    BY <2>1
<1>4. ASSUME NEW s \in SUBSET D  PROVE Good(s)
  <2>1. \A k \in 0 .. n : k \in P
    <3>1. \A k \in 1 .. n : k - 1 \in P => k \in P
      BY <1>3, Zenon
    <3> HIDE DEF P
    <3> QED
      BY <1>2, <3>1, Climb, Zenon
  <2> HIDE DEF Good
  <2> QED
    BY <1>1, <2>1
<1> QED
  BY <1>4

\* Two tables agree where what they add does.
LEMMA TablesAgree ==
  ASSUME NEW D, IsFiniteSet(D), NEW f, Numbers(f, D), NEW h, Table(h, f, D),
         NEW E, IsFiniteSet(E), NEW g, Numbers(g, E), NEW k, Table(k, g, E),
         NEW S, S \subseteq D, S \subseteq E, \A x \in S : f[x] = g[x]
  PROVE  h[S] = k[S]
<1>0. PICK n \in Nat : n = Cardinality(S) /\ IsFiniteSet(S)
  BY FS_Subset, FS_CardinalityType
<1> DEFINE P == {i \in 0 .. n : \A s \in SUBSET S : Cardinality(s) = i => h[s] = k[s]}
<1>1. 0 \in P
  <2>1. ASSUME NEW s \in SUBSET S, Cardinality(s) = 0  PROVE h[s] = k[s]
    <3>1. s = {}
      BY <1>0, <2>1, FS_Subset, FS_EmptySet
    <3> QED
      BY <3>1 DEF Table
  <2> QED
    BY <2>1
<1>2. ASSUME NEW i \in 1 .. n, i - 1 \in P  PROVE i \in P
  <2>1. ASSUME NEW s \in SUBSET S, Cardinality(s) = i  PROVE h[s] = k[s]
    <3>1. s # {}
      BY <2>1, FS_EmptySet
    <3> DEFINE x == First(s)
               r == s \ {x}
    <3>2. x \in s /\ r \in SUBSET S /\ Cardinality(r) = i - 1
      BY <1>0, <2>1, <3>1, WithoutFirst
    <3>3. h[r] = k[r]
      BY <1>2, <3>2
    <3>4. h[s] = f[x] + h[r] /\ k[s] = g[x] + k[r]
      BY <3>1 DEF Table
    <3> QED
      BY <3>2, <3>3, <3>4
  <2> QED
    BY <2>1
<1>3. \A i \in 0 .. n : i \in P
  <2>1. \A i \in 1 .. n : i - 1 \in P => i \in P
    BY <1>2, Zenon
  <2> HIDE DEF P
  <2> QED
    BY <1>1, <2>1, Climb, Zenon
<1> QED
  BY <1>0, <1>3

\* A sum over nothing, over one more, and of what is the same.
LEMMA SumEmpty ==
  ASSUME NEW f
  PROVE  Sum(f, {}) = 0
<1>1. IsFiniteSet({}) /\ Numbers(f, {})
  BY FS_EmptySet DEF Numbers
<1> QED
  BY <1>1, SumIs DEF Table

LEMMA SumSame ==
  ASSUME NEW S, IsFiniteSet(S), NEW f, NEW g, Numbers(f, S), \A x \in S : g[x] = f[x]
  PROVE  Sum(f, S) \in Int /\ Sum(g, S) = Sum(f, S)
<1>1. Numbers(g, S)
  BY DEF Numbers
<1>2. PICK h : Table(h, f, S) /\ Sum(f, S) = h[S]
  BY SumIs
<1>3. PICK k : Table(k, g, S) /\ Sum(g, S) = k[S]
  BY <1>1, SumIs
<1>4. h[S] = k[S]
  BY <1>1, <1>2, <1>3, TablesAgree
<1> QED
  BY <1>2, <1>3, <1>4 DEF Table

LEMMA SumOne ==
  ASSUME NEW S, IsFiniteSet(S), NEW x, x \notin S, NEW f, Numbers(f, S \cup {x})
  PROVE  /\ Sum(f, S) \in Int /\ f[x] \in Int
         /\ Sum(f, S \cup {x}) = Sum(f, S) + f[x]
<1> DEFINE T == S \cup {x}
<1>1. IsFiniteSet(T) /\ Numbers(f, S) /\ T \ {x} = S
  BY FS_AddElement DEF Numbers
<1>2. PICK h : Table(h, f, S) /\ Sum(f, S) = h[S]
  BY <1>1, SumIs
<1>3. PICK k : Table(k, f, T) /\ Sum(f, T) = k[T]
  BY <1>1, SumIs
<1>4. h[S] = k[S]
  BY <1>1, <1>2, <1>3, TablesAgree
<1>5. k[T] = f[x] + k[T \ {x}]
  BY <1>1, <1>3, TableAdds
<1>6. h[S] \in Int /\ f[x] \in Int
  BY <1>2 DEF Table, Numbers
<1>7. Sum(f, T) = k[T] /\ T = S \cup {x}
  BY <1>3
<1> HIDE DEF T
<1>8. k[T] = f[x] + h[S]
  BY <1>1, <1>4, <1>5, Zenon
<1>9. Sum(f, T) = h[S] + f[x]
  BY <1>6, <1>7, <1>8
<1> QED
  BY <1>2, <1>6, <1>7, <1>9, Zenon

\* The numbers of a set up to one of them.
UpTo(I, i) == {j \in I : j <= i}

LEMMA UpToGrows ==
  ASSUME NEW n \in Nat, NEW I, I \subseteq 1 .. n
  PROVE  /\ UpTo(I, 0) = {} /\ UpTo(I, n) = I
         /\ \A i \in 1 .. n :
              /\ IsFiniteSet(UpTo(I, i - 1)) /\ UpTo(I, i) \subseteq I
              /\ i \notin I => UpTo(I, i) = UpTo(I, i - 1)
              /\ i \in I => i \notin UpTo(I, i - 1) /\ UpTo(I, i) = UpTo(I, i - 1) \cup {i}
<1>1. \A j \in I : j \in 1 .. n
  OBVIOUS
<1> HIDE DEF UpTo
<1>2. \A i, j : j \in UpTo(I, i) <=> j \in I /\ j <= i
  BY DEF UpTo
<1>3. UpTo(I, 0) = {}
  <2> SUFFICES ASSUME NEW j \in UpTo(I, 0)  PROVE FALSE
    OBVIOUS
  <2>1. j \in I /\ j <= 0
    BY <1>2
  <2>2. j \in 1 .. n
    BY <1>1, <2>1
  <2> QED
    BY <2>1, <2>2
<1>4. UpTo(I, n) = I
  <2>1. ASSUME NEW j  PROVE j \in UpTo(I, n) <=> j \in I
    <3>1. j \in I => j \in 1 .. n
      BY <1>1
    <3>2. j \in I => j <= n
      BY <3>1
    <3> QED
      BY <1>2, <3>2
  <2> QED
    BY <2>1
<1>5. ASSUME NEW i \in 1 .. n
      PROVE  /\ IsFiniteSet(UpTo(I, i - 1)) /\ UpTo(I, i) \subseteq I
             /\ i \notin I => UpTo(I, i) = UpTo(I, i - 1)
             /\ i \in I => i \notin UpTo(I, i - 1) /\ UpTo(I, i) = UpTo(I, i - 1) \cup {i}
  <2>0. \A j \in UpTo(I, i - 1) : j \in 1 .. n
    BY <1>1, <1>2
  <2>1. IsFiniteSet(1 .. n) /\ UpTo(I, i - 1) \in SUBSET (1 .. n)
    BY <2>0, FS_Interval
  <2>2. IsFiniteSet(UpTo(I, i - 1))
    BY <2>1, FS_Subset
  <2>3. UpTo(I, i) \subseteq I /\ i \notin UpTo(I, i - 1)
    BY <1>2
  <2>4. \A j : j \in UpTo(I, i) <=> j \in UpTo(I, i - 1) \/ (j = i /\ i \in I)
    <3>1. ASSUME NEW j  PROVE j \in UpTo(I, i) <=> j \in UpTo(I, i - 1) \/ (j = i /\ i \in I)
      <4>1. CASE j \in I
        <5>1. j \in 1 .. n
          BY <1>1, <4>1
        <5> QED
          BY <1>2, <4>1, <5>1
      <4>2. CASE j \notin I
        BY <1>2, <4>2
      <4> QED
        BY <4>1, <4>2
    <3> QED
      BY <3>1
  <2>5. i \notin I => UpTo(I, i) = UpTo(I, i - 1)
    BY <2>4
  <2>6. i \in I => UpTo(I, i) = UpTo(I, i - 1) \cup {i}
    BY <2>4
  <2> QED
    BY <2>2, <2>3, <2>5, <2>6
<1> QED
  BY <1>3, <1>4, <1>5

\* A list counts for one event more.
LEMMA CountAppended ==
  ASSUME NEW R, \A r \in R : r.count \in Nat, NEW t \in Seq(R), NEW x \in R
  PROVE  CountOf(t \o <<x>>) = CountOf(t) + x.count /\ CountOf(t) \in Nat
<1>0. PICK n \in Nat : n = Len(t) /\ DOMAIN t = 1 .. n /\ \A i \in 1 .. n : t[i] \in R
  OBVIOUS
<1> DEFINE u == t \o <<x>>
<1>1. Len(u) = n + 1 /\ u[n + 1] = x /\ \A i \in 1 .. n : u[i] = t[i]
  BY <1>0
<1> HIDE DEF u
<1>2. PICK f : /\ f[0] = 0 /\ CountOf(t) = f[n]
               /\ \A i \in 1 .. n : f[i] = f[i - 1] + t[i].count
  BY <1>0, CountIs
<1>3. PICK g : /\ g[0] = 0 /\ CountOf(u) = g[n + 1]
               /\ \A i \in 1 .. n + 1 : g[i] = g[i - 1] + u[i].count
  <2>1. Len(u) \in Nat
    BY <1>1
  <2>2. PICK g : /\ g[0] = 0 /\ CountOf(u) = g[Len(u)]
                 /\ \A i \in 1 .. Len(u) : g[i] = g[i - 1] + u[i].count
    BY <2>1, CountIs, Zenon
  <2> QED
    BY <1>1, <2>2, Zenon
<1> DEFINE P == {i \in 0 .. n : f[i] \in Nat /\ g[i] = f[i]}
<1>4. \A i \in 0 .. n : i \in P
  <2>1. 0 \in P
    BY <1>2, <1>3
  <2>2. ASSUME NEW i \in 1 .. n, i - 1 \in P  PROVE i \in P
    <3>1. t[i].count \in Nat /\ u[i] = t[i]
      BY <1>0, <1>1
    <3>2. f[i] = f[i - 1] + t[i].count /\ g[i] = g[i - 1] + t[i].count
      BY <1>2, <1>3, <3>1
    <3> QED
      BY <2>2, <3>1, <3>2
  <2> HIDE DEF P
  <2> QED
    BY <2>1, <2>2, Climb
<1>5. f[n] \in Nat /\ g[n] = f[n]
  BY <1>4
<1>6. g[n + 1] = g[n] + x.count
  <2>1. n + 1 \in 1 .. n + 1 /\ (n + 1) - 1 = n
    OBVIOUS
  <2> QED
    BY <1>1, <1>3, <2>1
<1> QED
  BY <1>2, <1>3, <1>5, <1>6 DEF u

\* What a list of events counts for, some of them, is the sum over their places.
KeyPlaces(s) == {j \in DOMAIN s.events : s.events[j].name \in KEY_EVENTS}

LEMMA KeyOfSums ==
  ASSUME NEW s, NEW N, s.events \in Seq([name : N, count : Nat])
  PROVE  /\ KeyOf(s) = Sum([j \in KeyPlaces(s) |-> s.events[j].count], KeyPlaces(s))
         /\ KeyOf(s) \in Nat
<1> DEFINE events == s.events
           I == KeyPlaces(s)
           R == [name : N, count : Nat]
           g == [j \in I |-> events[j].count]
<1>1. KeyOf(s) = CountOf(Picked(events, I))
  BY DEF KeyOf, KeyPlaces
<1>2. \A r \in R : r.count \in Nat
  OBVIOUS
<1>3. events \in Seq(R)
  OBVIOUS
<1> HIDE DEF events, R
<1>0. PICK n \in Nat : n = Len(events) /\ DOMAIN events = 1 .. n /\ \A i \in 1 .. n : events[i] \in R
  BY <1>3
<1>4. PICK f \in [0 .. n -> Seq(R)] : Picks(f, events, I)
  BY <1>0, <1>3, PickedIs
<1>5. /\ f[0] = <<>> /\ Picked(events, I) = f[n]
      /\ \A i \in 1 .. n : f[i] = f[i - 1] \o (IF i \in I THEN <<events[i]>> ELSE <<>>)
  BY <1>0, <1>4 DEF Picks
<1>6. I \subseteq 1 .. n
  BY <1>0 DEF KeyPlaces, events
<1>7. \A j \in I : g[j] = events[j].count /\ g[j] \in Nat
  BY <1>0, <1>2, <1>6
<1> HIDE DEF g, I
<1> DEFINE P == {i \in 0 .. n : CountOf(f[i]) = Sum(g, UpTo(I, i))}
<1>8. 0 \in P
  <2>1. UpTo(I, 0) = {}
    BY <1>6, UpToGrows
  <2>2. Sum(g, UpTo(I, 0)) = 0
    BY <2>1, SumEmpty, Zenon
  <2>3. CountOf(f[0]) = 0
    <3>1. f[0] \in Seq(R) /\ f[0] = <<>>
      BY <1>5
    <3> QED
      BY <3>1, CountIsNat DEF R
  <2> QED
    BY <2>2, <2>3
<1>9. ASSUME NEW i \in 1 .. n, i - 1 \in P  PROVE i \in P
  <2>1. f[i - 1] \in Seq(R) /\ events[i] \in R
    BY <1>0
  <2>2. CASE i \notin I
    <3>1. f[i] = f[i - 1] \o <<>>
      BY <1>5, <2>2
    <3>2. f[i] = f[i - 1]
      BY <2>1, <3>1
    <3>3. UpTo(I, i) = UpTo(I, i - 1)
      BY <1>6, <2>2, UpToGrows
    <3> QED
      BY <1>9, <3>2, <3>3
  <2>3. CASE i \in I
    <3>1. f[i] = f[i - 1] \o <<events[i]>>
      BY <1>5, <2>3
    <3>2. CountOf(f[i]) = CountOf(f[i - 1]) + events[i].count
      BY <1>2, <2>1, <3>1, CountAppended
    <3>3. /\ IsFiniteSet(UpTo(I, i - 1)) /\ UpTo(I, i) \subseteq I
          /\ i \notin UpTo(I, i - 1) /\ UpTo(I, i) = UpTo(I, i - 1) \cup {i}
      BY <1>6, <2>3, UpToGrows
    <3>4. Numbers(g, UpTo(I, i - 1) \cup {i})
      BY <1>7, <3>3 DEF Numbers
    <3>5. Sum(g, UpTo(I, i - 1) \cup {i}) = Sum(g, UpTo(I, i - 1)) + g[i]
      BY <3>3, <3>4, SumOne
    <3>6. CountOf(f[i - 1]) = Sum(g, UpTo(I, i - 1)) /\ g[i] = events[i].count
      BY <1>7, <1>9, <2>3
    <3>7. Sum(g, UpTo(I, i)) = Sum(g, UpTo(I, i - 1)) + g[i]
      BY <3>3, <3>5, Zenon
    <3> QED
      BY <3>2, <3>6, <3>7
  <2> QED
    BY <2>2, <2>3
<1>10. n \in P
  <2>1. \A i \in 1 .. n : i - 1 \in P => i \in P
    BY <1>9, Zenon
  <2> HIDE DEF P
  <2>2. \A i \in 0 .. n : i \in P
    BY <1>8, <2>1, Climb, Zenon
  <2> QED
    BY <2>2
<1>11. UpTo(I, n) = I
  BY <1>6, UpToGrows
<1>12. CountOf(f[n]) = Sum(g, I)
  BY <1>10, <1>11
<1>13. KeyOf(s) \in Nat
  BY KeyOfIs
<1> QED
  BY <1>1, <1>5, <1>12, <1>13 DEF g, I, events

(***************************************************************************)
(* Rows that count every session once                                       *)
(***************************************************************************)
\* No two sessions of the world have one id.
LEMMA IdsApart ==
  ASSUME BirthInv, TalesInv, NEW s \in Everyone, NEW t \in Everyone, s.id = t.id
  PROVE  s = t
<1>1. PICK S : world \in Seq(Seq(S))
  BY DEF BirthInv, WorldTyped
<1>2. ASSUME NEW x \in Everyone
      PROVE  \E k \in 1 .. Len(world) : \E i \in 1 .. Len(world[k]) :
               x = world[k][i] /\ x.id = <<HISTORY_START + k - 1, i - 1>>
  <2>1. PICK k \in 1 .. Len(world) : x \in ToSet(world[k])
    BY DEF Everyone
  <2>2. world[k] \in Seq(S)
    BY <1>1
  <2>3. PICK i \in 1 .. Len(world[k]) : x = world[k][i]
    BY <2>1, <2>2 DEF ToSet
  <2>4. Registered(k, i)
    BY DEF BirthInv
  <2> QED
    BY <2>3, <2>4 DEF Registered
<1>3a. PICK k \in 1 .. Len(world) : \E i \in 1 .. Len(world[k]) :
        s = world[k][i] /\ s.id = <<HISTORY_START + k - 1, i - 1>>
  BY <1>2
<1>3. PICK i \in 1 .. Len(world[k]) : s = world[k][i] /\ s.id = <<HISTORY_START + k - 1, i - 1>>
  BY <1>3a
<1>4a. PICK l \in 1 .. Len(world) : \E j \in 1 .. Len(world[l]) :
        t = world[l][j] /\ t.id = <<HISTORY_START + l - 1, j - 1>>
  BY <1>2
<1>4. PICK j \in 1 .. Len(world[l]) : t = world[l][j] /\ t.id = <<HISTORY_START + l - 1, j - 1>>
  BY <1>4a
<1>5. Len(world) \in Nat /\ HISTORY_START \in Int
  BY <1>1, HistoryAssumption
<1>6. HISTORY_START + k - 1 = HISTORY_START + l - 1 /\ i - 1 = j - 1
  BY <1>3, <1>4
<1>7. Len(world[k]) \in Nat /\ Len(world[l]) \in Nat
  BY <1>1
<1>8. k = l /\ i = j
  BY <1>5, <1>6, <1>7
<1> QED
  BY <1>3, <1>4, <1>8

\* What a set of sessions comes to.
Ids(T)         == {s.id : s \in T}
UsersIn(T)     == {s.user : s \in T}
EngagedIn(T)   == {s \in T : s.engaged}
NewIn(T)       == {s \in T : s.isNew}
ActiveIn(T)    == {s \in T : s.engaged \/ s.isNew}
EngagementOf(T) == Sum([s \in T |-> s.engagement], T)
PagesOf(T)      == Sum([s \in T |-> Len(s.pages)], T)
EventsOf(T)     == Sum([s \in T |-> CountOf(s.events)], T)
KeysIn(T)       == Sum([s \in T |-> KeyOf(s)], T)

\* The one table is the other with a place more.
Extends(e, f, T, s) == (\A x \in T : f[x] = e[x]) /\ Numbers(e, T \cup {s})

LEMMA SumMore ==
  ASSUME NEW T, IsFiniteSet(T), NEW s, s \notin T, NEW f, NEW e, Extends(e, f, T, s)
  PROVE  Sum(e, T \cup {s}) = Sum(f, T) + e[s]
<1>0. (\A x \in T : f[x] = e[x]) /\ Numbers(e, T \cup {s})
  BY DEF Extends
<1>1. Numbers(e, T)
  BY <1>0 DEF Numbers
<1>2. Sum(f, T) = Sum(e, T)
  BY <1>0, <1>1, SumSame
<1>3. Sum(e, T \cup {s}) = Sum(e, T) + e[s]
  BY <1>0, SumOne
<1> QED
  BY <1>2, <1>3

LEMMA SumsGrow ==
  ASSUME NEW T, IsFiniteSet(T), NEW s, s \notin T, \A x \in T \cup {s} : Known(x)
  PROVE  /\ EngagementOf(T \cup {s}) = EngagementOf(T) + s.engagement
         /\ PagesOf(T \cup {s}) = PagesOf(T) + Len(s.pages)
         /\ EventsOf(T \cup {s}) = EventsOf(T) + CountOf(s.events)
         /\ KeysIn(T \cup {s}) = KeysIn(T) + KeyOf(s)
<1> DEFINE U == T \cup {s}
<1>0. ASSUME NEW x \in U
      PROVE  /\ x.engagement \in Int /\ Len(x.pages) \in Int
             /\ CountOf(x.events) \in Int /\ KeyOf(x) \in Int
  <2>1. Told(x)
    BY DEF Known
  <2>2. PICK V : x.pages \in Seq(V)
    BY <2>1 DEF Told
  <2>3. Len(x.pages) \in Nat
    BY <2>2
  <2>4. CountOf(x.events) \in Nat /\ KeyOf(x) \in Nat
    BY <2>1, CountIsNat, KeyOfIs DEF Told
  <2> QED
    BY <2>1, <2>3, <2>4 DEF Told
<1>1. EngagementOf(U) = EngagementOf(T) + s.engagement
  <2> DEFINE e == [x \in U |-> x.engagement]
             f == [x \in T |-> x.engagement]
  <2>1. Extends(e, f, T, s)
    BY <1>0 DEF Extends, Numbers
  <2>2. e[s] = s.engagement
    OBVIOUS
  <2> HIDE DEF e, f
  <2>3. Sum(e, U) = Sum(f, T) + e[s]
    BY <2>1, SumMore
  <2> QED
    BY <2>2, <2>3 DEF EngagementOf, e, f
<1>2. PagesOf(U) = PagesOf(T) + Len(s.pages)
  <2> DEFINE e == [x \in U |-> Len(x.pages)]
             f == [x \in T |-> Len(x.pages)]
  <2>1. Extends(e, f, T, s)
    BY <1>0 DEF Extends, Numbers
  <2>2. e[s] = Len(s.pages)
    OBVIOUS
  <2> HIDE DEF e, f
  <2>3. Sum(e, U) = Sum(f, T) + e[s]
    BY <2>1, SumMore
  <2> QED
    BY <2>2, <2>3 DEF PagesOf, e, f
<1>3. EventsOf(U) = EventsOf(T) + CountOf(s.events)
  <2> DEFINE e == [x \in U |-> CountOf(x.events)]
             f == [x \in T |-> CountOf(x.events)]
  <2>1. Extends(e, f, T, s)
    BY <1>0 DEF Extends, Numbers
  <2>2. e[s] = CountOf(s.events)
    OBVIOUS
  <2> HIDE DEF e, f
  <2>3. Sum(e, U) = Sum(f, T) + e[s]
    BY <2>1, SumMore
  <2> QED
    BY <2>2, <2>3 DEF EventsOf, e, f
<1>4. KeysIn(U) = KeysIn(T) + KeyOf(s)
  <2> DEFINE e == [x \in U |-> KeyOf(x)]
             f == [x \in T |-> KeyOf(x)]
  <2>1. Extends(e, f, T, s)
    BY <1>0 DEF Extends, Numbers
  <2>2. e[s] = KeyOf(s)
    OBVIOUS
  <2> HIDE DEF e, f
  <2>3. Sum(e, U) = Sum(f, T) + e[s]
    BY <2>1, SumMore
  <2> QED
    BY <2>2, <2>3 DEF KeysIn, e, f
<1> QED
  BY <1>1, <1>2, <1>3, <1>4 DEF U

LEMMA SetsGrow ==
  ASSUME NEW T, IsFiniteSet(T), NEW s, s \notin T, s.id \notin Ids(T)
  PROVE  /\ IsFiniteSet(T \cup {s}) /\ Cardinality(T \cup {s}) = Cardinality(T) + 1
         /\ Ids(T \cup {s}) = Ids(T) \cup {s.id} /\ UsersIn(T \cup {s}) = UsersIn(T) \cup {s.user}
         /\ UsersIn(ActiveIn(T \cup {s})) = UsersIn(ActiveIn(T)) \cup (IF s.engaged \/ s.isNew THEN {s.user} ELSE {})
         /\ Cardinality(EngagedIn(T \cup {s})) = Cardinality(EngagedIn(T)) + Counted(s.engaged, 1)
         /\ Cardinality(NewIn(T \cup {s})) = Cardinality(NewIn(T)) + Counted(s.isNew, 1)
<1> DEFINE U == T \cup {s}
<1>1. IsFiniteSet(U) /\ Cardinality(U) = Cardinality(T) + 1
  BY FS_AddElement
<1>2. Ids(U) = Ids(T) \cup {s.id} /\ UsersIn(U) = UsersIn(T) \cup {s.user}
  BY DEF Ids, UsersIn
<1>3. UsersIn(ActiveIn(U)) = UsersIn(ActiveIn(T)) \cup (IF s.engaged \/ s.isNew THEN {s.user} ELSE {})
  <2>1. CASE s.engaged \/ s.isNew
    <3>1. ActiveIn(U) = ActiveIn(T) \cup {s}
      BY <2>1 DEF ActiveIn
    <3> QED
      BY <2>1, <3>1 DEF UsersIn
  <2>2. CASE ~(s.engaged \/ s.isNew)
    <3>1. ActiveIn(U) = ActiveIn(T)
      BY <2>2 DEF ActiveIn
    <3> QED
      BY <2>2, <3>1
  <2> QED
    BY <2>1, <2>2
<1>4. ASSUME NEW A, A \in SUBSET T
      PROVE  Cardinality(A \cup {s}) = Cardinality(A) + 1 /\ Cardinality(A) \in Nat
  <2>1. IsFiniteSet(A)
    BY <1>4, FS_Subset
  <2> QED
    BY <1>4, <2>1, FS_AddElement, FS_CardinalityType
<1>5. Cardinality(EngagedIn(U)) = Cardinality(EngagedIn(T)) + Counted(s.engaged, 1)
  <2>0. EngagedIn(T) \in SUBSET T
    BY DEF EngagedIn
  <2>1. CASE s.engaged
    <3>1. EngagedIn(U) = EngagedIn(T) \cup {s}
      BY <2>1 DEF EngagedIn
    <3> QED
      BY <1>4, <2>0, <2>1, <3>1 DEF Counted
  <2>2. CASE ~s.engaged
    <3>1. EngagedIn(U) = EngagedIn(T)
      BY <2>2 DEF EngagedIn
    <3>2. Cardinality(EngagedIn(T)) \in Nat /\ Counted(s.engaged, 1) = 0
      BY <1>4, <2>0, <2>2 DEF Counted
    <3> HIDE DEF U
    <3> QED
      BY <3>1, <3>2
  <2> QED
    BY <2>1, <2>2
<1>6. Cardinality(NewIn(U)) = Cardinality(NewIn(T)) + Counted(s.isNew, 1)
  <2>0. NewIn(T) \in SUBSET T
    BY DEF NewIn
  <2>1. CASE s.isNew
    <3>1. NewIn(U) = NewIn(T) \cup {s}
      BY <2>1 DEF NewIn
    <3> QED
      BY <1>4, <2>0, <2>1, <3>1 DEF Counted
  <2>2. CASE ~s.isNew
    <3>1. NewIn(U) = NewIn(T)
      BY <2>2 DEF NewIn
    <3>2. Cardinality(NewIn(T)) \in Nat /\ Counted(s.isNew, 1) = 0
      BY <1>4, <2>0, <2>2 DEF Counted
    <3> HIDE DEF U
    <3> QED
      BY <3>1, <3>2
  <2> QED
    BY <2>1, <2>2
<1> QED
  BY <1>1, <1>2, <1>3, <1>5, <1>6, Zenon DEF U

\* The accumulator that has seen the sessions of T is what they come to, but
\* for what is counted by the unit.
Tally(T, fanPage, fanEvent, a) ==
  /\ IsFiniteSet(T) /\ T \subseteq Everyone
  /\ a.seen = Ids(T) /\ Cardinality(a.seen) = Cardinality(T)
  /\ a.users = UsersIn(T) /\ a.active = UsersIn(ActiveIn(T))
  /\ a.engaged = Cardinality(EngagedIn(T)) /\ a.new = Cardinality(NewIn(T))
  /\ a.engagement = EngagementOf(T)
  /\ ~fanPage => a.pageViews = PagesOf(T)
  /\ ~fanEvent => a.events = EventsOf(T) /\ a.keyEvents = KeysIn(T)

\* That is counted up to the i-th unit.
CountsOf(units) == [i \in DOMAIN units |-> units[i].unit.count]
KeyUnits(units) == {i \in DOMAIN units : units[i].unit.event \in KEY_EVENTS}
Fans(units, i, fanPage, fanEvent, a) ==
  /\ fanPage => a.pageViews = i
  /\ fanEvent => /\ a.events = Sum(CountsOf(units), UpTo(DOMAIN units, i))
                 /\ a.keyEvents = Sum(CountsOf(units), UpTo(KeyUnits(units), i))

LEMMA EmptyTallies ==
  ASSUME NEW fanPage, NEW fanEvent
  PROVE  Tally({}, fanPage, fanEvent, Accumulator)
<1> DEFINE a == Accumulator
<1>1. /\ a.seen = {} /\ a.users = {} /\ a.active = {} /\ a.engaged = 0 /\ a.new = 0
      /\ a.engagement = 0 /\ a.pageViews = 0 /\ a.events = 0 /\ a.keyEvents = 0
  BY DEF Accumulator
<1> HIDE DEF a
<1>2. Ids({}) = {} /\ UsersIn({}) = {} /\ EngagedIn({}) = {} /\ NewIn({}) = {} /\ ActiveIn({}) = {}
  BY DEF Ids, UsersIn, EngagedIn, NewIn, ActiveIn
<1>3. EngagementOf({}) = 0 /\ PagesOf({}) = 0 /\ EventsOf({}) = 0 /\ KeysIn({}) = 0
  BY SumEmpty DEF EngagementOf, PagesOf, EventsOf, KeysIn
<1>4. IsFiniteSet({}) /\ Cardinality({}) = 0
  BY FS_EmptySet
<1>5. Tally({}, fanPage, fanEvent, a)
  BY <1>1, <1>2, <1>3, <1>4 DEF Tally
<1> QED
  BY <1>5 DEF a

LEMMA SessionTallied ==
  ASSUME BirthInv, TalesInv, NEW T, NEW fanPage, NEW fanEvent, NEW a, Sound(a),
         Tally(T, fanPage, fanEvent, a), NEW s \in Everyone, s.id \notin a.seen
  PROVE  /\ Tally(T \cup {s}, fanPage, fanEvent, AddSession(a, s, fanPage, fanEvent))
         /\ fanPage => AddSession(a, s, fanPage, fanEvent).pageViews = a.pageViews
         /\ fanEvent => /\ AddSession(a, s, fanPage, fanEvent).events = a.events
                        /\ AddSession(a, s, fanPage, fanEvent).keyEvents = a.keyEvents
<1> DEFINE b == AddSession(a, s, fanPage, fanEvent)
           U == T \cup {s}
<1>1. /\ b.seen = a.seen \cup {s.id} /\ b.users = a.users \cup {s.user}
      /\ b.active = a.active \cup (IF s.engaged \/ s.isNew THEN {s.user} ELSE {})
      /\ b.engaged = a.engaged + Counted(s.engaged, 1)
      /\ b.new = a.new + Counted(s.isNew, 1)
      /\ b.engagement = a.engagement + s.engagement
      /\ b.pageViews = a.pageViews + Counted(~fanPage, Len(s.pages))
      /\ b.events = a.events + Counted(~fanEvent, CountOf(s.events))
      /\ b.keyEvents = a.keyEvents + Counted(~fanEvent, KeyOf(s))
  BY DEF AddSession
<1> HIDE DEF b
<1>2. /\ a.pageViews \in Nat /\ a.events \in Nat /\ a.keyEvents \in Nat
  BY DEF Sound, Shape
<1>3. IsFiniteSet(T) /\ T \subseteq Everyone /\ s.id \notin Ids(T) /\ s \notin T
  BY DEF Tally, Ids
<1>4. \A x \in U : Known(x)
  BY <1>3, EveryoneIsKnown
<1>5. /\ EngagementOf(U) = EngagementOf(T) + s.engagement
      /\ PagesOf(U) = PagesOf(T) + Len(s.pages)
      /\ EventsOf(U) = EventsOf(T) + CountOf(s.events)
      /\ KeysIn(U) = KeysIn(T) + KeyOf(s)
  BY <1>3, <1>4, SumsGrow
<1>6. /\ IsFiniteSet(U) /\ Cardinality(U) = Cardinality(T) + 1
      /\ Ids(U) = Ids(T) \cup {s.id} /\ UsersIn(U) = UsersIn(T) \cup {s.user}
      /\ UsersIn(ActiveIn(U)) = UsersIn(ActiveIn(T)) \cup (IF s.engaged \/ s.isNew THEN {s.user} ELSE {})
      /\ Cardinality(EngagedIn(U)) = Cardinality(EngagedIn(T)) + Counted(s.engaged, 1)
      /\ Cardinality(NewIn(U)) = Cardinality(NewIn(T)) + Counted(s.isNew, 1)
  BY <1>3, SetsGrow
<1> HIDE DEF U
<1>7. U \subseteq Everyone
  BY <1>3 DEF U
<1>8. /\ b.seen = Ids(U) /\ b.users = UsersIn(U) /\ b.active = UsersIn(ActiveIn(U))
      /\ b.engaged = Cardinality(EngagedIn(U)) /\ b.new = Cardinality(NewIn(U))
      /\ b.engagement = EngagementOf(U)
  BY <1>1, <1>5, <1>6, Zenon DEF Tally
<1>9. Cardinality(b.seen) = Cardinality(U)
  <2>1. IsFiniteSet(a.seen) /\ Cardinality(a.seen) = Cardinality(T)
    BY DEF Sound, Tally
  <2>2. Cardinality(a.seen \cup {s.id}) = Cardinality(a.seen) + 1
    BY <2>1, FS_AddElement
  <2> QED
    BY <1>1, <1>6, <2>1, <2>2
<1>10. ~fanPage => b.pageViews = PagesOf(U)
  <2> SUFFICES ASSUME ~fanPage PROVE b.pageViews = PagesOf(U)
    OBVIOUS
  <2>1. a.pageViews = PagesOf(T) /\ Counted(~fanPage, Len(s.pages)) = Len(s.pages)
    BY DEF Tally, Counted
  <2> QED
    BY <1>1, <1>5, <2>1
<1>11. ~fanEvent => b.events = EventsOf(U) /\ b.keyEvents = KeysIn(U)
  <2> SUFFICES ASSUME ~fanEvent PROVE b.events = EventsOf(U) /\ b.keyEvents = KeysIn(U)
    OBVIOUS
  <2>1. /\ a.events = EventsOf(T) /\ Counted(~fanEvent, CountOf(s.events)) = CountOf(s.events)
        /\ a.keyEvents = KeysIn(T) /\ Counted(~fanEvent, KeyOf(s)) = KeyOf(s)
    BY DEF Tally, Counted
  <2> QED
    BY <1>1, <1>5, <2>1
<1>12. /\ fanPage => b.pageViews = a.pageViews
       /\ fanEvent => b.events = a.events /\ b.keyEvents = a.keyEvents
  BY <1>1, <1>2 DEF Counted
<1>13. Tally(U, fanPage, fanEvent, b)
  BY <1>6, <1>7, <1>8, <1>9, <1>10, <1>11 DEF Tally
<1> QED
  BY <1>12, <1>13 DEF b, U

LEMMA UnitTallied ==
  ASSUME BirthInv, TalesInv, NEW T, NEW fanPage, NEW fanEvent, NEW a, Sound(a),
         Tally(T, fanPage, fanEvent, a),
         NEW n \in Nat, NEW units, DOMAIN units = 1 .. n,
         \A j \in 1 .. n : Fair(units[j].unit) /\ units[j].unit.session \in Everyone,
         NEW i \in 1 .. n, Fans(units, i - 1, fanPage, fanEvent, a)
  PROVE  LET b == AddUnit(a, units[i].unit, fanPage, fanEvent) IN
         /\ Tally(T \cup {units[i].unit.session}, fanPage, fanEvent, b)
         /\ Fans(units, i, fanPage, fanEvent, b)
<1> DEFINE u == units[i].unit
           s == u.session
           U == T \cup {s}
           b == IF FirstTime(a, s) THEN AddSession(a, s, fanPage, fanEvent) ELSE a
           c == AddUnit(a, u, fanPage, fanEvent)
<1>0. s \in Everyone /\ Fair(u)
  OBVIOUS
<1>1. c = [b EXCEPT !.pageViews = @ + Counted(fanPage, 1),
                    !.events    = @ + Counted(fanEvent, u.count),
                    !.keyEvents = @ + Counted(fanEvent /\ u.event \in KEY_EVENTS, u.count)]
  BY DEF AddUnit
<1>2. Sound(b)
  BY <1>0, SessionAdded DEF FirstTime, Fair
<1>3. /\ Tally(U, fanPage, fanEvent, b)
      /\ fanPage => b.pageViews = a.pageViews
      /\ fanEvent => b.events = a.events /\ b.keyEvents = a.keyEvents
  <2>1. CASE s.id \notin a.seen
    <3>1. b = AddSession(a, s, fanPage, fanEvent)
      BY <2>1 DEF FirstTime
    <3> HIDE DEF b, s
    <3>2. /\ Tally(T \cup {s}, fanPage, fanEvent, b)
          /\ fanPage => b.pageViews = a.pageViews
          /\ fanEvent => b.events = a.events /\ b.keyEvents = a.keyEvents
      BY <1>0, <2>1, <3>1, SessionTallied
    <3> QED
      BY <3>2
  <2>2. CASE s.id \in a.seen
    <3>1. b = a
      BY <2>2 DEF FirstTime
    <3>2. PICK t \in T : t.id = s.id
      BY <2>2 DEF Tally, Ids
    <3>3. t = s
      BY <1>0, <3>2, IdsApart DEF Tally
    <3> HIDE DEF b, s
    <3>4. T \cup {s} = T
      BY <3>2, <3>3
    <3> QED
      BY <3>1, <3>4
  <2> QED
    BY <2>1, <2>2
<1> HIDE DEF b, c, u, s, U
<1>4. Shape(b)
  BY <1>2 DEF Sound
<1>5. /\ c.seen = b.seen /\ c.users = b.users /\ c.active = b.active
      /\ c.engaged = b.engaged /\ c.new = b.new /\ c.engagement = b.engagement
      /\ c.pageViews = b.pageViews + Counted(fanPage, 1)
      /\ c.events = b.events + Counted(fanEvent, u.count)
      /\ c.keyEvents = b.keyEvents + Counted(fanEvent /\ u.event \in KEY_EVENTS, u.count)
  BY <1>1, <1>4 DEF Shape
<1>6. b.pageViews \in Nat /\ b.events \in Nat /\ b.keyEvents \in Nat /\ u.count \in Nat
  BY <1>0, <1>4 DEF Shape, Fair
<1>7. Tally(U, fanPage, fanEvent, c)
  <2>1. /\ ~fanPage => c.pageViews = b.pageViews
        /\ ~fanEvent => c.events = b.events /\ c.keyEvents = b.keyEvents
    BY <1>5, <1>6 DEF Counted
  <2> QED
    BY <1>3, <1>5, <2>1 DEF Tally
<1> DEFINE f == CountsOf(units)
           D == 1 .. n
           K == KeyUnits(units)
<1>8. /\ \A j \in D : j \in DOMAIN f /\ f[j] = units[j].unit.count /\ f[j] \in Nat
      /\ f[i] = u.count
  BY DEF CountsOf, Fair, u
<1>9. K \subseteq 1 .. n /\ (i \in K <=> u.event \in KEY_EVENTS)
  BY DEF KeyUnits, u
<1>10. fanPage => c.pageViews = i
  BY <1>3, <1>5 DEF Fans, Counted
<1> HIDE DEF f, K
<1>11. ASSUME NEW I, I \subseteq 1 .. n
       PROVE  Sum(f, UpTo(I, i)) = Sum(f, UpTo(I, i - 1)) + Counted(i \in I, u.count)
  <2>0. Numbers(f, UpTo(I, i))
    <3>1. \A x \in D : x \in DOMAIN f /\ f[x] \in Int
      BY <1>8
    <3>2. UpTo(I, i) \subseteq D
      BY <1>11 DEF UpTo
    <3> HIDE DEF D
    <3> QED
      BY <3>1, <3>2 DEF Numbers
  <2>1. CASE i \in I
    <3>1. /\ IsFiniteSet(UpTo(I, i - 1)) /\ UpTo(I, i) \subseteq I
          /\ i \notin UpTo(I, i - 1) /\ UpTo(I, i) = UpTo(I, i - 1) \cup {i}
      BY <1>11, <2>1, UpToGrows
    <3>2. Numbers(f, UpTo(I, i))
      BY <2>0
    <3>3. Sum(f, UpTo(I, i - 1) \cup {i}) = Sum(f, UpTo(I, i - 1)) + f[i]
      BY <3>1, <3>2, SumOne, Zenon
    <3> QED
      BY <1>8, <2>1, <3>1, <3>3, Zenon DEF Counted
  <2>2. CASE i \notin I
    <3>1. /\ IsFiniteSet(UpTo(I, i - 1)) /\ UpTo(I, i) = UpTo(I, i - 1)
          /\ UpTo(I, i) \subseteq I
      BY <1>11, <2>2, UpToGrows
    <3>2. Numbers(f, UpTo(I, i - 1))
      BY <2>0, <3>1
    <3>3. Sum(f, UpTo(I, i - 1)) \in Int
      BY <3>1, <3>2, SumSame
    <3>4. Counted(i \in I, u.count) = 0
      BY <2>2 DEF Counted
    <3> QED
      BY <3>1, <3>3, <3>4
  <2> QED
    BY <2>1, <2>2
<1>12. ASSUME fanEvent  PROVE c.events = Sum(f, UpTo(D, i)) /\ c.keyEvents = Sum(f, UpTo(K, i))
  <2>1. a.events = Sum(f, UpTo(D, i - 1)) /\ a.keyEvents = Sum(f, UpTo(K, i - 1))
    BY <1>12 DEF Fans, f, K
  <2>2. Counted(fanEvent, u.count) = Counted(i \in D, u.count)
    BY <1>12 DEF Counted
  <2>3. Counted(fanEvent /\ u.event \in KEY_EVENTS, u.count) = Counted(i \in K, u.count)
    BY <1>9, <1>12 DEF Counted
  <2>4. /\ Sum(f, UpTo(D, i)) = Sum(f, UpTo(D, i - 1)) + Counted(i \in D, u.count)
        /\ Sum(f, UpTo(K, i)) = Sum(f, UpTo(K, i - 1)) + Counted(i \in K, u.count)
    BY <1>9, <1>11
  <2> HIDE DEF D
  <2> QED
    BY <1>3, <1>5, <1>12, <2>1, <2>2, <2>3, <2>4
<1>13. Fans(units, i, fanPage, fanEvent, c)
  BY <1>10, <1>12 DEF Fans, f, K
<1> QED
  BY <1>7, <1>13 DEF c, u, s, U

\* The sessions of a group of units.
SessionsIn(units) == {units[i].unit.session : i \in DOMAIN units}

LEMMA GroupTallied ==
  ASSUME BirthInv, TalesInv, NEW q, NEW S, NEW units \in Seq(S),
         \A c \in ToSet(units) : Fair(c.unit) /\ c.unit.session \in Everyone
  PROVE  /\ Sound(Accumulated(q, units))
         /\ Tally(SessionsIn(units), q.fanPage, q.fanEvent, Accumulated(q, units))
         /\ Fans(units, Len(units), q.fanPage, q.fanEvent, Accumulated(q, units))
<1>0. PICK n \in Nat : n = Len(units) /\ DOMAIN units = 1 .. n
  OBVIOUS
<1>1. PICK h : AccumulatesBy(h, q, units)
  BY AccumulatedIs
<1>2. /\ h[0] = Accumulator /\ Accumulated(q, units) = h[n]
      /\ \A i \in 1 .. n : h[i] = AddUnit(h[i - 1], units[i].unit, q.fanPage, q.fanEvent)
  BY <1>0, <1>1 DEF AccumulatesBy
<1>3. \A j \in 1 .. n : Fair(units[j].unit) /\ units[j].unit.session \in Everyone
  BY <1>0 DEF ToSet
<1> DEFINE T(i) == {units[j].unit.session : j \in 1 .. i}
           Seen(i) == /\ Sound(h[i]) /\ Tally(T(i), q.fanPage, q.fanEvent, h[i])
                      /\ Fans(units, i, q.fanPage, q.fanEvent, h[i])
           P == {i \in 0 .. n : Seen(i)}
<1>4. Seen(0)
  <2>1. T(0) = {}
    OBVIOUS
  <2>2. Tally({}, q.fanPage, q.fanEvent, Accumulator) /\ Sound(Accumulator)
    BY EmptyTallies, EmptyIsSound
  <2>3. Fans(units, 0, q.fanPage, q.fanEvent, Accumulator)
    <3>1. UpTo(1 .. n, 0) = {} /\ UpTo(KeyUnits(units), 0) = {}
      BY <1>0, UpToGrows DEF KeyUnits
    <3>2. Accumulator.pageViews = 0 /\ Accumulator.events = 0 /\ Accumulator.keyEvents = 0
      BY DEF Accumulator
    <3> QED
      BY <1>0, <3>1, <3>2, SumEmpty DEF Fans
  <2> HIDE DEF T
  <2> QED
    BY <1>2, <2>1, <2>2, <2>3
<1>5. ASSUME NEW i \in 1 .. n, Seen(i - 1)  PROVE Seen(i)
  <2>1. T(i) = T(i - 1) \cup {units[i].unit.session}
    <3>1. 1 .. i = (1 .. i - 1) \cup {i}
      BY <1>5
    <3> QED
      BY <3>1
  <2> HIDE DEF T
  <2> DEFINE a == h[i - 1]
  <2>2. h[i] = AddUnit(a, units[i].unit, q.fanPage, q.fanEvent)
    BY <1>2
  <2>3. Sound(a) /\ Tally(T(i - 1), q.fanPage, q.fanEvent, a) /\ Fans(units, i - 1, q.fanPage, q.fanEvent, a)
    BY <1>5
  <2> HIDE DEF a
  <2> DEFINE b == AddUnit(a, units[i].unit, q.fanPage, q.fanEvent)
  <2>4. Sound(b)
    BY <1>3, <2>3, UnitAdded
  <2>5. /\ Tally(T(i - 1) \cup {units[i].unit.session}, q.fanPage, q.fanEvent, b)
        /\ Fans(units, i, q.fanPage, q.fanEvent, b)
    BY <1>0, <1>3, <2>3, UnitTallied
  <2> HIDE DEF b
  <2>6. h[i] = b
    BY <2>2 DEF b
  <2> QED
    BY <2>1, <2>4, <2>5, <2>6
<1> HIDE DEF Seen
<1>6. \A i \in 0 .. n : i \in P
  <2>1. 0 \in P /\ \A i \in 1 .. n : i - 1 \in P => i \in P
    BY <1>4, <1>5
  <2> HIDE DEF P
  <2> QED
    BY <2>1, Climb
<1>7. Seen(n)
  BY <1>6
<1>8. T(n) = SessionsIn(units)
  BY <1>0 DEF SessionsIn
<1> HIDE DEF T
<1> QED
  BY <1>0, <1>2, <1>7, <1>8 DEF Seen

LEMMA GroupFields ==
  ASSUME NEW units
  PROVE  /\ GroupOf(units).sessions = Cardinality(SessionsIn(units))
         /\ GroupOf(units).totalUsers = Cardinality(UsersIn(SessionsIn(units)))
         /\ GroupOf(units).activeUsers = Cardinality(UsersIn(ActiveIn(SessionsIn(units))))
         /\ GroupOf(units).newUsers = Cardinality(NewIn(SessionsIn(units)))
         /\ GroupOf(units).engagedSessions = Cardinality(EngagedIn(SessionsIn(units)))
         /\ GroupOf(units).userEngagementDuration = EngagementOf(SessionsIn(units))
         /\ GroupOf(units).screenPageViews = (IF Q.fanPage THEN Len(units) ELSE PagesOf(SessionsIn(units)))
         /\ GroupOf(units).eventCount = (IF Q.fanEvent THEN Sum(CountsOf(units), DOMAIN units)
                                         ELSE EventsOf(SessionsIn(units)))
         /\ GroupOf(units).keyEvents =
              (IF Q.fanEvent THEN Sum(CountsOf(units), KeyUnits(units))
               ELSE Sum([s \in SessionsIn(units) |-> Sum([j \in KeyPlaces(s) |-> s.events[j].count], KeyPlaces(s))],
                        SessionsIn(units)))
         /\ DOMAIN GroupOf(units) = {"sessions", "totalUsers", "activeUsers", "newUsers", "engagedSessions",
              "userEngagementDuration", "screenPageViews", "eventCount", "keyEvents"}
BY DEF GroupOf, SessionsIn, UsersIn, ActiveIn, NewIn, EngagedIn, EngagementOf, PagesOf, EventsOf,
       CountsOf, KeyUnits, KeyPlaces

LEMMA MetricFields ==
  ASSUME NEW a
  PROVE  /\ Metrics(a).sessions = Cardinality(a.seen) * Scale
         /\ Metrics(a).totalUsers = Cardinality(a.users) * Scale
         /\ Metrics(a).activeUsers = Cardinality(a.active) * Scale
         /\ Metrics(a).newUsers = a.new * Scale
         /\ Metrics(a).engagedSessions = a.engaged * Scale
         /\ Metrics(a).userEngagementDuration = a.engagement * Scale
         /\ Metrics(a).screenPageViews = a.pageViews * Scale
         /\ Metrics(a).eventCount = a.events * Scale
         /\ Metrics(a).keyEvents = a.keyEvents * Scale
BY DEF Metrics

LEMMA GroupCounts ==
  ASSUME BirthInv, TalesInv, NEW S, NEW units \in Seq(S),
         \A c \in ToSet(units) : Fair(c.unit) /\ c.unit.session \in Everyone
  PROVE  \A m \in Additive : Metrics(Accumulated(Q, units))[m] = GroupOf(units)[m] * Scale
<1> DEFINE T == SessionsIn(units)
           a == Accumulated(Q, units)
           g == GroupOf(units)
           b == Metrics(a)
<1>0. PICK n \in Nat : n = Len(units) /\ DOMAIN units = 1 .. n
  OBVIOUS
<1>1. Tally(T, Q.fanPage, Q.fanEvent, a) /\ Fans(units, n, Q.fanPage, Q.fanEvent, a)
  BY <1>0, GroupTallied
<1>2. UpTo(DOMAIN units, n) = DOMAIN units /\ UpTo(KeyUnits(units), n) = KeyUnits(units)
  BY <1>0, UpToGrows DEF KeyUnits
<1> HIDE DEF T, a
<1>3. /\ g.sessions = Cardinality(a.seen) /\ g.totalUsers = Cardinality(a.users)
      /\ g.activeUsers = Cardinality(a.active) /\ g.newUsers = a.new
      /\ g.engagedSessions = a.engaged /\ g.userEngagementDuration = a.engagement
  <2>1. /\ g.sessions = Cardinality(T) /\ g.totalUsers = Cardinality(UsersIn(T))
        /\ g.activeUsers = Cardinality(UsersIn(ActiveIn(T))) /\ g.newUsers = Cardinality(NewIn(T))
        /\ g.engagedSessions = Cardinality(EngagedIn(T)) /\ g.userEngagementDuration = EngagementOf(T)
    BY GroupFields, Zenon DEF T
  <2> HIDE DEF g
  <2> QED
    BY <1>1, <2>1 DEF Tally
<1>4. g.screenPageViews = a.pageViews
  <2>1. g.screenPageViews = (IF Q.fanPage THEN Len(units) ELSE PagesOf(T))
    BY GroupFields, Zenon DEF T
  <2> HIDE DEF g
  <2> QED
    BY <1>0, <1>1, <2>1 DEF Tally, Fans
<1>5. g.eventCount = a.events
  <2>1. g.eventCount = (IF Q.fanEvent THEN Sum(CountsOf(units), DOMAIN units) ELSE EventsOf(T))
    BY GroupFields, Zenon DEF T
  <2> HIDE DEF g
  <2> QED
    BY <1>1, <1>2, <2>1 DEF Tally, Fans
<1>6. g.keyEvents = a.keyEvents
  <2> DEFINE K(s) == Sum([j \in KeyPlaces(s) |-> s.events[j].count], KeyPlaces(s))
             e == [s \in T |-> K(s)]
             f == [s \in T |-> KeyOf(s)]
  <2>1. g.keyEvents = (IF Q.fanEvent THEN Sum(CountsOf(units), KeyUnits(units)) ELSE Sum(e, T))
    BY GroupFields, Zenon DEF T
  <2>2. ASSUME NEW s \in T  PROVE K(s) = KeyOf(s)
    <3>1. s \in Everyone
      BY <1>1 DEF Tally
    <3>2. s.events \in Seq([name : VisitEvents \cup KEY_EVENTS, count : Nat])
      BY <3>1, EveryoneIsKnown DEF Known, Told
    <3> QED
      BY <3>2, KeyOfSums
  <2>3. e = f
    <3> HIDE DEF K
    <3> QED
      BY <2>2
  <2>4. KeysIn(T) = Sum(f, T)
    BY DEF KeysIn
  <2> HIDE DEF g, e, f
  <2> QED
    BY <1>1, <1>2, <2>1, <2>3, <2>4 DEF Tally, Fans
<1>7. /\ b.sessions = Cardinality(a.seen) * Scale /\ b.totalUsers = Cardinality(a.users) * Scale
      /\ b.activeUsers = Cardinality(a.active) * Scale /\ b.newUsers = a.new * Scale
      /\ b.engagedSessions = a.engaged * Scale /\ b.userEngagementDuration = a.engagement * Scale
      /\ b.screenPageViews = a.pageViews * Scale /\ b.eventCount = a.events * Scale
      /\ b.keyEvents = a.keyEvents * Scale
  BY MetricFields, Zenon
<1>8. Additive = {"sessions", "totalUsers", "activeUsers", "newUsers", "engagedSessions",
                  "userEngagementDuration", "screenPageViews", "eventCount", "keyEvents"}
  BY GroupFields, Zenon DEF Additive
<1> HIDE DEF b, g
<1>9. \A m \in Additive : b[m] = g[m] * Scale
  BY <1>3, <1>4, <1>5, <1>6, <1>7, <1>8
<1> QED
  BY <1>9 DEF a, b, g

\* The units of a row, which are those of its key.
LEMMA RowUnits ==
  ASSUME BirthInv, TalesInv, NEW q, NEW n, Proper(q, n), NEW key \in KeysOf(q, n)
  PROVE  UnitsOfRow(RowOf(q, key), Collected(q)) = GroupOfKey(q, key)
<1> DEFINE units == Collected(q)
           row == RowOf(q, key)
           I == {i \in DOMAIN units : units[i].dims = row.dims /\ units[i].range = row.range}
           J == {i \in DOMAIN units : KeyOfUnit(units[i]) = key}
<1>1. row.dims = key.dims /\ row.range = key.range
  BY DEF RowOf
<1>2. key = [dims |-> key.dims, range |-> key.range]
  BY KeyIs
<1> HIDE DEF row
<1>3. ASSUME NEW i \in DOMAIN units  PROVE i \in I <=> i \in J
  <2> DEFINE c == units[i]
  <2>1. i \in I <=> c.dims = key.dims /\ c.range = key.range
    BY <1>1
  <2>2. i \in J <=> [dims |-> c.dims, range |-> c.range] = key
    BY DEF KeyOfUnit
  <2> HIDE DEF I, J, c
  <2>3. [dims |-> c.dims, range |-> c.range] = key <=> c.dims = key.dims /\ c.range = key.range
    <3>1. ASSUME [dims |-> c.dims, range |-> c.range] = key  PROVE c.dims = key.dims /\ c.range = key.range
      <4>1. [dims |-> c.dims, range |-> c.range].dims = c.dims /\ [dims |-> c.dims, range |-> c.range].range = c.range
        OBVIOUS
      <4> QED
        BY <3>1, <4>1
    <3>2. ASSUME c.dims = key.dims, c.range = key.range  PROVE [dims |-> c.dims, range |-> c.range] = key
      BY <1>2, <3>2
    <3> QED
      BY <3>1, <3>2
  <2> QED
    BY <2>1, <2>2, <2>3
<1>4. I = J
  <2>1. I \subseteq DOMAIN units /\ J \subseteq DOMAIN units
    OBVIOUS
  <2> HIDE DEF I, J, units
  <2> QED
    BY <1>3, <2>1
<1>5. UnitsOfRow(row, units) = Picked(units, I) /\ GroupOfKey(q, key) = Picked(units, J)
  BY DEF UnitsOfRow, GroupOfKey
<1> QED
  BY <1>4, <1>5 DEF row

LEMMA CollectedFit ==
  ASSUME BirthInv, TalesInv, WordsInv, NEW q, NEW n, Proper(q, n)
  PROVE  /\ \E S : Collected(q) \in Seq(S)
         /\ \A c \in ToSet(Collected(q)) : Fair(c.unit) /\ c.unit.session \in Everyone
<1>1. n \in Nat /\ Ranged(q, n) /\ \A r \in 1 .. n : q.ranges[r].start \in Int /\ q.ranges[r].end \in Int
  BY DEF Proper, Inside, Ranged
<1>2. /\ \E S : Collected(q) \in Seq(S)
      /\ ToSet(Collected(q)) = UNION {Entries(q, q.ranges[r]) : r \in 1 .. n}
  BY <1>1, CollectedSet
<1>3. ASSUME NEW c \in ToSet(Collected(q))  PROVE Fair(c.unit) /\ c.unit.session \in Everyone
  <2>1. PICK r \in 1 .. n : c \in Entries(q, q.ranges[r])
    BY <1>2
  <2>2. PICK u \in UnitSet(q, q.ranges[r]) : c = Entry(q, q.ranges[r], u)
    BY <2>1 DEF Entries
  <2>3. c.unit = u
    BY <2>2 DEF Entry
  <2> QED
    BY <1>1, <2>2, <2>3, UnitSetFits DEF Fit
<1> QED
  BY <1>2, <1>3

LEMMA PageMembers ==
  ASSUME NEW R, NEW rows \in Seq(R), NEW q, q.offset \in Nat, q.limit \in Nat,
         NEW row \in ToSet(Page(q, rows))
  PROVE  row \in R
<1> DEFINE m == q.offset + 1
           x == q.offset + q.limit
           k == Min({x, Len(rows)})
           t == SubSeq(rows, m, k)
<1>1. Page(q, rows) = t
  BY DEF Page
<1>2. x \in Nat /\ m \in Nat \ {0} /\ Len(rows) \in Nat
  OBVIOUS
<1> HIDE DEF m, x
<1>3. k \in Nat /\ k <= Len(rows)
  <2>1. k = IF x <= Len(rows) THEN x ELSE Len(rows)
    BY <1>2, MinOfTwo
  <2> HIDE DEF k
  <2> QED
    BY <1>2, <2>1
<1> HIDE DEF k
<1>4. t \in Seq(R) /\ \A i \in DOMAIN t : t[i] \in R
  BY <1>2, <1>3
<1> HIDE DEF t
<1>5. PICK i \in DOMAIN t : row = t[i]
  BY <1>1 DEF ToSet
<1> QED
  BY <1>4, <1>5

LEMMA RowsFollow == BirthInv /\ TalesInv /\ WordsInv /\ AnsweredInv /\ ServedInv => RowsDeduplicate
<1> SUFFICES ASSUME BirthInv, TalesInv, WordsInv, AnsweredInv, ServedInv, Served,
                    NEW row \in ToSet(reply.page), NEW m \in Additive \cap Q.computed
             PROVE  row.values[m] = GroupOf(UnitsOfRow(row, Collected(Q)))[m] * Scale
  BY DEF RowsDeduplicate
<1>1. PICK b \in DOMAIN Bodies : reply.body = b /\ Answers(b)
  BY DEF AnsweredInv
<1> DEFINE q == Queries[b]
<1>2. b \in Accepted /\ ~Crashes(q) /\ reply.page = Page(q, FinalRows(q)) /\ Q = q
  BY <1>1 DEF Answers, Q
<1>3. PICK n : Proper(q, n)
  BY <1>2, QueryIsProper
<1>4. OrderBysAreList(q)
  BY <1>2, QueryIsOrdered
<1>5. q.offset \in Nat /\ q.limit \in Nat
  BY <1>2, LimitsAre
<1> HIDE DEF q
<1>6. FinalRows(q) \in Seq(RowSet(q, n))
  BY <1>2, <1>3, <1>4, FinalRowsAre, Zenon
<1>7. row \in RowSet(q, n)
  BY <1>2, <1>5, <1>6, PageMembers
<1>8. PICK key \in KeysOf(q, n) : row = RowOf(q, key)
  BY <1>7 DEF RowSet
<1> DEFINE group == GroupOfKey(q, key)
           units == Collected(q)
<1>9. PICK S : units \in Seq(S)
  BY <1>3, CollectedFit
<1>10. \A c \in ToSet(units) : Fair(c.unit) /\ c.unit.session \in Everyone
  BY <1>3, CollectedFit
<1>11. group \in Seq(S) /\ \A c \in ToSet(group) : Fair(c.unit) /\ c.unit.session \in Everyone
  <2> DEFINE J == {i \in DOMAIN units : KeyOfUnit(units[i]) = key}
  <2>1. group = Picked(units, J)
    BY DEF GroupOfKey
  <2> HIDE DEF J, units, group
  <2>2. group \in Seq(S) /\ \A x \in ToSet(group) : \E i \in DOMAIN units \cap J : x = units[i]
    BY <1>9, <2>1, PickedMembers
  <2> QED
    BY <1>9, <1>10, <2>2 DEF ToSet
<1>12. row.values = Metrics(Accumulated(Q, group))
  BY <1>2, <1>8 DEF RowOf
<1>13. UnitsOfRow(row, Collected(Q)) = group
  BY <1>2, <1>3, <1>8, RowUnits
<1> HIDE DEF group
<1>14. \A k \in Additive : Metrics(Accumulated(Q, group))[k] = GroupOf(group)[k] * Scale
  BY <1>11, GroupCounts
<1> QED
  BY <1>12, <1>13, <1>14

\* Users, sessions and what they hold are counted once in every row of a page,
\* also when a session fans out into pages or events of one group: an
\* accumulator comes to what the set of its sessions comes to
\* (registry.py:54-107).
THEOREM RowsCountSessionsOnce == Spec => []RowsDeduplicate
<1> DEFINE Inv == BirthInv /\ TalesInv /\ WordsInv /\ AnsweredInv /\ ServedInv
<1>1. Init => Inv
  <2>1. Init => ServedInv
    BY DEF Init, NoReply, Failure, Answer, Served, ServedInv
  <2> QED
    BY <2>1, AnswersInit
<1>2. Inv /\ [Next]_rvars => Inv'
  BY BirthStep, TalesStep, WordsStep, AnsweredStep, ServedStep
<1>3. Inv => RowsDeduplicate
  BY RowsFollow
<1> QED
  BY <1>1, <1>2, <1>3, PTL DEF Spec

(***************************************************************************)
(* Totals and the sums of rows                                             *)
(***************************************************************************)

\* A property of the subsets of a finite set, by the number of their members.
LEMMA BySize ==
  ASSUME NEW D, IsFiniteSet(D), NEW G, {} \in G,
         \A S \in SUBSET D : S # {} /\ S \ {First(S)} \in G => S \in G
  PROVE  D \in G
<1>0. PICK n \in Nat : n = Cardinality(D)
  BY FS_CardinalityType
<1> DEFINE P == {i \in 0 .. n : \A S \in SUBSET D : Cardinality(S) = i => S \in G}
<1>1. 0 \in P
  <2>1. ASSUME NEW S \in SUBSET D, Cardinality(S) = 0  PROVE S = {}
    BY <2>1, FS_Subset, FS_EmptySet
  <2> QED
    BY <2>1
<1>2. ASSUME NEW i \in 1 .. n, i - 1 \in P  PROVE i \in P
  <2>1. ASSUME NEW S \in SUBSET D, Cardinality(S) = i  PROVE S \in G
    <3>1. S # {}
      BY <2>1, FS_EmptySet
    <3> DEFINE R == S \ {First(S)}
    <3>2. R \in SUBSET D /\ Cardinality(R) = i - 1
      BY <2>1, <3>1, WithoutFirst
    <3>3. R \in G
      <4> HIDE DEF R
      <4> QED
        BY <1>2, <3>2
    <3> QED
      BY <3>1, <3>3
  <2> QED
    BY <2>1
<1> HIDE DEF P
<1>3. n \in P
  <2>1. \A i \in 1 .. n : i - 1 \in P => i \in P
    BY <1>2, Zenon
  <2> QED
    BY <1>1, <2>1, Climb
<1> QED
  BY <1>0, <1>3 DEF P

\* Weights of the members of a set, none below zero.
Weights(w, D) == \A x \in D : w[x] \in Nat

\* A sum is that of the others and the one that is taken out.
LEMMA SumWithout ==
  ASSUME NEW D, IsFiniteSet(D), NEW f, Numbers(f, D), NEW S \in SUBSET D, S # {}
  PROVE  /\ First(S) \in S /\ IsFiniteSet(S \ {First(S)})
         /\ Sum(f, S \ {First(S)}) \in Int /\ f[First(S)] \in Int
         /\ Sum(f, S) = Sum(f, S \ {First(S)}) + f[First(S)]
<1> DEFINE x == First(S)
           R == S \ {x}
<1>1. x \in S /\ IsFiniteSet(S) /\ IsFiniteSet(R)
  BY WithoutFirst, FS_Subset
<1> HIDE DEF x
<1>2. x \notin R /\ R \cup {x} = S
  BY <1>1
<1>3. Numbers(f, R \cup {x})
  BY <1>2 DEF Numbers
<1> HIDE DEF R
<1>4. Sum(f, R) \in Int /\ f[x] \in Int /\ Sum(f, R \cup {x}) = Sum(f, R) + f[x]
  BY <1>1, <1>2, <1>3, SumOne
<1>5. Sum(f, S) = Sum(f, R) + f[x]
  BY <1>2, <1>4
<1> QED
  BY <1>1, <1>4, <1>5 DEF x, R

\* Weights add up to a weight.
LEMMA SumIsNat ==
  ASSUME NEW D, IsFiniteSet(D), NEW w, Weights(w, D)
  PROVE  Sum(w, D) \in Nat
<1> DEFINE G == {S \in SUBSET D : Sum(w, S) \in Nat}
<1>0. Numbers(w, D)
  BY DEF Numbers, Weights
<1>1. {} \in G
  BY SumEmpty
<1>2. ASSUME NEW S \in SUBSET D, S # {}, S \ {First(S)} \in G  PROVE S \in G
  <2>1. First(S) \in S /\ Sum(w, S) = Sum(w, S \ {First(S)}) + w[First(S)]
    BY <1>0, <1>2, SumWithout
  <2>2. w[First(S)] \in Nat
    BY <2>1 DEF Weights
  <2> QED
    BY <1>2, <2>1, <2>2
<1>3. D \in G
  <2>1. \A S \in SUBSET D : S # {} /\ S \ {First(S)} \in G => S \in G
    BY <1>2
  <2> HIDE DEF G
  <2> QED
    BY <1>1, <2>1, BySize
<1> QED
  BY <1>3

\* Of two sets apart, the sum is the sum of their sums.
LEMMA SumJoin ==
  ASSUME NEW A, IsFiniteSet(A), NEW B, IsFiniteSet(B), A \cap B = {}, NEW w, Numbers(w, A \cup B)
  PROVE  /\ Sum(w, A) \in Int /\ Sum(w, B) \in Int
         /\ Sum(w, A \cup B) = Sum(w, A) + Sum(w, B)
<1> DEFINE G == {S \in SUBSET B : Sum(w, S) \in Int /\ Sum(w, A \cup S) = Sum(w, A) + Sum(w, S)}
<1>0. Numbers(w, A) /\ Numbers(w, B) /\ Sum(w, A) \in Int
  <2>1. Numbers(w, A) /\ Numbers(w, B)
    BY DEF Numbers
  <2> QED
    BY <2>1, SumSame
<1>1. {} \in G
  <2>1. A \cup {} = A
    OBVIOUS
  <2> QED
    BY <1>0, <2>1, SumEmpty
<1>2. ASSUME NEW S \in SUBSET B, S # {}, S \ {First(S)} \in G  PROVE S \in G
  <2> DEFINE x == First(S)
             R == S \ {x}
             T == A \cup R
  <2>1. /\ x \in S /\ IsFiniteSet(R) /\ Sum(w, R) \in Int /\ w[x] \in Int
        /\ Sum(w, S) = Sum(w, R) + w[x]
    BY <1>0, <1>2, SumWithout
  <2>2. Sum(w, T) = Sum(w, A) + Sum(w, R)
    BY <1>2
  <2> HIDE DEF x
  <2>3. x \notin T /\ T \cup {x} = A \cup S /\ Numbers(w, T \cup {x}) /\ IsFiniteSet(T)
    BY <2>1, FS_Union DEF Numbers
  <2> HIDE DEF T, R
  <2>4. Sum(w, T \cup {x}) = Sum(w, T) + w[x]
    BY <2>3, SumOne
  <2>5. Sum(w, A \cup S) = Sum(w, T) + w[x]
    BY <2>3, <2>4
  <2>6. Sum(w, A \cup S) = Sum(w, A) + Sum(w, S) /\ Sum(w, S) \in Int
    BY <1>0, <2>1, <2>2, <2>5
  <2> QED
    BY <2>6
<1>3. B \in G
  <2>1. \A S \in SUBSET B : S # {} /\ S \ {First(S)} \in G => S \in G
    BY <1>2
  <2> HIDE DEF G
  <2> QED
    BY <1>1, <2>1, BySize
<1> QED
  BY <1>0, <1>3

\* Sums of sets that share members.
LEMMA SumsOverlap ==
  ASSUME NEW A, IsFiniteSet(A), NEW B, IsFiniteSet(B), NEW w, Weights(w, A \cup B)
  PROVE  /\ Sum(w, A) \in Nat /\ Sum(w, B) \in Nat /\ Sum(w, A \cup B) \in Nat
         /\ Sum(w, A) <= Sum(w, A \cup B) /\ Sum(w, A \cup B) <= Sum(w, A) + Sum(w, B)
         /\ A \cap B = {} => Sum(w, A \cup B) = Sum(w, A) + Sum(w, B)
<1> DEFINE R == B \ A
           C == A \cap B
<1>1. IsFiniteSet(R) /\ IsFiniteSet(C)
  BY FS_Subset
<1>2. A \cap R = {} /\ A \cup R = A \cup B /\ C \cap R = {} /\ C \cup R = B
  OBVIOUS
<1> HIDE DEF R
<1>3. Weights(w, A) /\ Weights(w, B) /\ Weights(w, R) /\ Weights(w, C)
  BY <1>2 DEF Weights
<1>4. Numbers(w, A \cup R) /\ Numbers(w, C \cup R)
  BY <1>2 DEF Weights, Numbers
<1>5. Sum(w, A) \in Nat /\ Sum(w, B) \in Nat /\ Sum(w, R) \in Nat /\ Sum(w, C) \in Nat
  <2> HIDE DEF C
  <2> QED
    BY <1>1, <1>3, SumIsNat
<1>6. Sum(w, A \cup B) = Sum(w, A) + Sum(w, R)
  BY <1>1, <1>2, <1>4, SumJoin
<1>7. Sum(w, B) = Sum(w, C) + Sum(w, R)
  <2> HIDE DEF C
  <2>1. Sum(w, C \cup R) = Sum(w, C) + Sum(w, R)
    BY <1>1, <1>2, <1>4, SumJoin
  <2> QED
    BY <1>2, <2>1
<1>8. A \cap B = {} => Sum(w, C) = 0
  BY SumEmpty
<1> QED
  BY <1>5, <1>6, <1>7, <1>8

\* A set where each weighs one weighs as many as it has.
LEMMA SumOnes ==
  ASSUME NEW D, IsFiniteSet(D), NEW w, \A x \in D : w[x] = 1
  PROVE  Sum(w, D) = Cardinality(D)
<1> DEFINE G == {S \in SUBSET D : Sum(w, S) = Cardinality(S)}
<1>0. Numbers(w, D)
  BY DEF Numbers
<1>1. {} \in G
  BY SumEmpty, FS_EmptySet
<1>2. ASSUME NEW S \in SUBSET D, S # {}, S \ {First(S)} \in G  PROVE S \in G
  <2>1. First(S) \in S /\ Sum(w, S) = Sum(w, S \ {First(S)}) + w[First(S)]
    BY <1>0, <1>2, SumWithout
  <2>2. Cardinality(S \ {First(S)}) = Cardinality(S) - 1 /\ Cardinality(S) \in Nat
    BY <1>2, WithoutFirst
  <2> QED
    BY <1>2, <2>1, <2>2
<1>3. D \in G
  <2>1. \A S \in SUBSET D : S # {} /\ S \ {First(S)} \in G => S \in G
    BY <1>2
  <2> HIDE DEF G
  <2> QED
    BY <1>1, <2>1, BySize
<1> QED
  BY <1>3

\* Two facts of multiplication.
LEMMA TimesGrows ==
  ASSUME NEW x \in Nat, NEW y \in Nat, NEW k \in Nat, x <= y
  PROVE  x * k <= y * k /\ x * k \in Nat /\ y * k \in Nat
<1>1. x * k \in Nat /\ y * k \in Nat /\ (y - x) * k \in Nat
  OBVIOUS
<1>2. y * k = x * k + (y - x) * k
  OBVIOUS
<1> QED
  BY <1>1, <1>2

LEMMA TimesSum ==
  ASSUME NEW x \in Nat, NEW y \in Nat, NEW k \in Nat
  PROVE  (x + y) * k = x * k + y * k
OBVIOUS

\* What the sets of a family come to, apart and together.
Joined(X, I) == UNION {X[i] : i \in I}
Apart(X, I) == \A i, j \in I : i # j => X[i] \cap X[j] = {}
Measures(X, I, w, k, v) ==
  \A i \in I : IsFiniteSet(X[i]) /\ Weights(w, X[i]) /\ v[i] = Sum(w, X[i]) * k
Covered(X, I, w, k, v) ==
  /\ IsFiniteSet(Joined(X, I)) /\ Weights(w, Joined(X, I)) /\ Sum(w, Joined(X, I)) \in Nat
  /\ Sum(v, I) \in Int
  /\ Sum(w, Joined(X, I)) * k <= Sum(v, I)
  /\ Apart(X, I) => Sum(w, Joined(X, I)) * k = Sum(v, I)

\* The union of a family weighs no less than any of its sets and no more than
\* all of them together, which is what it weighs when they are apart.
LEMMA Covers ==
  ASSUME NEW n \in Nat, NEW I, I \subseteq 1 .. n, NEW X, NEW w, NEW k \in Nat, NEW v,
         Measures(X, I, w, k, v)
  PROVE  /\ Covered(X, I, w, k, v)
         /\ \A i \in I : v[i] <= Sum(w, Joined(X, I)) * k
<1> DEFINE L(i) == UpTo(I, i)
           P == {i \in 0 .. n : Covered(X, L(i), w, k, v)}
<1>1. 0 \in P
  <2>1. L(0) = {}
    BY UpToGrows
  <2>2. Joined(X, {}) = {}
    BY DEF Joined
  <2>3. Covered(X, {}, w, k, v)
    BY <2>2, SumEmpty, FS_EmptySet DEF Covered, Weights
  <2> QED
    BY <2>1, <2>3
<1>2. ASSUME NEW i \in 1 .. n, i - 1 \in P  PROVE i \in P
  <2>0. i - 1 \in 0 .. n /\ i \in 0 .. n /\ Covered(X, L(i - 1), w, k, v)
    BY <1>2
  <2>1. CASE i \notin I
    <3>1. L(i) = L(i - 1)
      BY <2>1, UpToGrows
    <3> HIDE DEF L
    <3> QED
      BY <2>0, <3>1
  <2>2. CASE i \in I
    <3> DEFINE A == Joined(X, L(i - 1))
               B == X[i]
               U == Joined(X, L(i))
               s == Sum(v, L(i - 1))
    <3>1. /\ IsFiniteSet(L(i - 1)) /\ L(i) \subseteq I
          /\ i \notin L(i - 1) /\ L(i) = L(i - 1) \cup {i}
      BY <2>2, UpToGrows
    <3> HIDE DEF L
    <3>2. U = A \cup B
      BY <3>1 DEF Joined
    <3>3. /\ IsFiniteSet(B) /\ Weights(w, B) /\ v[i] = Sum(w, B) * k
      BY <2>2 DEF Measures
    <3>4. /\ IsFiniteSet(A) /\ Weights(w, A) /\ Sum(w, A) \in Nat /\ s \in Int
          /\ Sum(w, A) * k <= s
          /\ Apart(X, L(i - 1)) => Sum(w, A) * k = s
      BY <2>0 DEF Covered
    <3>5. Apart(X, L(i)) => Apart(X, L(i - 1)) /\ A \cap B = {}
      BY <3>1 DEF Apart, Joined
    <3>6. Sum(v, L(i)) = s + v[i]
      <4>1. Numbers(v, L(i))
        <5>1. ASSUME NEW j \in L(i)  PROVE v[j] \in Int
          <6>1. IsFiniteSet(X[j]) /\ Weights(w, X[j]) /\ v[j] = Sum(w, X[j]) * k
            BY <3>1 DEF Measures
          <6>2. Sum(w, X[j]) \in Nat
            BY <6>1, SumIsNat
          <6> QED
            BY <6>1, <6>2
        <5> QED
          BY <5>1 DEF Numbers
      <4>2. Numbers(v, L(i - 1) \cup {i})
        BY <3>1, <4>1
      <4>3. Sum(v, L(i - 1) \cup {i}) = Sum(v, L(i - 1)) + v[i]
        BY <3>1, <4>2, SumOne
      <4> QED
        BY <3>1, <4>3
    <3> HIDE DEF A, B, U
    <3>7. /\ IsFiniteSet(U) /\ Weights(w, U)
      BY <3>2, <3>3, <3>4, FS_Union DEF Weights
    <3>8. /\ Sum(w, B) \in Nat /\ Sum(w, U) \in Nat /\ Sum(w, U) <= Sum(w, A) + Sum(w, B)
          /\ A \cap B = {} => Sum(w, U) = Sum(w, A) + Sum(w, B)
      <4>1. Weights(w, A \cup B)
        BY <3>2, <3>7
      <4> QED
        BY <3>2, <3>3, <3>4, <4>1, SumsOverlap
    <3> DEFINE x == Sum(w, A)
               y == Sum(w, B)
               z == Sum(w, U)
    <3>9. x \in Nat /\ y \in Nat /\ z \in Nat /\ z <= x + y
      BY <3>4, <3>8
    <3>10. z * k <= x * k + y * k /\ x * k \in Nat /\ y * k \in Nat /\ z * k \in Nat
      <4> HIDE DEF x, y, z
      <4>1. z * k <= (x + y) * k /\ z * k \in Nat
        BY <3>9, TimesGrows
      <4>2. (x + y) * k = x * k + y * k /\ x * k \in Nat /\ y * k \in Nat
        BY <3>9, TimesSum
      <4> QED
        BY <4>1, <4>2
    <3>11. A \cap B = {} => z * k = x * k + y * k
      <4>1. A \cap B = {} => z = x + y
        BY <3>8
      <4> HIDE DEF x, y, z
      <4> QED
        BY <3>9, <4>1, TimesSum
    <3>12. v[i] = y * k /\ x * k <= s /\ (Apart(X, L(i - 1)) => x * k = s)
      BY <3>3, <3>4
    <3>13. Covered(X, L(i), w, k, v)
      <4>1. z * k <= Sum(v, L(i)) /\ Sum(v, L(i)) \in Int
        <5> HIDE DEF x, y, z
        <5> QED
          BY <3>4, <3>6, <3>10, <3>12
      <4>2. Apart(X, L(i)) => z * k = Sum(v, L(i))
        <5> HIDE DEF x, y, z
        <5> QED
          BY <3>4, <3>5, <3>6, <3>10, <3>11, <3>12
      <4> QED
        BY <3>7, <3>8, <4>1, <4>2 DEF Covered, U
    <3> QED
      BY <2>0, <3>13
  <2> QED
    BY <2>1, <2>2
<1>3. Covered(X, I, w, k, v)
  <2>1. n \in P
    <3>1. \A i \in 1 .. n : i - 1 \in P => i \in P
      BY <1>2, Zenon
    <3> HIDE DEF P
    <3> QED
      BY <1>1, <3>1, Climb
  <2>2. Covered(X, L(n), w, k, v)
    BY <2>1
  <2>3. L(n) = I
    BY UpToGrows
  <2> HIDE DEF L
  <2> QED
    BY <2>2, <2>3
<1>4. ASSUME NEW i \in I  PROVE v[i] <= Sum(w, Joined(X, I)) * k
  <2> DEFINE B == X[i]
             U == Joined(X, I)
  <2>1. IsFiniteSet(B) /\ v[i] = Sum(w, B) * k
    BY DEF Measures
  <2>2. IsFiniteSet(U) /\ Weights(w, U)
    BY <1>3 DEF Covered
  <2>3. B \cup U = U
    BY DEF Joined
  <2> HIDE DEF B, U
  <2>4. Sum(w, B) \in Nat /\ Sum(w, U) \in Nat /\ Sum(w, B) <= Sum(w, U)
    <3>1. /\ Sum(w, B) \in Nat /\ Sum(w, U) \in Nat /\ Sum(w, B \cup U) \in Nat
          /\ Sum(w, B) <= Sum(w, B \cup U)
      BY <2>1, <2>2, <2>3, SumsOverlap
    <3> QED
      BY <2>3, <3>1
  <2>5. Sum(w, B) * k <= Sum(w, U) * k
    BY <2>4, TimesGrows
  <2> QED
    BY <2>1, <2>5 DEF B, U
<1> QED
  BY <1>3, <1>4

\* A sum whose places are renamed.
Through(g, A) == {g[a] : a \in A}

LEMMA SumRenamed ==
  ASSUME NEW n \in Nat, NEW A, A \subseteq 1 .. n, NEW g, \A a, b \in A : g[a] = g[b] => a = b,
         NEW f, NEW e, \A a \in A : e[a] = f[g[a]] /\ f[g[a]] \in Int
  PROVE  /\ IsFiniteSet(Through(g, A))
         /\ Sum(e, A) = Sum(f, Through(g, A)) /\ Sum(e, A) \in Int
<1> DEFINE L(i) == UpTo(A, i)
           Good(S) == /\ IsFiniteSet(Through(g, S)) /\ Sum(e, S) \in Int
                      /\ Sum(e, S) = Sum(f, Through(g, S))
           P == {i \in 0 .. n : Good(L(i))}
<1>1. 0 \in P
  <2>1. L(0) = {} /\ Through(g, {}) = {}
    <3>1. L(0) = {}
      BY UpToGrows
    <3>2. Through(g, {}) = {}
      BY DEF Through
    <3> QED
      BY <3>1, <3>2
  <2>2. Good({})
    BY <2>1, SumEmpty, FS_EmptySet
  <2> HIDE DEF Good, L
  <2> QED
    BY <2>1, <2>2
<1>2. ASSUME NEW i \in 1 .. n, i - 1 \in P  PROVE i \in P
  <2>0. i - 1 \in 0 .. n /\ i \in 0 .. n /\ Good(L(i - 1))
    BY <1>2
  <2>1. CASE i \notin A
    <3>1. L(i) = L(i - 1)
      BY <2>1, UpToGrows
    <3> HIDE DEF L, Good
    <3> QED
      BY <2>0, <3>1
  <2>2. CASE i \in A
    <3> DEFINE S == L(i - 1)
               T == Through(g, S)
    <3>1. /\ IsFiniteSet(S) /\ L(i) \subseteq A
          /\ i \notin S /\ L(i) = S \cup {i}
      BY <2>2, UpToGrows
    <3> HIDE DEF L
    <3>2. /\ IsFiniteSet(T) /\ Sum(e, S) \in Int /\ Sum(e, S) = Sum(f, T)
      BY <2>0
    <3> HIDE DEF S
    <3>3. g[i] \notin T /\ Through(g, S \cup {i}) = T \cup {g[i]}
      BY <2>2, <3>1 DEF Through
    <3>4. Numbers(e, S \cup {i}) /\ Numbers(f, T \cup {g[i]})
      BY <2>2, <3>1 DEF Numbers, Through
    <3>5. Sum(e, S \cup {i}) = Sum(e, S) + e[i]
      BY <3>1, <3>4, SumOne
    <3> HIDE DEF T
    <3>6. Sum(f, T \cup {g[i]}) = Sum(f, T) + f[g[i]]
      BY <3>2, <3>3, <3>4, SumOne, SMTT(20)
    <3>7. IsFiniteSet(T \cup {g[i]})
      BY <3>2, FS_AddElement
    <3>8. Good(S \cup {i})
      BY <2>2, <3>2, <3>3, <3>5, <3>6, <3>7
    <3> HIDE DEF Good
    <3> QED
      BY <2>0, <3>1, <3>8
  <2> QED
    BY <2>1, <2>2
<1>3. n \in P
  <2>1. \A i \in 1 .. n : i - 1 \in P => i \in P
    BY <1>2, Zenon
  <2> HIDE DEF P
  <2> QED
    BY <1>1, <2>1, Climb
<1>4. L(n) = A
  BY UpToGrows
<1> HIDE DEF L
<1> QED
  BY <1>3, <1>4

\* What the units at some places of a list come to.
HeldBy(units, J) == {units[j].unit.session : j \in J}
PartIsTallied(q, units, J, a) ==
  /\ Sound(a) /\ Tally(HeldBy(units, J), q.fanPage, q.fanEvent, a)
  /\ q.fanPage => a.pageViews = Cardinality(J)
  /\ q.fanEvent => /\ a.events = Sum(CountsOf(units), J)
                   /\ a.keyEvents = Sum(CountsOf(units), J \cap KeyUnits(units))

LEMMA PartTallied ==
  ASSUME BirthInv, TalesInv, NEW q, NEW S, NEW units \in Seq(S),
         \A c \in ToSet(units) : Fair(c.unit) /\ c.unit.session \in Everyone,
         NEW J, J \subseteq DOMAIN units
  PROVE  PartIsTallied(q, units, J, Accumulated(q, Picked(units, J)))
<1> DEFINE t == Picked(units, J)
           a == Accumulated(q, t)
<1>0. PICK n \in Nat : n = Len(units) /\ DOMAIN units = 1 .. n
  OBVIOUS
<1>1. PICK g : Selection(g, t, units, J, n)
  BY <1>0, PickedSelects, Zenon
<1>2. t \in Seq(S)
  BY PickedSelects
<1> HIDE DEF t
<1>3. PICK m \in Nat : m = Len(t) /\ DOMAIN t = 1 .. m
  BY <1>2
<1>4. /\ g \in [1 .. m -> 1 .. n]
      /\ \A i \in 1 .. m : g[i] \in J /\ t[i] = units[g[i]]
      /\ \A i, j \in 1 .. m : i < j => g[i] < g[j]
      /\ \A k \in 1 .. n : k \in J => \E i \in 1 .. m : g[i] = k
  BY <1>1, <1>3 DEF Selection
<1>5. \A i, j \in 1 .. m : g[i] = g[j] => i = j
  <2>1. ASSUME NEW i \in 1 .. m, NEW j \in 1 .. m, g[i] = g[j], i # j  PROVE FALSE
    <3>1. g[i] \in 1 .. n /\ g[j] \in 1 .. n
      BY <1>4
    <3>2. CASE i < j
      BY <1>4, <2>1, <3>1, <3>2
    <3>3. CASE j < i
      BY <1>4, <2>1, <3>1, <3>3
    <3> QED
      BY <2>1, <3>2, <3>3
  <2> QED
    BY <2>1
<1>6. \A c \in ToSet(t) : Fair(c.unit) /\ c.unit.session \in Everyone
  BY <1>0, <1>3, <1>4 DEF ToSet
<1>7. Sound(a) /\ Tally(SessionsIn(t), q.fanPage, q.fanEvent, a) /\ Fans(t, m, q.fanPage, q.fanEvent, a)
  BY <1>2, <1>3, <1>6, GroupTallied
<1> HIDE DEF a
<1>8. SessionsIn(t) = HeldBy(units, J)
  BY <1>0, <1>3, <1>4 DEF SessionsIn, HeldBy
<1>9. Through(g, 1 .. m) = J
  BY <1>0, <1>4 DEF Through
<1>10. Through(g, KeyUnits(t)) = J \cap KeyUnits(units) /\ KeyUnits(t) \subseteq 1 .. m
  BY <1>0, <1>3, <1>4 DEF Through, KeyUnits
<1>11. \A i \in 1 .. m : CountsOf(t)[i] = CountsOf(units)[g[i]] /\ CountsOf(units)[g[i]] \in Int
  <2>1. ASSUME NEW i \in 1 .. m
        PROVE  CountsOf(t)[i] = CountsOf(units)[g[i]] /\ CountsOf(units)[g[i]] \in Int
    <3>1. g[i] \in 1 .. n /\ t[i] = units[g[i]] /\ Fair(t[i].unit)
      BY <1>3, <1>4, <1>6 DEF ToSet
    <3>2. CountsOf(t)[i] = t[i].unit.count /\ CountsOf(units)[g[i]] = units[g[i]].unit.count
      BY <1>0, <1>3, <3>1 DEF CountsOf
    <3> QED
      BY <3>1, <3>2 DEF Fair
  <2> QED
    BY <2>1
<1> DEFINE f == CountsOf(units)
           e == CountsOf(t)
           K == KeyUnits(t)
           D == 1 .. m
<1>12. D \subseteq 1 .. m /\ K \subseteq 1 .. m /\ D \subseteq D /\ K \subseteq D
  BY <1>10
<1>13. /\ \A i, j \in D : g[i] = g[j] => i = j
       /\ \A i \in D : e[i] = f[g[i]] /\ f[g[i]] \in Int
  BY <1>5, <1>11, Zenon
<1> HIDE DEF f, e, K, D
<1>14. Sum(e, D) = Sum(f, Through(g, D))
  BY <1>12, <1>13, SumRenamed, Zenon
<1>15. Sum(e, K) = Sum(f, Through(g, K))
  <2>1. /\ \A i, j \in K : g[i] = g[j] => i = j
        /\ \A i \in K : e[i] = f[g[i]] /\ f[g[i]] \in Int
    BY <1>12, <1>13
  <2> QED
    BY <1>12, <2>1, SumRenamed
<1>16. Cardinality(J) = m
  <2> DEFINE w == [k \in 1 .. n |-> 1]
             o == [i \in 1 .. m |-> 1]
  <2>1. \A i \in D : o[i] = w[g[i]] /\ w[g[i]] \in Int
    BY <1>4 DEF D
  <2>2. (\A k \in 1 .. n : w[k] = 1) /\ \A i \in 1 .. m : o[i] = 1
    OBVIOUS
  <2> HIDE DEF w, o
  <2>3. Sum(o, D) = Sum(w, Through(g, D)) /\ IsFiniteSet(Through(g, D))
    BY <1>12, <1>13, <2>1, SumRenamed
  <2>4. Sum(o, D) = Cardinality(D) /\ Cardinality(D) = m
    <3>1. IsFiniteSet(1 .. m) /\ Cardinality(1 .. m) = m
      BY FS_Interval
    <3>2. IsFiniteSet(D) /\ \A i \in D : o[i] = 1
      BY <2>2, <3>1 DEF D
    <3>3. Sum(o, D) = Cardinality(D)
      BY <3>2, SumOnes
    <3> QED
      BY <3>1, <3>3 DEF D
  <2>5. Sum(w, J) = Cardinality(J)
    <3>1. IsFiniteSet(J) /\ \A k \in J : w[k] = 1
      BY <1>0, <1>9, <2>2, <2>3 DEF D
    <3> QED
      BY <3>1, SumOnes
  <2> QED
    BY <1>9, <2>3, <2>4, <2>5 DEF D
<1>17. UpTo(D, m) = D /\ UpTo(K, m) = K
  BY <1>12, UpToGrows
<1>18. q.fanPage => a.pageViews = Cardinality(J)
  BY <1>7, <1>16 DEF Fans
<1>19. q.fanEvent => /\ a.events = Sum(f, J)
                     /\ a.keyEvents = Sum(f, J \cap KeyUnits(units))
  <2>1. q.fanEvent => a.events = Sum(e, UpTo(D, m)) /\ a.keyEvents = Sum(e, UpTo(K, m))
    BY <1>3, <1>7 DEF Fans, e, D, K
  <2> QED
    BY <1>9, <1>10, <1>14, <1>15, <1>17, <2>1 DEF D, K
<1>20. PartIsTallied(q, units, J, a)
  BY <1>7, <1>8, <1>18, <1>19 DEF PartIsTallied, f
<1> QED
  BY <1>20 DEF a, t

\* What the metrics of a part are.
PartCounted(q, T, J, units, b) ==
  /\ IsFiniteSet(T) /\ T \subseteq Everyone /\ IsFiniteSet(UsersIn(T)) /\ IsFiniteSet(J)
  /\ b.sessions = Cardinality(T) * Scale
  /\ b.totalUsers = Cardinality(UsersIn(T)) * Scale
  /\ b.activeUsers = Cardinality(UsersIn(ActiveIn(T))) * Scale
  /\ b.newUsers = Cardinality(NewIn(T)) * Scale
  /\ b.engagedSessions = Cardinality(EngagedIn(T)) * Scale
  /\ b.userEngagementDuration = EngagementOf(T) * Scale
  /\ b.screenPageViews = (IF q.fanPage THEN Cardinality(J) ELSE PagesOf(T)) * Scale
  /\ b.eventCount = (IF q.fanEvent THEN Sum(CountsOf(units), J) ELSE EventsOf(T)) * Scale
  /\ b.keyEvents = (IF q.fanEvent THEN Sum(CountsOf(units), J \cap KeyUnits(units)) ELSE KeysIn(T)) * Scale

LEMMA PartCounts ==
  ASSUME BirthInv, TalesInv, NEW q, NEW S, NEW units \in Seq(S),
         \A c \in ToSet(units) : Fair(c.unit) /\ c.unit.session \in Everyone,
         NEW J, J \subseteq DOMAIN units
  PROVE  PartCounted(q, HeldBy(units, J), J, units, Metrics(Accumulated(q, Picked(units, J))))
<1> DEFINE a == Accumulated(q, Picked(units, J))
           b == Metrics(a)
           T == HeldBy(units, J)
<1>1. PartIsTallied(q, units, J, a)
  BY PartTallied
<1>2. IsFiniteSet(J)
  <2>1. PICK n \in Nat : DOMAIN units = 1 .. n
    OBVIOUS
  <2>2. IsFiniteSet(1 .. n)
    BY FS_Interval
  <2> QED
    BY <2>1, <2>2, FS_Subset
<1>3. /\ b.sessions = Cardinality(a.seen) * Scale /\ b.totalUsers = Cardinality(a.users) * Scale
      /\ b.activeUsers = Cardinality(a.active) * Scale /\ b.newUsers = a.new * Scale
      /\ b.engagedSessions = a.engaged * Scale /\ b.userEngagementDuration = a.engagement * Scale
      /\ b.screenPageViews = a.pageViews * Scale /\ b.eventCount = a.events * Scale
      /\ b.keyEvents = a.keyEvents * Scale
  BY MetricFields, Zenon
<1> HIDE DEF a, b, T
<1>4. /\ Tally(T, q.fanPage, q.fanEvent, a) /\ IsFiniteSet(a.users)
      /\ q.fanPage => a.pageViews = Cardinality(J)
      /\ q.fanEvent => /\ a.events = Sum(CountsOf(units), J)
                       /\ a.keyEvents = Sum(CountsOf(units), J \cap KeyUnits(units))
  BY <1>1 DEF PartIsTallied, Sound, T
<1>5. /\ IsFiniteSet(T) /\ T \subseteq Everyone /\ a.users = UsersIn(T)
      /\ Cardinality(a.seen) = Cardinality(T) /\ a.active = UsersIn(ActiveIn(T))
      /\ a.engaged = Cardinality(EngagedIn(T)) /\ a.new = Cardinality(NewIn(T))
      /\ a.engagement = EngagementOf(T)
  BY <1>4 DEF Tally
<1>6. /\ a.pageViews = (IF q.fanPage THEN Cardinality(J) ELSE PagesOf(T))
      /\ a.events = (IF q.fanEvent THEN Sum(CountsOf(units), J) ELSE EventsOf(T))
      /\ a.keyEvents = (IF q.fanEvent THEN Sum(CountsOf(units), J \cap KeyUnits(units)) ELSE KeysIn(T))
  BY <1>4 DEF Tally
<1>7. PartCounted(q, T, J, units, b)
  BY <1>2, <1>3, <1>4, <1>5, <1>6 DEF PartCounted
<1> QED
  BY <1>7 DEF a, b, T

\* A metric as the sum, over what its units yield, of weights.
MeasuredBy(q, units, m, Y, w) ==
  \A J \in SUBSET DOMAIN units :
    /\ IsFiniteSet(Joined(Y, J)) /\ Weights(w, Joined(Y, J))
    /\ Metrics(Accumulated(q, Picked(units, J)))[m] = Sum(w, Joined(Y, J)) * Scale
BySession(units, Y) ==
  \A i, j \in DOMAIN units : Y[i] \cap Y[j] # {} => units[i].unit.session = units[j].unit.session
Measured(q, units, m) ==
  \E Y, w : /\ MeasuredBy(q, units, m, Y, w)
            /\ m \in Unshared /\ ~q.fanPage /\ ~q.fanEvent => BySession(units, Y)

\* Of the sessions that the units are of, those of a set, and their users.
SessionsYield(units, N) == [j \in DOMAIN units |-> {units[j].unit.session} \cap N]
UsersYield(units, N) == [j \in DOMAIN units |-> UsersIn({units[j].unit.session} \cap N)]

\* What a part yields is what the sessions that it holds come to.
LEMMA YieldsJoin ==
  ASSUME NEW units, NEW N, NEW J, J \subseteq DOMAIN units
  PROVE  /\ Joined(SessionsYield(units, N), J) = HeldBy(units, J) \cap N
         /\ Joined(UsersYield(units, N), J) = UsersIn(HeldBy(units, J) \cap N)
         /\ BySession(units, SessionsYield(units, N))
<1> DEFINE Y == SessionsYield(units, N)
           Z == UsersYield(units, N)
           s(j) == units[j].unit.session
           T == HeldBy(units, J)
<1>1. \A j \in DOMAIN units : Y[j] = {s(j)} \cap N /\ Z[j] = UsersIn({s(j)} \cap N)
  BY DEF SessionsYield, UsersYield
<1>2. \A x : x \in T <=> \E j \in J : x = s(j)
  BY DEF HeldBy
<1> HIDE DEF Y, Z, s, T
<1>3. Joined(Y, J) = T \cap N
  <2>1. ASSUME NEW x \in Joined(Y, J)  PROVE x \in T \cap N
    <3>1. PICK j \in J : x \in Y[j]
      BY DEF Joined
    <3>2. Y[j] = {s(j)} \cap N
      BY <1>1
    <3> QED
      BY <1>2, <3>1, <3>2
  <2>2. ASSUME NEW x \in T \cap N  PROVE x \in Joined(Y, J)
    <3>1. PICK j \in J : x = s(j)
      BY <1>2
    <3>2. Y[j] = {s(j)} \cap N
      BY <1>1
    <3> QED
      BY <3>1, <3>2 DEF Joined
  <2> QED
    BY <2>1, <2>2
<1>4. Joined(Z, J) = UsersIn(T \cap N)
  <2>1. ASSUME NEW x \in Joined(Z, J)  PROVE x \in UsersIn(T \cap N)
    <3>1. PICK j \in J : x \in Z[j]
      BY DEF Joined
    <3>2. Z[j] = UsersIn({s(j)} \cap N)
      BY <1>1
    <3>3. s(j) \in N /\ x = s(j).user
      BY <3>1, <3>2 DEF UsersIn
    <3>4. s(j) \in T \cap N
      BY <1>2, <3>3
    <3> QED
      BY <3>3, <3>4 DEF UsersIn
  <2>2. ASSUME NEW x \in UsersIn(T \cap N)  PROVE x \in Joined(Z, J)
    <3>1. PICK y \in T \cap N : x = y.user
      BY DEF UsersIn
    <3>2. PICK j \in J : y = s(j)
      BY <1>2
    <3>3. Z[j] = UsersIn({s(j)} \cap N)
      BY <1>1
    <3>4. x \in UsersIn({s(j)} \cap N)
      BY <3>1, <3>2 DEF UsersIn
    <3> QED
      BY <3>3, <3>4 DEF Joined
  <2> QED
    BY <2>1, <2>2
<1>5. BySession(units, Y)
  BY <1>1 DEF BySession, s
<1> QED
  BY <1>3, <1>4, <1>5 DEF Y, Z, T

\* A metric that counts what its units yield.
LEMMA CountIsMeasured ==
  ASSUME NEW q, NEW units, NEW m, NEW Y, NEW U,
         \A J \in SUBSET DOMAIN units :
           /\ Joined(Y, J) \subseteq U /\ IsFiniteSet(Joined(Y, J))
           /\ Metrics(Accumulated(q, Picked(units, J)))[m] = Cardinality(Joined(Y, J)) * Scale
  PROVE  \E w : MeasuredBy(q, units, m, Y, w)
<1> DEFINE w == [x \in U |-> 1]
           b(J) == Metrics(Accumulated(q, Picked(units, J)))
<1>1. \A x \in U : w[x] = 1
  OBVIOUS
<1> HIDE DEF w, b
<1>2. ASSUME NEW J \in SUBSET DOMAIN units
      PROVE  /\ IsFiniteSet(Joined(Y, J)) /\ Weights(w, Joined(Y, J))
             /\ b(J)[m] = Sum(w, Joined(Y, J)) * Scale
  <2>1. /\ Joined(Y, J) \subseteq U /\ IsFiniteSet(Joined(Y, J))
        /\ b(J)[m] = Cardinality(Joined(Y, J)) * Scale
    BY DEF b
  <2>2. \A x \in Joined(Y, J) : w[x] = 1
    BY <1>1, <2>1
  <2>3. Sum(w, Joined(Y, J)) = Cardinality(Joined(Y, J))
    BY <2>1, <2>2, SumOnes
  <2> QED
    BY <2>1, <2>2, <2>3 DEF Weights
<1>3. MeasuredBy(q, units, m, Y, w)
  BY <1>2 DEF MeasuredBy, b
<1> QED
  BY <1>3

\* Sessions, users, new users and engaged sessions.
LEMMA HeadsAreMeasured ==
  ASSUME NEW q, NEW units,
         \A J \in SUBSET DOMAIN units :
           PartCounted(q, HeldBy(units, J), J, units, Metrics(Accumulated(q, Picked(units, J)))),
         NEW m \in {"sessions", "totalUsers", "activeUsers", "newUsers", "engagedSessions"}
  PROVE  Measured(q, units, m)
<1> DEFINE T(J) == HeldBy(units, J)
           b(J) == Metrics(Accumulated(q, Picked(units, J)))
           D == DOMAIN units
           N == IF m = "newUsers" THEN NewIn(Everyone)
                ELSE IF m = "engagedSessions" THEN EngagedIn(Everyone)
                ELSE IF m = "activeUsers" THEN ActiveIn(Everyone) ELSE Everyone
           counted == m \in {"totalUsers", "activeUsers"}
           Y == IF counted THEN UsersYield(units, N) ELSE SessionsYield(units, N)
           U == IF counted THEN UsersIn(Everyone) ELSE Everyone
<1>1. ASSUME NEW J \in SUBSET D
      PROVE  /\ Joined(Y, J) \subseteq U /\ IsFiniteSet(Joined(Y, J))
             /\ b(J)[m] = Cardinality(Joined(Y, J)) * Scale
  <2> DEFINE S == T(J)
             c == b(J)
             V == S \cap N
  <2>1. /\ IsFiniteSet(S) /\ S \subseteq Everyone /\ IsFiniteSet(UsersIn(S))
        /\ c.sessions = Cardinality(S) * Scale
        /\ c.totalUsers = Cardinality(UsersIn(S)) * Scale
        /\ c.activeUsers = Cardinality(UsersIn(ActiveIn(S))) * Scale
        /\ c.newUsers = Cardinality(NewIn(S)) * Scale
        /\ c.engagedSessions = Cardinality(EngagedIn(S)) * Scale
    BY DEF PartCounted
  <2>2. Joined(Y, J) = IF counted THEN UsersIn(V) ELSE V
    <3> HIDE DEF N
    <3> QED
      BY YieldsJoin
  <2> HIDE DEF c, S, Y
  <2>3. V = (IF m = "newUsers" THEN NewIn(S) ELSE IF m = "engagedSessions" THEN EngagedIn(S)
             ELSE IF m = "activeUsers" THEN ActiveIn(S) ELSE S)
    BY <2>1 DEF NewIn, EngagedIn, ActiveIn
  <2>4. c[m] = Cardinality(IF counted THEN UsersIn(V) ELSE V) * Scale
    <3> HIDE DEF V
    <3> QED
      BY <2>1, <2>3
  <2>5. V \subseteq S /\ V \subseteq Everyone
    BY <2>1
  <2> HIDE DEF V
  <2>6. UsersIn(V) \subseteq UsersIn(S) /\ UsersIn(V) \subseteq UsersIn(Everyone)
    BY <2>5 DEF UsersIn
  <2>7. IsFiniteSet(V) /\ IsFiniteSet(UsersIn(V))
    BY <2>1, <2>5, <2>6, FS_Subset
  <2> HIDE DEF counted
  <2> QED
    BY <2>2, <2>4, <2>5, <2>6, <2>7 DEF c
<1>2. m \in Unshared => BySession(units, Y)
  <2>1. m \in Unshared => ~counted
    BY DEF Unshared
  <2> HIDE DEF N
  <2>2. BySession(units, SessionsYield(units, N))
    BY YieldsJoin
  <2> QED
    BY <2>1, <2>2
<1> HIDE DEF Y, U
<1>3. \E w : MeasuredBy(q, units, m, Y, w)
  BY <1>1, CountIsMeasured
<1> QED
  BY <1>2, <1>3 DEF Measured

\* What is a sum over sessions, and what is counted by the unit.
Within(f, V) == [x \in V |-> f[x]]

\* A metric that adds up what each session weighs.
LEMMA SumIsMeasured ==
  ASSUME NEW q, NEW units, NEW m, NEW f, Weights(f, Everyone),
         \A J \in SUBSET DOMAIN units :
           /\ HeldBy(units, J) \subseteq Everyone /\ IsFiniteSet(HeldBy(units, J))
           /\ Metrics(Accumulated(q, Picked(units, J)))[m] = Sum(Within(f, HeldBy(units, J)), HeldBy(units, J)) * Scale
  PROVE  Measured(q, units, m)
<1> DEFINE Y == SessionsYield(units, Everyone)
           b(J) == Metrics(Accumulated(q, Picked(units, J)))
<1>1. BySession(units, Y)
  BY YieldsJoin
<1>2. \A J \in SUBSET DOMAIN units : Joined(Y, J) = HeldBy(units, J) \cap Everyone
  BY YieldsJoin
<1> HIDE DEF Y, b
<1>3. ASSUME NEW J \in SUBSET DOMAIN units
      PROVE  /\ IsFiniteSet(Joined(Y, J)) /\ Weights(f, Joined(Y, J))
             /\ b(J)[m] = Sum(f, Joined(Y, J)) * Scale
  <2> DEFINE V == HeldBy(units, J)
  <2>0. /\ V \subseteq Everyone /\ IsFiniteSet(V)
        /\ b(J)[m] = Sum(Within(f, V), V) * Scale
    BY DEF b
  <2> HIDE DEF V
  <2>3. Sum(Within(f, V), V) = Sum(f, V)
    <3>1. Numbers(f, V) /\ \A x \in V : Within(f, V)[x] = f[x]
      BY <2>0 DEF Numbers, Weights, Within
    <3> QED
      BY <2>0, <3>1, SumSame
  <2>1. /\ HeldBy(units, J) \subseteq Everyone /\ IsFiniteSet(HeldBy(units, J))
        /\ b(J)[m] = Sum(f, HeldBy(units, J)) * Scale
    BY <2>0, <2>3 DEF V
  <2>2. Joined(Y, J) = HeldBy(units, J)
    BY <1>2, <2>1
  <2> QED
    BY <2>1, <2>2 DEF Weights
<1>4. MeasuredBy(q, units, m, Y, f)
  BY <1>3 DEF MeasuredBy, b
<1> QED
  BY <1>1, <1>4 DEF Measured

\* Each unit yields its own place, where the place is one of a set.
PlacesYield(units, N) == [j \in DOMAIN units |-> {j} \cap N]

LEMMA PlacesJoin ==
  ASSUME NEW units, NEW N, NEW J, J \subseteq DOMAIN units
  PROVE  Joined(PlacesYield(units, N), J) = J \cap N
<1> DEFINE Y == PlacesYield(units, N)
<1>1. \A j \in J : Y[j] = {j} \cap N
  BY DEF PlacesYield
<1> HIDE DEF Y
<1>2. Joined(Y, J) = J \cap N
  BY <1>1 DEF Joined
<1> QED
  BY <1>2 DEF Y

\* A metric that adds up what each unit of a fanned-out list weighs.
LEMMA FanIsMeasured ==
  ASSUME NEW q, NEW units, NEW m, NEW f, NEW N, Weights(f, DOMAIN units), q.fanPage \/ q.fanEvent,
         \A J \in SUBSET DOMAIN units :
           /\ IsFiniteSet(J)
           /\ Metrics(Accumulated(q, Picked(units, J)))[m] = Sum(f, J \cap N) * Scale
  PROVE  Measured(q, units, m)
<1> DEFINE Y == PlacesYield(units, N)
           b(J) == Metrics(Accumulated(q, Picked(units, J)))
<1>1. \A J \in SUBSET DOMAIN units : Joined(Y, J) = J \cap N
  BY PlacesJoin
<1> HIDE DEF Y, b
<1>2. ASSUME NEW J \in SUBSET DOMAIN units
      PROVE  /\ IsFiniteSet(Joined(Y, J)) /\ Weights(f, Joined(Y, J))
             /\ b(J)[m] = Sum(f, Joined(Y, J)) * Scale
  <2>1. IsFiniteSet(J) /\ b(J)[m] = Sum(f, J \cap N) * Scale /\ Joined(Y, J) = J \cap N
    BY <1>1 DEF b
  <2>2. IsFiniteSet(J \cap N)
    BY <2>1, FS_Subset
  <2> QED
    BY <2>1, <2>2 DEF Weights
<1>3. MeasuredBy(q, units, m, Y, f)
  BY <1>2 DEF MeasuredBy, b
<1> QED
  BY <1>3 DEF Measured

\* Engagement, pages and events.
LEMMA TailsAreMeasured ==
  ASSUME BirthInv, TalesInv, NEW q, NEW S, NEW units \in Seq(S),
         \A c \in ToSet(units) : Fair(c.unit),
         \A J \in SUBSET DOMAIN units :
           PartCounted(q, HeldBy(units, J), J, units, Metrics(Accumulated(q, Picked(units, J)))),
         NEW m \in {"userEngagementDuration", "screenPageViews", "eventCount", "keyEvents"}
  PROVE  Measured(q, units, m)
<1> DEFINE T(J) == HeldBy(units, J)
           b(J) == Metrics(Accumulated(q, Picked(units, J)))
           D == DOMAIN units
<1>0. \A x \in Everyone : /\ x.engagement \in Nat /\ Len(x.pages) \in Nat
                          /\ CountOf(x.events) \in Nat /\ KeyOf(x) \in Nat
  <2>1. ASSUME NEW x \in Everyone
        PROVE  /\ x.engagement \in Nat /\ Len(x.pages) \in Nat
               /\ CountOf(x.events) \in Nat /\ KeyOf(x) \in Nat
    <3>1. Told(x)
      BY EveryoneIsKnown DEF Known
    <3>2. PICK U : x.pages \in Seq(U)
      BY <3>1 DEF Told
    <3>3. Len(x.pages) \in Nat
      BY <3>2
    <3>4. CountOf(x.events) \in Nat
      BY <3>1, CountIsNat DEF Told
    <3>5. KeyOf(x) \in Nat
      BY <3>1, KeyOfSums DEF Told
    <3> QED
      BY <3>1, <3>3, <3>4, <3>5 DEF Told
  <2> QED
    BY <2>1
<1>1. \A J \in SUBSET D :
        /\ IsFiniteSet(T(J)) /\ T(J) \subseteq Everyone /\ IsFiniteSet(J)
        /\ b(J).userEngagementDuration = EngagementOf(T(J)) * Scale
        /\ b(J).screenPageViews = (IF q.fanPage THEN Cardinality(J) ELSE PagesOf(T(J))) * Scale
        /\ b(J).eventCount = (IF q.fanEvent THEN Sum(CountsOf(units), J) ELSE EventsOf(T(J))) * Scale
        /\ b(J).keyEvents = (IF q.fanEvent THEN Sum(CountsOf(units), J \cap KeyUnits(units)) ELSE KeysIn(T(J))) * Scale
  BY DEF PartCounted
<1>2. Weights(CountsOf(units), D)
  <2>1. ASSUME NEW j \in D  PROVE CountsOf(units)[j] \in Nat
    <3>1. units[j] \in ToSet(units)
      BY DEF ToSet
    <3> QED
      BY <3>1 DEF CountsOf, Fair
  <2> QED
    BY <2>1 DEF Weights
<1> DEFINE sessions(f) == Weights(f, Everyone)
                            /\ \A J \in SUBSET D : b(J)[m] = Sum(Within(f, T(J)), T(J)) * Scale
<1> HIDE DEF b
<1>3. ASSUME NEW f, sessions(f)  PROVE Measured(q, units, m)
  <2>1. \A J \in SUBSET D :
          /\ HeldBy(units, J) \subseteq Everyone /\ IsFiniteSet(HeldBy(units, J))
          /\ Metrics(Accumulated(q, Picked(units, J)))[m] = Sum(Within(f, HeldBy(units, J)), HeldBy(units, J)) * Scale
    BY <1>1, <1>3 DEF b
  <2> QED
    BY <1>3, <2>1, SumIsMeasured
<1>4. CASE m = "userEngagementDuration"
  <2> DEFINE f == [x \in Everyone |-> x.engagement]
  <2>1. \A J \in SUBSET D : EngagementOf(T(J)) = Sum(Within(f, T(J)), T(J))
    <3> SUFFICES ASSUME NEW J \in SUBSET D  PROVE EngagementOf(T(J)) = Sum(Within(f, T(J)), T(J))
      OBVIOUS
    <3> DEFINE V == T(J)
    <3>1. V \subseteq Everyone
      BY <1>1
    <3> HIDE DEF V
    <3>2. Within(f, V) = [x \in V |-> x.engagement]
      BY <3>1 DEF Within
    <3> HIDE DEF f
    <3> QED
      BY <3>2, Zenon DEF EngagementOf, V
  <2>2. Weights(f, Everyone)
    BY <1>0 DEF Weights
  <2> HIDE DEF f, T
  <2>3. sessions(f)
    BY <1>1, <1>4, <2>1, <2>2
  <2> QED
    BY <1>3, <2>3
<1>5. CASE m = "screenPageViews"
  <2>1. CASE q.fanPage
    <3> DEFINE f == [j \in D |-> 1]
    <3>1. Weights(f, D) /\ \A j \in D : f[j] = 1
      BY DEF Weights
    <3> HIDE DEF f
    <3>2. ASSUME NEW J \in SUBSET D  PROVE IsFiniteSet(J) /\ b(J)[m] = Sum(f, J \cap D) * Scale
      <4>1. J \cap D = J /\ IsFiniteSet(J) /\ b(J)[m] = Cardinality(J) * Scale
        BY <1>1, <1>5, <2>1
      <4>2. Sum(f, J) = Cardinality(J)
        BY <3>1, <4>1, SumOnes
      <4> QED
        BY <4>1, <4>2
    <3>3. \A J \in SUBSET DOMAIN units :
            IsFiniteSet(J) /\ Metrics(Accumulated(q, Picked(units, J)))[m] = Sum(f, J \cap D) * Scale
      BY <3>2 DEF b
    <3>4. Weights(f, DOMAIN units)
      BY <3>1
    <3> HIDE DEF D
    <3> QED
      BY <2>1, <3>3, <3>4, FanIsMeasured
  <2>2. CASE ~q.fanPage
    <3> DEFINE f == [x \in Everyone |-> Len(x.pages)]
    <3>1. \A J \in SUBSET D : PagesOf(T(J)) = Sum(Within(f, T(J)), T(J))
      <4> SUFFICES ASSUME NEW J \in SUBSET D  PROVE PagesOf(T(J)) = Sum(Within(f, T(J)), T(J))
        OBVIOUS
      <4> DEFINE V == T(J)
      <4>1. V \subseteq Everyone
        BY <1>1
      <4> HIDE DEF V
      <4>2. Within(f, V) = [x \in V |-> Len(x.pages)]
        BY <4>1 DEF Within
      <4> HIDE DEF f
      <4> QED
        BY <4>2, Zenon DEF PagesOf, V
    <3>2. Weights(f, Everyone)
      BY <1>0 DEF Weights
    <3> HIDE DEF f, T
    <3>3. sessions(f)
      BY <1>1, <1>5, <2>2, <3>1, <3>2
    <3> QED
      BY <1>3, <3>3
  <2> QED
    BY <2>1, <2>2
<1>6. CASE m = "eventCount"
  <2>1. CASE q.fanEvent
    <3> DEFINE f == CountsOf(units)
    <3> HIDE DEF f
    <3>1. ASSUME NEW J \in SUBSET D  PROVE IsFiniteSet(J) /\ b(J)[m] = Sum(f, J \cap D) * Scale
      <4>1. J \cap D = J /\ IsFiniteSet(J) /\ b(J)[m] = Sum(f, J) * Scale
        BY <1>1, <1>6, <2>1 DEF f
      <4> QED
        BY <4>1
    <3>2. \A J \in SUBSET DOMAIN units :
            IsFiniteSet(J) /\ Metrics(Accumulated(q, Picked(units, J)))[m] = Sum(f, J \cap D) * Scale
      BY <3>1 DEF b
    <3>3. Weights(f, DOMAIN units)
      BY <1>2 DEF f
    <3> HIDE DEF D
    <3> QED
      BY <2>1, <3>2, <3>3, FanIsMeasured
  <2>2. CASE ~q.fanEvent
    <3> DEFINE f == [x \in Everyone |-> CountOf(x.events)]
    <3>1. \A J \in SUBSET D : EventsOf(T(J)) = Sum(Within(f, T(J)), T(J))
      <4> SUFFICES ASSUME NEW J \in SUBSET D  PROVE EventsOf(T(J)) = Sum(Within(f, T(J)), T(J))
        OBVIOUS
      <4> DEFINE V == T(J)
      <4>1. V \subseteq Everyone
        BY <1>1
      <4> HIDE DEF V
      <4>2. Within(f, V) = [x \in V |-> CountOf(x.events)]
        BY <4>1 DEF Within
      <4> HIDE DEF f
      <4> QED
        BY <4>2, Zenon DEF EventsOf, V
    <3>2. Weights(f, Everyone)
      BY <1>0 DEF Weights
    <3> HIDE DEF f, T
    <3>3. sessions(f)
      BY <1>1, <1>6, <2>2, <3>1, <3>2
    <3> QED
      BY <1>3, <3>3
  <2> QED
    BY <2>1, <2>2
<1>7. CASE m = "keyEvents"
  <2>1. CASE q.fanEvent
    <3> DEFINE f == CountsOf(units)
               K == KeyUnits(units)
    <3> HIDE DEF f, K
    <3>1. \A J \in SUBSET D : IsFiniteSet(J) /\ b(J)[m] = Sum(f, J \cap K) * Scale
      BY <1>1, <1>7, <2>1 DEF f, K
    <3>2. \A J \in SUBSET DOMAIN units :
            IsFiniteSet(J) /\ Metrics(Accumulated(q, Picked(units, J)))[m] = Sum(f, J \cap K) * Scale
      BY <3>1 DEF b
    <3>3. Weights(f, DOMAIN units)
      BY <1>2 DEF f
    <3> QED
      BY <2>1, <3>2, <3>3, FanIsMeasured
  <2>2. CASE ~q.fanEvent
    <3> DEFINE f == [x \in Everyone |-> KeyOf(x)]
    <3>1. \A J \in SUBSET D : KeysIn(T(J)) = Sum(Within(f, T(J)), T(J))
      <4> SUFFICES ASSUME NEW J \in SUBSET D  PROVE KeysIn(T(J)) = Sum(Within(f, T(J)), T(J))
        OBVIOUS
      <4> DEFINE V == T(J)
      <4>1. V \subseteq Everyone
        BY <1>1
      <4> HIDE DEF V
      <4>2. Within(f, V) = [x \in V |-> KeyOf(x)]
        BY <4>1 DEF Within
      <4> HIDE DEF f
      <4> QED
        BY <4>2, Zenon DEF KeysIn, V
    <3>2. Weights(f, Everyone)
      BY <1>0 DEF Weights
    <3> HIDE DEF f, T
    <3>3. sessions(f)
      BY <1>1, <1>7, <2>2, <3>1, <3>2
    <3> QED
      BY <1>3, <3>3
  <2> QED
    BY <2>1, <2>2
<1> QED
  BY <1>4, <1>5, <1>6, <1>7

\* Every metric that adds up is measured so.
LEMMA MetricsAreMeasured ==
  ASSUME BirthInv, TalesInv, NEW q, NEW S, NEW units \in Seq(S),
         \A c \in ToSet(units) : Fair(c.unit) /\ c.unit.session \in Everyone,
         NEW m \in Additive
  PROVE  Measured(q, units, m)
<1>1. \A J \in SUBSET DOMAIN units :
        PartCounted(q, HeldBy(units, J), J, units, Metrics(Accumulated(q, Picked(units, J))))
  <2>1. ASSUME NEW J \in SUBSET DOMAIN units
        PROVE  PartCounted(q, HeldBy(units, J), J, units, Metrics(Accumulated(q, Picked(units, J))))
    BY PartCounts
  <2> QED
    BY <2>1
<1>2. m \in {"sessions", "totalUsers", "activeUsers", "newUsers", "engagedSessions"}
        \cup {"userEngagementDuration", "screenPageViews", "eventCount", "keyEvents"}
  BY GroupFields DEF Additive
<1>3. CASE m \in {"sessions", "totalUsers", "activeUsers", "newUsers", "engagedSessions"}
  BY <1>1, <1>3, HeadsAreMeasured, Zenon
<1>4. CASE m \in {"userEngagementDuration", "screenPageViews", "eventCount", "keyEvents"}
  <2>1. \A c \in ToSet(units) : Fair(c.unit)
    OBVIOUS
  <2> QED
    BY <1>1, <1>4, <2>1, TailsAreMeasured, Zenon
<1> QED
  BY <1>2, <1>3, <1>4

\* Without a fan-out a session is one unit, and so has one key in a range.
LEMMA SingleUnit ==
  ASSUME NEW q, ~q.fanPage, ~q.fanEvent, NEW s
  PROVE  \A u \in ToSet(UnitsOf(q, s)) : u = Unit(s, None, None, 1)
<1> DEFINE pages  == IF q.fanPage THEN s.pages ELSE <<None>>
           events == IF q.fanEvent THEN s.events ELSE <<[name |-> None, count |-> 1]>>
           T(i) == [j \in DOMAIN events |-> Unit(s, pages[i], events[j].name, events[j].count)]
           seqs == [i \in DOMAIN pages |-> T(i)]
           S == {Unit(s, None, None, 1)}
<1>1. DOMAIN pages = 1 .. 1 /\ pages[1] = None
  <2>1. pages = <<None>>
    OBVIOUS
  <2> HIDE DEF pages
  <2> QED
    BY <2>1
<1>2. DOMAIN events = 1 .. 1 /\ events[1].name = None /\ events[1].count = 1
  <2>1. events = <<[name |-> None, count |-> 1]>>
    OBVIOUS
  <2> HIDE DEF events
  <2> QED
    BY <2>1
<1> HIDE DEF pages, events
<1>3. UnitsOf(q, s) = FlattenSeq(seqs)
  BY DEF UnitsOf, pages, events
<1>4. seqs \in Seq(Seq(S))
  <2>1. ASSUME NEW i \in 1 .. 1  PROVE T(i) \in Seq(S)
    <3>1. ASSUME NEW j \in 1 .. 1
          PROVE  Unit(s, pages[i], events[j].name, events[j].count) \in S
      BY <1>1, <1>2
    <3> HIDE DEF S
    <3>2. T(i) \in [1 .. 1 -> S]
      BY <1>2, <3>1
    <3> QED
      BY <3>2
  <2> HIDE DEF T, S
  <2>2. seqs \in [1 .. 1 -> Seq(S)]
    BY <1>1, <2>1
  <2> QED
    BY <2>2
<1> HIDE DEF S, seqs
<1>5. UnitsOf(q, s) \in Seq(S)
  BY <1>3, <1>4, FlattenMembers
<1>6. ToSet(UnitsOf(q, s)) \subseteq S
  BY <1>5, ListOfMembers
<1> QED
  BY <1>6 DEF S

\* The units of one session in one range are of one row.
OneKey(units) ==
  \A j, k \in DOMAIN units :
    units[j].unit.session = units[k].unit.session /\ units[j].range = units[k].range
      => KeyOfUnit(units[j]) = KeyOfUnit(units[k])

LEMMA SessionsHaveOneKey ==
  ASSUME BirthInv, TalesInv, WordsInv, NEW q, NEW n, Proper(q, n), ~q.fanPage, ~q.fanEvent
  PROVE  OneKey(Collected(q))
<1> DEFINE units == Collected(q)
           D(s) == DimsOf(q, Unit(s, None, None, 1))
<1>1. n \in Nat /\ Ranged(q, n) /\ \A r \in 1 .. n : q.ranges[r].start \in Int /\ q.ranges[r].end \in Int
  BY DEF Proper, Inside, Ranged
<1>2. PICK S : units \in Seq(S)
  BY <1>1, CollectedSet
<1>3. ToSet(units) = UNION {Entries(q, q.ranges[r]) : r \in 1 .. n}
  BY <1>1, CollectedSet
<1>4. ASSUME NEW c \in ToSet(units)  PROVE c.dims = D(c.unit.session)
  <2>1. PICK r \in 1 .. n : c \in Entries(q, q.ranges[r])
    BY <1>3
  <2>2. PICK u \in UnitSet(q, q.ranges[r]) : c = Entry(q, q.ranges[r], u)
    BY <2>1 DEF Entries
  <2>3. c.unit = u /\ c.dims = DimsOf(q, u)
    BY <2>2 DEF Entry
  <2>4. PICK s \in SeenIn(q.ranges[r]) : u \in ToSet(UnitsOf(q, s))
    BY <2>2 DEF UnitSet
  <2>5. u = Unit(s, None, None, 1)
    BY <2>4, SingleUnit
  <2>6. u.session = s
    BY <2>5 DEF Unit
  <2> QED
    BY <2>3, <2>5, <2>6
<1> HIDE DEF units, D
<1>5. \A j \in DOMAIN units : units[j].dims = D(units[j].unit.session)
  BY <1>4 DEF ToSet
<1>6. OneKey(units)
  BY <1>5 DEF OneKey, KeyOfUnit
<1> QED
  BY <1>6 DEF units

\* The places of a key's units, and of a range's.
PlacesOf(units, key) == {j \in DOMAIN units : KeyOfUnit(units[j]) = key}
PlacesIn(units, range) == {j \in DOMAIN units : units[j].range = range.name}
ShareUnits(units, keys, I, R) == UNION {PlacesOf(units, keys[i]) : i \in I} = R

\* Every unit of a range is in a row of it, and in no other, when none is
\* filtered away.
LEMMA RowsShareTheUnits ==
  ASSUME BirthInv, TalesInv, WordsInv, NEW q, NEW n, Proper(q, n), ~Crashes(q), OrderBysAreList(q),
         q.metricFilter = <<>>, NEW keys, Keyed(q, n, FinalRows(q), keys), NEW range
  PROVE  ShareUnits(Collected(q), keys, RowsIn(FinalRows(q), range), PlacesIn(Collected(q), range))
<1> DEFINE units == Collected(q)
           rows == FinalRows(q)
           I == RowsIn(rows, range)
<1>1. /\ rows \in Seq(RowSet(q, n)) /\ ToSet(rows) = RowSet(q, n)
  BY FinalRowsAre, AllAreReturned, Zenon
<1>2. ASSUME NEW i \in DOMAIN rows
      PROVE  /\ keys[i] \in KeysOf(q, n) /\ rows[i] = RowOf(q, keys[i]) /\ rows[i].range = keys[i].range
             /\ rows[i].dims = keys[i].dims
             /\ keys[i] = [dims |-> keys[i].dims, range |-> keys[i].range]
  <2>1. keys[i] \in KeysOf(q, n) /\ rows[i] = RowOf(q, keys[i])
    BY DEF Keyed
  <2>2. rows[i].range = keys[i].range /\ rows[i].dims = keys[i].dims
    BY <2>1 DEF RowOf
  <2>3. keys[i] = [dims |-> keys[i].dims, range |-> keys[i].range]
    <3>1. Plain(keys[i])
      BY <2>1, KeyIsPlain, Zenon
    <3> QED
      BY <3>1 DEF Plain
  <2> QED
    BY <2>1, <2>2, <2>3
<1> DEFINE found == [i \in DOMAIN units |-> KeyOfUnit(units[i])]
<1>3. ToSet(found) = UNION {FoundKeys(q, q.ranges[r]) : r \in 1 .. n}
  BY FoundSet
<1>4. \A j \in DOMAIN units : KeyOfUnit(units[j]) \in KeysOf(q, n)
  <2>1. ToSet(found) \subseteq KeysOf(q, n)
    BY <1>3 DEF KeysOf
  <2>2. \A j \in DOMAIN units : KeyOfUnit(units[j]) \in ToSet(found)
    BY DEF ToSet
  <2> QED
    BY <2>1, <2>2
<1> HIDE DEF found, units, rows
<1>5. ASSUME NEW i \in I, NEW j \in PlacesOf(units, keys[i])  PROVE j \in PlacesIn(units, range)
  <2>1. i \in DOMAIN rows /\ rows[i].range = range.name
    BY DEF RowsIn
  <2>2. j \in DOMAIN units /\ KeyOfUnit(units[j]) = keys[i]
    BY DEF PlacesOf
  <2>3. KeyOfUnit(units[j]).range = units[j].range
    BY DEF KeyOfUnit
  <2>4. units[j].range = range.name
    BY <1>2, <2>1, <2>2, <2>3
  <2> QED
    BY <2>2, <2>4 DEF PlacesIn
<1>6. ASSUME NEW j \in PlacesIn(units, range)  PROVE \E i \in I : j \in PlacesOf(units, keys[i])
  <2> DEFINE key == KeyOfUnit(units[j])
  <2>1. j \in DOMAIN units /\ units[j].range = range.name
    BY DEF PlacesIn
  <2>2. key.range = range.name /\ key = [dims |-> key.dims, range |-> key.range]
    BY <2>1 DEF KeyOfUnit
  <2>3. key \in KeysOf(q, n)
    BY <1>4, <2>1
  <2> HIDE DEF key
  <2>4. RowOf(q, key) \in ToSet(rows)
    BY <1>1, <2>3 DEF RowSet
  <2>5. PICK i \in DOMAIN rows : rows[i] = RowOf(q, key)
    BY <2>4 DEF ToSet
  <2>6. rows[i].range = key.range /\ rows[i].dims = key.dims
    BY <2>5 DEF RowOf
  <2>7. keys[i] = key
    BY <1>2, <2>2, <2>6
  <2>8. i \in I
    BY <2>2, <2>5, <2>6 DEF RowsIn
  <2> QED
    BY <2>1, <2>7, <2>8 DEF PlacesOf, key
<1> HIDE DEF I
<1> DEFINE V == UNION {PlacesOf(units, keys[i]) : i \in I}
<1>7. V = PlacesIn(units, range)
  BY <1>5, <1>6
<1>8. ShareUnits(units, keys, I, PlacesIn(units, range))
  BY <1>7 DEF ShareUnits
<1> QED
  BY <1>8 DEF units, rows, I

\* A total and the values of the rows that it is the total of.
ValuesOf(rows, I, m) == [i \in I |-> rows[i].values[m]]
Bracketed(total, rows, I, m, exact) ==
  /\ \A i \in I : rows[i].values[m] <= total
  /\ total <= Sum(ValuesOf(rows, I, m), I)
  /\ exact => total = Sum(ValuesOf(rows, I, m), I)

\* The total is the measure of the union of what the rows measure.
LEMMA TotalIsBracketed ==
  ASSUME BirthInv, TalesInv, WordsInv, NEW q, NEW n, Proper(q, n), ~Crashes(q), OrderBysAreList(q),
         q.metricFilter = <<>>, NEW range, NEW m \in Additive
  PROVE  Bracketed(Metrics(Accumulated(q, RangeUnits(Collected(q), range)))[m],
                   FinalRows(q), RowsIn(FinalRows(q), range), m,
                   m \in Unshared /\ ~q.fanPage /\ ~q.fanEvent)
<1> DEFINE units == Collected(q)
           rows  == FinalRows(q)
           I     == RowsIn(rows, range)
           R     == PlacesIn(units, range)
           total == Metrics(Accumulated(q, RangeUnits(units, range)))[m]
           exact == m \in Unshared /\ ~q.fanPage /\ ~q.fanEvent
           v     == ValuesOf(rows, I, m)
<1>1. PICK keys : Keyed(q, n, rows, keys)
  BY FinalRowsAreKeyed, Zenon
<1> DEFINE J(i) == PlacesOf(units, keys[i])
<1>2. UNION {J(i) : i \in I} = R
  <2>1. ShareUnits(units, keys, I, R)
    BY <1>1, RowsShareTheUnits, Zenon
  <2> HIDE DEF units, I, R
  <2> QED
    BY <2>1 DEF ShareUnits
<1>3. PICK S : units \in Seq(S)
  BY CollectedFit
<1>4. \A c \in ToSet(units) : Fair(c.unit) /\ c.unit.session \in Everyone
  BY CollectedFit
<1>5. PICK Y, w : /\ MeasuredBy(q, units, m, Y, w)
                  /\ exact => BySession(units, Y)
  <2> HIDE DEF units
  <2> QED
    BY <1>3, <1>4, MetricsAreMeasured DEF Measured
<1>6. exact => OneKey(units)
  BY SessionsHaveOneKey
<1>7. PICK k \in Nat : DOMAIN rows = 1 .. k
  <2>1. rows \in Seq(RowSet(q, n))
    BY FinalRowsAre, Zenon
  <2> HIDE DEF rows
  <2> QED
    BY <2>1
<1>8. total = Sum(w, Joined(Y, R)) * Scale
  <2>1. R \in SUBSET DOMAIN units /\ RangeUnits(units, range) = Picked(units, R)
    BY DEF RangeUnits, PlacesIn
  <2> HIDE DEF R, units
  <2> QED
    BY <1>5, <2>1 DEF MeasuredBy
<1> DEFINE X == [i \in I |-> Joined(Y, J(i))]
<1>9. Measures(X, I, w, Scale, v)
  <2>1. ASSUME NEW i \in I
        PROVE  IsFiniteSet(X[i]) /\ Weights(w, X[i]) /\ v[i] = Sum(w, X[i]) * Scale
    <3>1. i \in DOMAIN rows
      BY DEF RowsIn
    <3>2. rows[i] = RowOf(q, keys[i])
      BY <1>1, <3>1 DEF Keyed
    <3>3. rows[i].values = Metrics(Accumulated(q, GroupOfKey(q, keys[i])))
      BY <3>2 DEF RowOf
    <3>4. J(i) \in SUBSET DOMAIN units /\ GroupOfKey(q, keys[i]) = Picked(units, J(i))
      BY DEF GroupOfKey, PlacesOf
    <3>5. X[i] = Joined(Y, J(i)) /\ v[i] = rows[i].values[m]
      BY DEF ValuesOf
    <3> HIDE DEF X, J, v, rows, units
    <3>6. /\ IsFiniteSet(Joined(Y, J(i))) /\ Weights(w, Joined(Y, J(i)))
          /\ Metrics(Accumulated(q, Picked(units, J(i))))[m] = Sum(w, Joined(Y, J(i))) * Scale
      BY <1>5, <3>4 DEF MeasuredBy
    <3> QED
      BY <3>3, <3>4, <3>5, <3>6
  <2> HIDE DEF X, I, v
  <2> QED
    BY <2>1 DEF Measures
<1>10. Joined(X, I) = Joined(Y, R)
  <2>1. \A i \in I : X[i] = Joined(Y, J(i))
    OBVIOUS
  <2> HIDE DEF X, J, R, I
  <2>2. ASSUME NEW x \in Joined(X, I)  PROVE x \in Joined(Y, R)
    <3>1. PICK i \in I : x \in X[i]
      BY DEF Joined
    <3>2. x \in Joined(Y, J(i))
      BY <2>1, <3>1
    <3>3. PICK j \in J(i) : x \in Y[j]
      BY <3>2 DEF Joined
    <3>4. j \in R
      BY <1>2, <3>1, <3>3
    <3> QED
      BY <3>3, <3>4 DEF Joined
  <2>3. ASSUME NEW x \in Joined(Y, R)  PROVE x \in Joined(X, I)
    <3>1. PICK j \in R : x \in Y[j]
      BY DEF Joined
    <3>2. PICK i \in I : j \in J(i)
      BY <1>2
    <3>3. x \in Joined(Y, J(i))
      BY <3>1, <3>2 DEF Joined
    <3>4. x \in X[i]
      BY <2>1, <3>3
    <3> QED
      BY <3>4 DEF Joined
  <2> QED
    BY <2>2, <2>3
<1>11. exact => Apart(X, I)
  <2> SUFFICES ASSUME exact, NEW i \in I, NEW j \in I, i # j, NEW x \in X[i] \cap X[j]  PROVE FALSE
    BY DEF Apart
  <2>1. BySession(units, Y) /\ OneKey(units)
    BY <1>5, <1>6
  <2>2. x \in Joined(Y, J(i)) /\ x \in Joined(Y, J(j))
    OBVIOUS
  <2>3. PICK a \in J(i) : x \in Y[a]
    BY <2>2 DEF Joined
  <2>4. PICK b \in J(j) : x \in Y[b]
    BY <2>2 DEF Joined
  <2>5. /\ a \in DOMAIN units /\ b \in DOMAIN units
        /\ KeyOfUnit(units[a]) = keys[i] /\ KeyOfUnit(units[b]) = keys[j]
    BY DEF PlacesOf
  <2>6. a \in R /\ b \in R
    BY <1>2
  <2>7. units[a].range = units[b].range
    BY <2>6 DEF PlacesIn
  <2> HIDE DEF X, J, R, units
  <2>8. units[a].unit.session = units[b].unit.session
    BY <2>1, <2>3, <2>4, <2>5 DEF BySession
  <2>9. keys[i] = keys[j]
    BY <2>1, <2>5, <2>7, <2>8 DEF OneKey
  <2>10. i \in DOMAIN rows /\ j \in DOMAIN rows
    BY DEF RowsIn
  <2> QED
    BY <1>1, <2>9, <2>10 DEF Keyed
<1>12. I \subseteq 1 .. k
  BY <1>7 DEF RowsIn
<1>13. \A i \in I : v[i] = rows[i].values[m]
  BY DEF ValuesOf
<1> HIDE DEF X, I, v, R, total, rows, units, exact
<1>14. Covered(X, I, w, Scale, v) /\ \A i \in I : v[i] <= Sum(w, Joined(X, I)) * Scale
  BY <1>9, <1>12, Covers, ScaleAssumption
<1>15. Bracketed(total, rows, I, m, exact)
  BY <1>8, <1>10, <1>11, <1>13, <1>14 DEF Bracketed, Covered, v
<1> QED
  BY <1>15 DEF total, rows, I, exact, units

LEMMA TotalsFollow == BirthInv /\ TalesInv /\ WordsInv /\ AnsweredInv => TotalsBracketed
<1> SUFFICES ASSUME BirthInv, TalesInv, WordsInv, AnsweredInv, Served, "TOTAL" \in DOMAIN reply.aggregates,
                    Q.metricFilter = <<>>, NEW r \in DOMAIN Q.ranges, NEW m \in Additive \cap ToSet(Q.metrics)
             PROVE  Bracketed(reply.aggregates["TOTAL"][r][m], reply.rows, RowsOf(r), m,
                              m \in Unshared /\ ~Q.fanPage /\ ~Q.fanEvent)
  BY DEF TotalsBracketed, Bracketed, ValuesOf
<1>1. PICK b \in DOMAIN Bodies : reply.body = b /\ Answers(b)
  BY DEF AnsweredInv
<1> DEFINE q == Queries[b]
           rows == FinalRows(q)
           units == Collected(q)
<1>2. /\ b \in Accepted /\ ~Crashes(q) /\ reply.rows = rows /\ Q = q
      /\ reply.aggregates = Aggregates(q, rows)
  BY <1>1 DEF Answers, Q
<1>3. PICK n : Proper(q, n)
  BY <1>2, QueryIsProper
<1>4. OrderBysAreList(q)
  BY <1>2, QueryIsOrdered
<1> HIDE DEF q
<1> DEFINE total == Metrics(Accumulated(q, RangeUnits(units, q.ranges[r])))[m]
           exact == m \in Unshared /\ ~q.fanPage /\ ~q.fanEvent
<1>5. q.metricFilter = <<>>
  BY <1>2
<1>6. Bracketed(total, rows, RowsIn(rows, q.ranges[r]), m, exact)
  BY <1>2, <1>3, <1>4, <1>5, TotalIsBracketed, Zenon
<1> HIDE DEF rows, units
<1>7. Aggregates(q, rows) = [a \in ToSet(q.aggregations) |->
                               [s \in DOMAIN q.ranges |-> Aggregate(q, rows, units, a, q.ranges[s])]]
  <2>1. ~(rows = <<>> \/ q.metrics = <<>>)
    BY <1>2 DEF Aggregates
  <2> QED
    BY <2>1 DEF Aggregates, units
<1>8. reply.aggregates["TOTAL"][r][m] = Aggregate(q, rows, units, "TOTAL", q.ranges[r])[m]
  BY <1>2, <1>7
<1>9. Aggregate(q, rows, units, "TOTAL", q.ranges[r])[m] = total
  <2>1. m \in ToSet(q.metrics)
    BY <1>2
  <2> QED
    BY <2>1 DEF Aggregate
<1>10. RowsIn(rows, q.ranges[r]) = RowsOf(r)
  BY <1>2 DEF RowsOf, RowsIn
<1> HIDE DEF total
<1> QED
  BY <1>2, <1>6, <1>8, <1>9, <1>10

\* A range's total is no less than any of its rows and no more than their sum,
\* which it equals where no two rows share what is counted: users that come
\* back are counted once, and nothing of a range is lost (report.py:645-652).
THEOREM TotalsAreBracketed == Spec => []TotalsBracketed
<1> DEFINE Inv == BirthInv /\ TalesInv /\ WordsInv /\ AnsweredInv
<1>1. Init => Inv
  BY AnswersInit
<1>2. Inv /\ [Next]_rvars => Inv'
  BY BirthStep, TalesStep, WordsStep, AnsweredStep
<1>3. Inv => TotalsBracketed
  BY TotalsFollow
<1> QED
  BY <1>1, <1>2, <1>3, PTL DEF Spec

=============================================================================
