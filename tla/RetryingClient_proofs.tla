------------------------ MODULE RetryingClient_proofs ------------------------
(***************************************************************************)
(* The consumer that repeats its calls: how many it takes, for any number   *)
(* of clients, any transient rules and any moves of the clock.              *)
(***************************************************************************)
EXTENDS RetryingClient, MockServer_proofs, FiniteSetTheorems

(***************************************************************************)
(* The circumstances: the harness has finite bounds, the client carries the *)
(* token it holds and asks for the property served, every rule is           *)
(* transient, and the buckets hold enough for every client.                 *)
(***************************************************************************)
Bounded ==
  /\ MaxRules \in Nat /\ MaxTime \in Nat
  /\ IsFiniteSet(Client)
  /\ "held" \in Credentials /\ "served" \in Properties

TransientRules ==
  /\ RateLimitAfter = Unset
  /\ \A t \in Templates : t.times \in Int
  /\ \E n \in {t.times : t \in Templates} : n >= 1 /\ \A t \in Templates : t.times <= n

AmpleBuckets ==
  /\ Wanted * Cardinality(Client) <= DayCap
  /\ Wanted * Cardinality(Client) <= HourCap
  /\ Wanted * Cardinality(Client) <= ProjectCap

(***************************************************************************)
(* The reasons left to fail.                                                *)
(***************************************************************************)
\* The firings in the book and those of rules not yet injected.  A rule fires
\* once even if its number of times is not positive.
Firings ==
  {f \in (1 .. MaxRules) \X (1 .. MaxFirings) :
     f[1] >= nextId \/ \E r \in book : r.id = f[1] /\ (f[2] = 1 \/ f[2] <= r.times)}

\* The readings of the clock at which a client's token may still be issued,
\* the one it holds included; none once its report is under way.
Chance(c, t) ==
  \/ need[c] = "token"  /\ t >= offset
  \/ need[c] = "report" /\ req[c] = Free /\ t >= bearer[c] - TTL

Chances == {x \in Client \X (0 .. MaxTime) : Chance(x[1], x[2])}

Unserved == {c \in Client : need[c] # "done"}

(***************************************************************************)
(* The inductive invariant.                                                 *)
(***************************************************************************)
BookInv ==
  /\ nextId <= MaxRules + 1
  /\ \A r \in book : r.id < nextId /\ r.times \in Int /\ r.times <= MaxFirings
  /\ \A r, s \in book : r.id = s.id => r = s

ClientInv ==
  /\ need \in [Client -> Needs]
  /\ offset <= MaxTime
  /\ \A c \in Client :
       /\ \/ req[c] = Free
          \/ req[c].path = "token" /\ need[c] = "token"
          \/ req[c].path = "runReport" /\ need[c] = "report"
       /\ need[c] = "report" => bearer[c] - TTL \in 0 .. offset

\* What is left in the buckets pays for every report still wanted.
Funded ==
  /\ quota.day     + Wanted * Cardinality(Unserved) <= DayCap
  /\ quota.hour    + Wanted * Cardinality(Unserved) <= HourCap
  /\ quota.project + Wanted * Cardinality(Unserved) <= ProjectCap

\* Every call made has used up a reason to fail.
Potential ==
  counts["runReport"] + Cardinality(Firings) + Cardinality(Chances)
    <= MaxRules * MaxFirings + Cardinality(Client) * (MaxTime + 1)

CallsInv == TypeOK /\ BookInv /\ ClientInv /\ Funded /\ Potential

(***************************************************************************)
(* Values                                                                   *)
(***************************************************************************)
LEMMA MaxFiringsType ==
  ASSUME TransientRules
  PROVE  MaxFirings \in Nat \ {0} /\ \A t \in Templates : t.times <= MaxFirings
<1>1. PICK n \in {t.times : t \in Templates} : n >= 1 /\ \A t \in Templates : t.times <= n
  BY DEF TransientRules
<1>2. /\ MaxFirings \in {t.times : t \in Templates}
      /\ \A t \in Templates : t.times <= MaxFirings
  BY <1>1 DEF MaxFirings
<1>3. MaxFirings \in Int /\ n \in Int
  BY <1>1, <1>2 DEF TransientRules
<1>4. n <= MaxFirings
  BY <1>1, <1>2
<1> QED BY <1>1, <1>2, <1>3, <1>4

LEMMA FiringsFinite ==
  ASSUME Bounded, TransientRules
  PROVE  /\ IsFiniteSet(Firings) /\ Cardinality(Firings) \in Nat
         /\ Cardinality(Firings) <= MaxRules * MaxFirings
<1> DEFINE All == (1 .. MaxRules) \X (1 .. MaxFirings)
<1>1. MaxRules \in Nat /\ MaxFirings \in Nat \ {0}
  BY MaxFiringsType DEF Bounded
<1>2. /\ IsFiniteSet(1 .. MaxRules) /\ Cardinality(1 .. MaxRules) = MaxRules
      /\ IsFiniteSet(1 .. MaxFirings) /\ Cardinality(1 .. MaxFirings) = MaxFirings
  BY <1>1, FS_Interval
<1>3. IsFiniteSet(All) /\ Cardinality(All) = MaxRules * MaxFirings
  <2>1. ASSUME NEW S, NEW T, IsFiniteSet(S), IsFiniteSet(T)
        PROVE  IsFiniteSet(S \X T) /\ Cardinality(S \X T) = Cardinality(S) * Cardinality(T)
    BY <2>1, FS_Product
  <2>2. /\ IsFiniteSet(All)
        /\ Cardinality(All) = Cardinality(1 .. MaxRules) * Cardinality(1 .. MaxFirings)
    BY <1>2, <2>1, Zenon
  <2> HIDE DEF All
  <2> QED BY <1>2, <2>2
<1>4. Firings \in SUBSET All
  BY DEF Firings
<1> HIDE DEF All
<1> QED BY <1>3, <1>4, FS_Subset, FS_CardinalityType

LEMMA ChancesFinite ==
  ASSUME Bounded
  PROVE  /\ IsFiniteSet(Chances) /\ Cardinality(Chances) \in Nat
         /\ Cardinality(Chances) <= Cardinality(Client) * (MaxTime + 1)
<1> DEFINE All == Client \X (0 .. MaxTime)
<1>1. MaxTime \in Nat /\ IsFiniteSet(Client)
  BY DEF Bounded
<1>2. IsFiniteSet(0 .. MaxTime) /\ Cardinality(0 .. MaxTime) = MaxTime + 1
  BY <1>1, FS_Interval
<1>3. IsFiniteSet(All) /\ Cardinality(All) = Cardinality(Client) * (MaxTime + 1)
  BY <1>1, <1>2, FS_Product
<1>4. Chances \in SUBSET All
  BY DEF Chances
<1> HIDE DEF All
<1> QED BY <1>3, <1>4, FS_Subset, FS_CardinalityType

LEMMA UnservedFinite ==
  ASSUME Bounded
  PROVE  IsFiniteSet(Unserved) /\ Cardinality(Unserved) \in Nat
BY FS_Subset, FS_CardinalityType DEF Bounded, Unserved

\* A finite set that loses an element has become smaller.
LEMMA Shrinks ==
  ASSUME NEW S, NEW T, IsFiniteSet(S), T \subseteq S
  PROVE  /\ IsFiniteSet(T) /\ Cardinality(T) \in Nat /\ Cardinality(S) \in Nat
         /\ Cardinality(T) <= Cardinality(S)
         /\ \A x \in S : x \notin T => Cardinality(T) < Cardinality(S)
<1>1. /\ IsFiniteSet(T) /\ Cardinality(T) <= Cardinality(S)
      /\ Cardinality(S) = Cardinality(T) => S = T
  BY FS_Subset
<1>2. Cardinality(T) \in Nat /\ Cardinality(S) \in Nat
  BY <1>1, FS_CardinalityType
<1> QED BY <1>1, <1>2

(***************************************************************************)
(* What a request does to the book.                                         *)
(***************************************************************************)
\* Where the rules of a consumed book come from.
LEMMA Origin ==
  ASSUME NEW B \in SUBSET Rule, NEW S \in SUBSET B, \A r \in B : r.times \in Int,
         NEW x \in Consume(B, S)
  PROVE  \E r \in B : /\ x.id = r.id /\ x.times \in Int /\ x.times <= r.times
                      /\ IF r \in S THEN r.times > 1 /\ x = Renewed(r) /\ x.times < r.times
                                    ELSE x = r
<1>1. CASE x \in B \ S
  BY <1>1
<1>2. ASSUME NEW r \in S, r.times = Persistent \/ r.times > 1, x = Renewed(r)
      PROVE  \E q \in B : /\ x.id = q.id /\ x.times \in Int /\ x.times <= q.times
                          /\ IF q \in S THEN q.times > 1 /\ x = Renewed(q) /\ x.times < q.times
                                        ELSE x = q
  <2>1. r \in Rule /\ r.times \in Int /\ r.times > 1 /\ r.times # Persistent
    BY <1>2, RateAssumption
  <2>2. x = [r EXCEPT !.times = @ - 1]
    BY <1>2, <2>1 DEF Renewed
  <2>3. x.id = r.id /\ x.times = r.times - 1
    BY <2>1, <2>2 DEF Rule
  <2> QED BY <1>2, <2>1, <2>3
<1> QED BY <1>1, <1>2 DEF Consume

\* Firings only go, and a request that is answered by a rule uses one up.
LEMMA PreprocessFires ==
  ASSUME Bounded, TransientRules, TypeOK, BookInv, NEW p \in Surface, Preprocess(p)
  PROVE  /\ BookInv' /\ Firings' \subseteq Firings
         /\ Injected(p) # {} => \E f \in Firings : f \notin Firings'
<1> DEFINE S == Consumed(book, p, Number(p))
<1>1. /\ book' = Consume(book, S) /\ nextId' = nextId
      /\ book \in SUBSET Rule /\ S \in SUBSET book /\ nextId \in Nat \ {0}
  BY ConsumedInBook DEF Preprocess, TypeOK
<1>s. Answering(book, p, Number(p)) \subseteq S
  BY DEF Consumed
<1> HIDE DEF S
<1>2. ASSUME NEW x \in book'
      PROVE  \E r \in book : /\ x.id = r.id /\ x.times \in Int /\ x.times <= r.times
                             /\ IF r \in S THEN /\ r.times > 1 /\ x = Renewed(r)
                                                /\ x.times < r.times
                                           ELSE x = r
  BY <1>1, <1>2, Origin DEF BookInv
<1>3. /\ \A r \in book : r.id < nextId /\ r.times \in Int /\ r.times <= MaxFirings
      /\ \A r, s \in book : r.id = s.id => r = s
      /\ MaxFirings \in Nat \ {0} /\ MaxRules \in Nat /\ nextId <= MaxRules + 1
      /\ \A r \in book : r.id \in Nat \ {0}
  BY <1>1, MaxFiringsType DEF BookInv, Bounded, Rule
<1>4. BookInv'
  <2>1. \A r \in book' : r.id < nextId' /\ r.times \in Int /\ r.times <= MaxFirings
    BY <1>1, <1>2, <1>3
  <2>2. \A r, s \in book' : r.id = s.id => r = s
    BY <1>2, <1>3
  <2> QED BY <1>1, <1>3, <2>1, <2>2 DEF BookInv
<1>5. Firings' \subseteq Firings
  <2> SUFFICES ASSUME NEW f \in Firings' PROVE f \in Firings
    OBVIOUS
  <2>1. f \in (1 .. MaxRules) \X (1 .. MaxFirings) /\ f[2] \in Int
    BY DEF Firings
  <2>2. CASE f[1] >= nextId'
    BY <1>1, <2>1, <2>2 DEF Firings
  <2>3. CASE \E x \in book' : x.id = f[1] /\ (f[2] = 1 \/ f[2] <= x.times)
    <3>1. PICK x \in book' : x.id = f[1] /\ (f[2] = 1 \/ f[2] <= x.times)
      BY <2>3
    <3>2. PICK r \in book : x.id = r.id /\ x.times \in Int /\ x.times <= r.times
      BY <1>2
    <3>3. r.id = f[1] /\ (f[2] = 1 \/ f[2] <= r.times)
      BY <1>3, <2>1, <3>1, <3>2
    <3> QED BY <2>1, <3>3 DEF Firings
  <2> QED BY <2>2, <2>3 DEF Firings
<1>6. ASSUME Injected(p) # {} PROVE \E f \in Firings : f \notin Firings'
  <2>1. PICK r \in book : r \in S
    BY <1>1, <1>s, <1>6 DEF Injected
  <2> DEFINE k == IF r.times > 1 THEN r.times ELSE 1
             f == <<r.id, k>>
  <2>2. /\ r.id \in 1 .. MaxRules /\ r.id < nextId
        /\ k \in 1 .. MaxFirings /\ (k = 1 \/ k <= r.times)
    BY <1>1, <1>3
  <2>3. f \in Firings
    BY <2>2 DEF Firings
  <2>4. ASSUME f \in Firings' PROVE FALSE
    <3>1. \E x \in book' : x.id = r.id /\ (k = 1 \/ k <= x.times)
      BY <1>1, <1>3, <2>2, <2>4 DEF Firings
    <3>2. PICK x \in book' : x.id = r.id /\ (k = 1 \/ k <= x.times)
      BY <3>1
    <3>3. x.times \in Int /\ r.times > 1 /\ x.times < r.times
      BY <1>2, <1>3, <2>1, <3>2
    <3> QED BY <1>3, <3>2, <3>3
  <2> QED BY <2>3, <2>4
<1> QED BY <1>4, <1>5, <1>6

(***************************************************************************)
(* The steps of RetryingClient are steps of MockServer.                     *)
(***************************************************************************)
LEMMA RetryStepsServer ==
  ASSUME Bounded, TypeOK, [RetryNext]_retryVars
  PROVE  TypeOK'
<1>1. CASE Harness
  BY <1>1, TypeStep DEF Harness, Next, Control
<1>2. ASSUME NEW c \in Client, Try(c) PROVE TypeOK'
  <2>1. CASE TokenArrive(c)
    BY <2>1, TypeStep DEF Next, Ask
  <2>2. CASE Arrive(c, "runReport", "held", "served")
    <3>1. Next
      BY <2>2 DEF Bounded, Next, Ask, Reporting
    <3> QED BY <3>1, TypeStep
  <2> QED BY <1>2, <2>1, <2>2 DEF Try
<1>3. ASSUME NEW c \in Client, Complete(c) PROVE TypeOK'
  <2>1. [verdict |-> "served", cost |-> Wanted] \in Reports
    BY WantedAssumption DEF Reports
  <2>2. CASE Exchange(c, "access")
    BY <2>2, TypeStep DEF Next, Progress, Outcomes
  <2>3. CASE RunReport(c, [verdict |-> "served", cost |-> Wanted])
    BY <2>1, <2>3, TypeStep DEF Next, Progress
  <2> QED BY <1>3, <2>2, <2>3 DEF Complete
<1>4. CASE UNCHANGED retryVars
  BY <1>4, TypeStep DEF retryVars
<1> QED BY <1>1, <1>2, <1>3, <1>4 DEF RetryNext

\* What a client concludes from an answer.
LEMMA Conclusion ==
  ASSUME TypeOK, need \in [Client -> Needs], NEW c \in Client, NEW tag, Reply(c, tag),
         need' = [need EXCEPT ![c] = Reaction(c)]
  PROVE  /\ \A d \in Client : d # c => need'[d] = need[d]
         /\ need'[c] = IF tag \in {"rejected", "auth_reject"} THEN "token"
                      ELSE IF tag = "access" THEN "report"
                      ELSE IF tag = "ok" THEN "done" ELSE need[c]
         /\ need' \in [Client -> Needs]
<1>1. answer'[c] = tag
  BY DEF TypeOK, Reply
<1>2. Reaction(c) = IF tag \in {"rejected", "auth_reject"} THEN "token"
                    ELSE IF tag = "access" THEN "report"
                    ELSE IF tag = "ok" THEN "done" ELSE need[c]
  BY <1>1 DEF Reaction
<1>3. Reaction(c) \in Needs
  BY <1>2 DEF Needs
<1> QED BY <1>2, <1>3

(***************************************************************************)
(* The potential: a call is paid for with a firing or with a chance.        *)
(***************************************************************************)
LEMMA PotentialKept ==
  ASSUME Bounded, TransientRules, CallsInv, Firings' \subseteq Firings,
         Chances' \subseteq Chances, counts'["runReport"] = counts["runReport"]
  PROVE  Potential'
<1>1. /\ Cardinality(Firings)' <= Cardinality(Firings) /\ Cardinality(Firings)' \in Nat
      /\ Cardinality(Firings) \in Nat
  BY FiringsFinite, Shrinks
<1>2. /\ Cardinality(Chances)' <= Cardinality(Chances) /\ Cardinality(Chances)' \in Nat
      /\ Cardinality(Chances) \in Nat
  BY ChancesFinite, Shrinks
<1>3. /\ counts["runReport"] \in Nat /\ MaxRules * MaxFirings \in Nat
      /\ Cardinality(Client) * (MaxTime + 1) \in Nat
  BY MaxFiringsType, FS_CardinalityType DEF CallsInv, TypeOK, Surface, Reporting, Bounded
<1> QED BY <1>1, <1>2, <1>3 DEF Potential, CallsInv

LEMMA PotentialSpent ==
  ASSUME Bounded, TransientRules, CallsInv, Firings' \subseteq Firings,
         Chances' \subseteq Chances, counts'["runReport"] = counts["runReport"] + 1,
         \/ \E f \in Firings : f \notin Firings'
         \/ \E x \in Chances : x \notin Chances'
  PROVE  Potential'
<1>1. /\ Cardinality(Firings)' <= Cardinality(Firings) /\ Cardinality(Firings)' \in Nat
      /\ Cardinality(Firings) \in Nat
      /\ (\E f \in Firings : f \notin Firings') => Cardinality(Firings)' < Cardinality(Firings)
  BY FiringsFinite, Shrinks
<1>2. /\ Cardinality(Chances)' <= Cardinality(Chances) /\ Cardinality(Chances)' \in Nat
      /\ Cardinality(Chances) \in Nat
      /\ (\E x \in Chances : x \notin Chances') => Cardinality(Chances)' < Cardinality(Chances)
  BY ChancesFinite, Shrinks
<1>3. /\ counts["runReport"] \in Nat /\ MaxRules * MaxFirings \in Nat
      /\ Cardinality(Client) * (MaxTime + 1) \in Nat
  BY MaxFiringsType, FS_CardinalityType DEF CallsInv, TypeOK, Surface, Reporting, Bounded
<1> QED BY <1>1, <1>2, <1>3 DEF Potential, CallsInv

\* A step that serves nobody and charges nothing keeps the funds.
LEMMA FundedKept ==
  ASSUME Funded, UNCHANGED quota, Unserved' = Unserved
  PROVE  Funded'
BY DEF Funded

(***************************************************************************)
(* One lemma per step of a client.                                          *)
(***************************************************************************)
LEMMA TryToken ==
  ASSUME Bounded, TransientRules, CallsInv, TypeOK', NEW c \in Client,
         need[c] = "token", TokenArrive(c), need' = [need EXCEPT ![c] = Reaction(c)]
  PROVE  CallsInv'
<1>1. /\ TypeOK /\ BookInv /\ ClientInv /\ Funded /\ "token" \in Surface
      /\ need \in [Client -> Needs] /\ req \in [Client -> Requests]
      /\ counts \in [Surface -> Nat] /\ Free.path = "none"
  BY DEF CallsInv, ClientInv, TypeOK, Surface, Free
<1>2. BookInv' /\ Firings' \subseteq Firings /\ counts'["runReport"] = counts["runReport"]
  BY <1>1, PreprocessFires DEF TokenArrive, Preprocess, Surface, Reporting
<1>3. need' = need
  <2>1. ASSUME NEW tag \in Kinds \cup {"pending"}, Reply(c, tag) PROVE need' = need
    <3>1. need'[c] = need[c] /\ \A d \in Client : d # c => need'[d] = need[d]
      BY <1>1, <2>1, Conclusion DEF Kinds
    <3> QED BY <1>1, <3>1
  <2>2. Injected("token") \subseteq Kinds
    BY <1>1, InjectedType DEF TypeOK
  <2> QED BY <2>1, <2>2 DEF TokenArrive
<1>4. /\ \A d \in Client : d # c => req'[d] = req[d]
      /\ req'[c] = Free \/ req'[c].path = "token"
      /\ UNCHANGED <<quota, offset, bearer>>
  BY <1>1 DEF TokenArrive, Free
<1>5. Chances' \subseteq Chances
  BY <1>3, <1>4 DEF Chances, Chance
<1>6. ClientInv'
  BY <1>1, <1>3, <1>4 DEF ClientInv
<1>7. Funded'
  BY <1>1, <1>3, <1>4, FundedKept DEF Unserved
<1> QED BY <1>2, <1>5, <1>6, <1>7, PotentialKept DEF CallsInv

\* What _preprocess, _check_bearer and _check_property leave of a report: it is
\* answered by a rule, its token is refused, or it waits for its body.
LEMMA ArriveOutcome ==
  ASSUME TypeOK, NEW c \in Client, Arrive(c, "runReport", "held", "served")
  PROVE  \/ /\ Injected("runReport") # {} /\ UNCHANGED req
            /\ \E tag \in Kinds : Reply(c, tag)
         \/ bearer[c] <= offset /\ UNCHANGED req /\ Reply(c, "rejected")
         \/ /\ req' = [req EXCEPT ![c] = [Free EXCEPT !.phase = "body", !.path = "runReport"]]
            /\ Reply(c, "pending")
<1> DEFINE denial == Denial(c, "runReport", "held", "served", {"served"})
<1>1. Injected("runReport") \subseteq Kinds
  BY InjectedType DEF TypeOK
<1>2. CASE Injected("runReport") # {}
  <2>1. denial = Injected("runReport")
    BY <1>2 DEF Denial
  <2> QED BY <1>1, <1>2, <2>1 DEF Arrive
<1>3. CASE Injected("runReport") = {}
  <2>1. CheckProperty("served", {"served"}) = {}
    BY DEF CheckProperty
  <2>2. CASE BearerValid(c)
    <3>1. denial = {}
      BY <1>3, <2>1, <2>2 DEF Denial, CheckBearer
    <3> QED BY <3>1 DEF Arrive
  <2>3. CASE ~BearerValid(c)
    <3>1. denial = {"rejected"}
      BY <1>3, <2>3 DEF Denial, CheckBearer
    <3>2. bearer[c] <= offset
      BY <2>3 DEF BearerValid, TypeOK
    <3> QED BY <3>1, <3>2 DEF Arrive
  <2> QED BY <2>2, <2>3
<1> QED BY <1>2, <1>3

LEMMA TryReport ==
  ASSUME Bounded, TransientRules, CallsInv, TypeOK', NEW c \in Client,
         need[c] = "report", Arrive(c, "runReport", "held", "served"),
         need' = [need EXCEPT ![c] = Reaction(c)]
  PROVE  CallsInv'
<1>1. /\ TypeOK /\ BookInv /\ ClientInv /\ Funded /\ "runReport" \in Surface
      /\ need \in [Client -> Needs] /\ req \in [Client -> Requests]
      /\ counts \in [Surface -> Nat] /\ offset \in Nat /\ bearer \in [Client -> Nat]
      /\ TTL \in Nat \ {0} /\ MaxTime \in Nat
  BY TimeAssumption DEF CallsInv, ClientInv, TypeOK, Surface, Reporting, Bounded
<1>2. /\ BookInv' /\ Firings' \subseteq Firings
      /\ counts'["runReport"] = counts["runReport"] + 1
      /\ Injected("runReport") # {} => \E f \in Firings : f \notin Firings'
  BY <1>1, PreprocessFires DEF Arrive, Preprocess, Number
<1>3. /\ req[c] = Free /\ UNCHANGED <<quota, offset, bearer>>
      /\ bearer[c] - TTL \in 0 .. offset /\ offset <= MaxTime
  BY <1>1 DEF Arrive, ClientInv
<1> DEFINE x == <<c, bearer[c] - TTL>>
<1>4. x \in Chances
  BY <1>1, <1>3 DEF Chances, Chance
<1>5. ASSUME NEW tag \in Kinds \cup {"rejected"}, Reply(c, tag), UNCHANGED req
      PROVE  /\ ClientInv' /\ Funded' /\ Chances' \subseteq Chances
             /\ tag = "rejected" => need'[c] = "token"
  <2>1. /\ \A d \in Client : d # c => need'[d] = need[d]
        /\ need'[c] \in {"token", "report"} /\ need' \in [Client -> Needs]
        /\ tag = "rejected" => need'[c] = "token"
    BY <1>1, <1>5, Conclusion DEF Kinds
  <2>2. Unserved' = Unserved
    BY <2>1 DEF Unserved
  <2>3. Chances' \subseteq Chances
    <3> SUFFICES ASSUME NEW d \in Client, NEW t \in 0 .. MaxTime, Chance(d, t)'
                 PROVE  Chance(d, t)
      BY DEF Chances
    <3>1. CASE d # c
      BY <1>3, <1>5, <2>1, <3>1 DEF Chance
    <3>2. CASE d = c
      BY <1>1, <1>3, <1>5, <2>1, <3>2 DEF Chance
    <3> QED BY <3>1, <3>2
  <2>4. ClientInv'
    BY <1>1, <1>3, <1>5, <2>1 DEF ClientInv
  <2> QED BY <1>1, <1>3, <2>1, <2>2, <2>3, <2>4, FundedKept
<1>6. CASE Injected("runReport") # {} /\ UNCHANGED req /\ \E tag \in Kinds : Reply(c, tag)
  <2>1. ClientInv' /\ Funded' /\ Chances' \subseteq Chances
    BY <1>5, <1>6
  <2>2. Potential'
    BY <1>2, <1>6, <2>1, PotentialSpent
  <2> QED BY <1>2, <2>1, <2>2 DEF CallsInv
<1>7. CASE bearer[c] <= offset /\ UNCHANGED req /\ Reply(c, "rejected")
  <2>1. ClientInv' /\ Funded' /\ Chances' \subseteq Chances /\ need'[c] = "token"
    BY <1>5, <1>7
  <2>2. x \notin Chances'
    BY <1>1, <1>3, <1>7, <2>1 DEF Chances, Chance
  <2>3. Potential'
    BY <1>2, <1>4, <2>1, <2>2, PotentialSpent
  <2> QED BY <1>2, <2>1, <2>3 DEF CallsInv
<1>8. CASE /\ req' = [req EXCEPT ![c] = [Free EXCEPT !.phase = "body", !.path = "runReport"]]
           /\ Reply(c, "pending")
  <2>1. need' = need
    <3>1. ASSUME NEW tag \in {"pending"}, Reply(c, tag)
          PROVE  need'[c] = need[c] /\ \A d \in Client : d # c => need'[d] = need[d]
      BY <1>1, <3>1, Conclusion
    <3> QED BY <1>1, <1>8, <3>1
  <2>2. /\ req'[c].path = "runReport" /\ req'[c] # Free
        /\ \A d \in Client : d # c => req'[d] = req[d]
    BY <1>1, <1>8 DEF Free
  <2>3. Chances' \subseteq Chances /\ x \notin Chances'
    BY <1>3, <2>1, <2>2 DEF Chances, Chance
  <2>4. ClientInv'
    BY <1>1, <1>3, <2>1, <2>2 DEF ClientInv
  <2>5. Funded'
    BY <1>1, <1>3, <2>1, FundedKept DEF Unserved
  <2>6. Potential'
    BY <1>2, <1>4, <2>3, PotentialSpent
  <2> QED BY <1>2, <2>4, <2>5, <2>6 DEF CallsInv
<1> QED BY <1>1, <1>6, <1>7, <1>8, ArriveOutcome

LEMMA CompleteToken ==
  ASSUME Bounded, TransientRules, CallsInv, TypeOK', NEW c \in Client,
         Exchange(c, "access"), need' = [need EXCEPT ![c] = Reaction(c)]
  PROVE  CallsInv'
<1>1. /\ TypeOK /\ BookInv /\ ClientInv /\ Funded
      /\ need \in [Client -> Needs] /\ req \in [Client -> Requests]
      /\ offset \in Nat /\ bearer \in [Client -> Nat] /\ TTL \in Nat \ {0}
  BY TimeAssumption DEF CallsInv, ClientInv, TypeOK
<1>2. /\ req[c].path = "token" /\ UNCHANGED <<engine, quota, offset, hist>>
      /\ bearer' = [bearer EXCEPT ![c] = offset + TTL] /\ Reply(c, "access")
      /\ req' = [req EXCEPT ![c] = Free]
  BY DEF Exchange, Release
<1>3. need[c] = "token"
  BY <1>1, <1>2 DEF ClientInv, Free
<1>4. /\ \A d \in Client : d # c => need'[d] = need[d]
      /\ need'[c] = "report" /\ need' \in [Client -> Needs]
  <2>1. ASSUME NEW tag \in {"access"}, Reply(c, tag)
        PROVE  /\ \A d \in Client : d # c => need'[d] = need[d]
               /\ need'[c] = "report" /\ need' \in [Client -> Needs]
    BY <1>1, <2>1, Conclusion
  <2> QED BY <1>2, <2>1
<1>5. BookInv' /\ Firings' = Firings /\ counts' = counts
  BY <1>1, <1>2 DEF engine, BookInv, Firings
<1>6. /\ bearer'[c] = offset + TTL /\ req'[c] = Free
      /\ \A d \in Client : d # c => bearer'[d] = bearer[d] /\ req'[d] = req[d]
  BY <1>1, <1>2
<1>7. Chances' \subseteq Chances
  <2> SUFFICES ASSUME NEW d \in Client, NEW t \in 0 .. MaxTime, Chance(d, t)'
               PROVE  Chance(d, t)
    BY DEF Chances
  <2>1. CASE d # c
    BY <1>2, <1>4, <1>6, <2>1 DEF Chance
  <2>2. CASE d = c
    BY <1>1, <1>3, <1>4, <1>6, <2>2 DEF Chance
  <2> QED BY <2>1, <2>2
<1>8. ClientInv'
  <2>1. ASSUME NEW d \in Client
        PROVE  /\ \/ req'[d] = Free
                  \/ req'[d].path = "token" /\ need'[d] = "token"
                  \/ req'[d].path = "runReport" /\ need'[d] = "report"
               /\ need'[d] = "report" => bearer'[d] - TTL \in 0 .. offset
    <3>1. CASE d # c
      BY <1>1, <1>4, <1>6, <3>1 DEF ClientInv
    <3>2. CASE d = c
      BY <1>1, <1>4, <1>6, <3>2
    <3> QED BY <3>1, <3>2
  <2> QED BY <1>1, <1>2, <1>4, <2>1 DEF ClientInv
<1>9. Funded'
  <2>1. Unserved' = Unserved
    BY <1>3, <1>4 DEF Unserved
  <2> QED BY <1>1, <1>2, <2>1, FundedKept
<1>10. Potential'
  BY <1>5, <1>7, PotentialKept
<1> QED BY <1>5, <1>8, <1>9, <1>10 DEF CallsInv

LEMMA OneTimesLess ==
  ASSUME NEW m \in Nat, NEW n \in Nat \ {0}
  PROVE  m * (n - 1) + m = m * n /\ m <= m * n /\ m * n \in Nat /\ m * (n - 1) \in Nat
<1>1. m * (n - 1) = m * n - m
  OBVIOUS
<1>2. m * n \in Nat /\ m * (n - 1) \in Nat
  OBVIOUS
<1> QED BY <1>1, <1>2

LEMMA CompleteReport ==
  ASSUME Bounded, TransientRules, CallsInv, TypeOK', NEW c \in Client,
         RunReport(c, [verdict |-> "served", cost |-> Wanted]),
         need' = [need EXCEPT ![c] = Reaction(c)]
  PROVE  CallsInv'
<1> DEFINE report == [verdict |-> "served", cost |-> Wanted]
           n == Cardinality(Unserved)
<1>1. /\ TypeOK /\ BookInv /\ ClientInv /\ Funded
      /\ need \in [Client -> Needs] /\ req \in [Client -> Requests] /\ quota \in Quotas
      /\ report.verdict = "served" /\ report.cost = Wanted /\ Wanted \in Nat \ {0}
      /\ DayCap \in Nat /\ HourCap \in Nat /\ ProjectCap \in Nat
  BY WantedAssumption, CostAssumption, CapsAssumption DEF CallsInv, ClientInv, TypeOK
<1>2. /\ req[c].path = "runReport" /\ Finished(c, report, 0)
      /\ req' = [req EXCEPT ![c] = Free]
      /\ UNCHANGED <<book, nextId, counts, offset, bearer>>
  BY DEF RunReport, Release
<1>3. need[c] = "report"
  BY <1>1, <1>2 DEF ClientInv, Free
<1>4. /\ c \in Unserved /\ IsFiniteSet(Unserved) /\ n \in Nat \ {0}
      /\ Cardinality(Unserved \ {c}) = n - 1
  <2>1. c \in Unserved /\ IsFiniteSet(Unserved) /\ n \in Nat
    BY <1>3, UnservedFinite DEF Unserved
  <2>2. n # 0
    BY <2>1, FS_EmptySet
  <2>3. Cardinality(Unserved \ {c}) = n - 1
    BY <2>1, FS_RemoveElement
  <2> QED BY <2>1, <2>2, <2>3
<1>q. quota.day \in Nat /\ quota.hour \in Nat /\ quota.project \in Nat
  BY <1>1 DEF Quotas
<1>f. /\ quota.day     + Wanted * n <= DayCap
      /\ quota.hour    + Wanted * n <= HourCap
      /\ quota.project + Wanted * n <= ProjectCap
  BY <1>1 DEF Funded
<1>m. /\ Wanted * (n - 1) + Wanted = Wanted * n /\ Wanted <= Wanted * n
      /\ Wanted * n \in Nat /\ Wanted * (n - 1) \in Nat
  <2> HIDE DEF n
  <2> QED BY <1>1, <1>4, OneTimesLess
<1> HIDE DEF n
<1>5. Overdrawn(quota, report.cost) = {}
  <2>1. /\ ~(quota.day + Wanted > DayCap) /\ ~(quota.hour + Wanted > HourCap)
        /\ ~(quota.project + Wanted > ProjectCap)
    BY <1>1, <1>q, <1>f, <1>m
  <2> QED BY <1>1, <2>1, OverdrawnEmpty
<1> HIDE DEF report
<1>6. Charge(Wanted) /\ Reply(c, "ok")
  BY <1>1, <1>2, <1>5 DEF Finished, Invalid, Refused, Crashed, Served, Charged
<1>7. /\ \A d \in Client : d # c => need'[d] = need[d]
      /\ need'[c] = "done" /\ need' \in [Client -> Needs]
  <2>1. ASSUME NEW tag \in {"ok"}, Reply(c, tag)
        PROVE  /\ \A d \in Client : d # c => need'[d] = need[d]
               /\ need'[c] = "done" /\ need' \in [Client -> Needs]
    BY <1>1, <2>1, Conclusion
  <2> QED BY <1>6, <2>1
<1>8. Funded'
  <2>1. Unserved' = Unserved \ {c}
    BY <1>3, <1>7 DEF Unserved
  <2>2. /\ quota'.day = quota.day + Wanted /\ quota'.hour = quota.hour + Wanted
        /\ quota'.project = quota.project + Wanted
    BY <1>6 DEF Charge
  <2> QED BY <1>1, <1>4, <1>q, <1>f, <1>m, <2>1, <2>2 DEF Funded
<1>9. BookInv' /\ Firings' = Firings
  BY <1>1, <1>2 DEF BookInv, Firings
<1>10. /\ req'[c] = Free
       /\ \A d \in Client : d # c => req'[d] = req[d]
  BY <1>1, <1>2
<1>11. Chances' \subseteq Chances
  BY <1>2, <1>7, <1>10 DEF Chances, Chance
<1>12. ClientInv'
  BY <1>1, <1>2, <1>7, <1>10 DEF ClientInv
<1>13. Potential'
  BY <1>2, <1>9, <1>11, PotentialKept
<1> QED BY <1>8, <1>9, <1>12, <1>13 DEF CallsInv

(***************************************************************************)
(* The harness: a rule injected was counted already, and a clock that moves *)
(* on leaves fewer readings.                                                *)
(***************************************************************************)
LEMMA HarnessStep ==
  ASSUME Bounded, TransientRules, CallsInv, TypeOK', Harness
  PROVE  CallsInv'
<1>1. /\ TypeOK /\ BookInv /\ ClientInv /\ Funded /\ book \subseteq Rule
      /\ nextId \in Nat \ {0} /\ offset \in Nat /\ MaxRules \in Nat
      /\ MaxFirings \in Nat \ {0} /\ \A t \in Templates : t.times <= MaxFirings
  BY MaxFiringsType DEF CallsInv, TypeOK, Bounded
<1>2. UNCHANGED <<need, counts, quota, bearer, req>>
  BY DEF Harness, Inject, Delete, Clear, Advance, engine
<1>3. Funded'
  BY <1>1, <1>2, FundedKept DEF Unserved
<1>4. ASSUME NEW t \in Templates, Inject(t) PROVE CallsInv'
  <2> DEFINE new == [id |-> nextId, kind |-> t.kind, scope |-> t.scope,
                     times |-> t.times, after |-> t.after]
  <2>1. /\ new.id = nextId /\ new.times = t.times /\ t.times \in Int
        /\ t.times <= MaxFirings
    BY <1>1 DEF TransientRules
  <2>2. /\ book' = book \cup {new} /\ nextId' = nextId + 1 /\ nextId <= MaxRules
        /\ UNCHANGED offset
    BY <1>4 DEF Inject
  <2> HIDE DEF new
  <2>3. BookInv'
    <3>1. \A r \in book : r.id < nextId /\ r.id \in Nat
      BY <1>1 DEF BookInv, Rule
    <3> QED BY <1>1, <2>1, <2>2, <3>1 DEF BookInv
  <2>4. Firings' \subseteq Firings
    BY <1>1, <2>1, <2>2 DEF Firings
  <2>5. Chances' = Chances /\ ClientInv'
    BY <1>1, <1>2, <2>2 DEF Chances, Chance, ClientInv
  <2>6. Potential'
    BY <1>2, <2>4, <2>5, PotentialKept
  <2> QED BY <1>3, <2>3, <2>5, <2>6 DEF CallsInv
<1>5. ASSUME NEW d \in Advances, Advance(d) PROVE CallsInv'
  <2>1. /\ offset' = offset + d /\ d \in Nat /\ offset' <= MaxTime
        /\ UNCHANGED <<book, nextId>>
    BY <1>5, TimeAssumption DEF Advance, engine
  <2>2. BookInv' /\ Firings' = Firings
    BY <1>1, <2>1 DEF BookInv, Firings
  <2>3. Chances' \subseteq Chances
    <3> SUFFICES ASSUME NEW c \in Client, NEW t \in 0 .. MaxTime, Chance(c, t)'
                 PROVE  Chance(c, t)
      BY DEF Chances
    <3> QED BY <1>1, <1>2, <2>1 DEF Chance
  <2>4. ClientInv'
    <3>1. 0 .. offset \subseteq 0 .. offset'
      BY <1>1, <2>1
    <3> QED BY <1>1, <1>2, <2>1, <3>1 DEF ClientInv
  <2>5. Potential'
    BY <1>2, <2>2, <2>3, PotentialKept
  <2> QED BY <1>3, <2>2, <2>4, <2>5 DEF CallsInv
<1>6. ASSUME book' \subseteq book, UNCHANGED <<nextId, offset>> PROVE CallsInv'
  <2>1. BookInv' /\ Firings' \subseteq Firings
    BY <1>1, <1>6 DEF BookInv, Firings
  <2>2. Chances' = Chances /\ ClientInv'
    BY <1>1, <1>2, <1>6 DEF Chances, Chance, ClientInv
  <2>3. Potential'
    BY <1>2, <2>1, <2>2, PotentialKept
  <2> QED BY <1>3, <2>1, <2>2, <2>3 DEF CallsInv
<1>7. ASSUME NEW id, Delete(id) PROVE CallsInv'
  BY <1>6, <1>7 DEF Delete
<1>8. CASE Clear
  BY <1>6, <1>8 DEF Clear
<1> QED BY <1>4, <1>5, <1>7, <1>8 DEF Harness

(***************************************************************************)
(* The theorem.                                                             *)
(***************************************************************************)
LEMMA CallsInit ==
  ASSUME Bounded, TransientRules, AmpleBuckets, RetryInit
  PROVE  CallsInv
<1>1. TypeOK
  BY TypeInit DEF RetryInit
<1>2. /\ book = {} /\ nextId = 1 /\ offset = 0 /\ counts["runReport"] = 0
      /\ quota = NoQuota /\ req = [c \in Client |-> Free]
      /\ need = [c \in Client |-> "token"]
      /\ MaxRules \in Nat /\ MaxTime \in Nat
  BY DEF RetryInit, Init, Baseline, TransientRules, Surface, Reporting, Bounded
<1>3. BookInv /\ ClientInv
  BY <1>2 DEF BookInv, ClientInv, Needs
<1>4. Funded
  <2>1. Unserved = Client
    BY <1>2 DEF Unserved
  <2>2. quota.day = 0 /\ quota.hour = 0 /\ quota.project = 0
    BY <1>2 DEF NoQuota
  <2>3. Wanted * Cardinality(Client) \in Nat
    BY WantedAssumption, CostAssumption, FS_CardinalityType DEF Bounded
  <2> QED BY <2>1, <2>2, <2>3 DEF Funded, AmpleBuckets
<1>5. Potential
  <2>1. MaxRules * MaxFirings \in Nat /\ Cardinality(Client) * (MaxTime + 1) \in Nat
    BY <1>2, MaxFiringsType, FS_CardinalityType DEF Bounded
  <2> QED BY <1>2, <2>1, FiringsFinite, ChancesFinite DEF Potential
<1> QED BY <1>1, <1>3, <1>4, <1>5 DEF CallsInv

LEMMA CallsStep ==
  ASSUME Bounded, TransientRules, CallsInv, [RetryNext]_retryVars
  PROVE  CallsInv'
<1>1. TypeOK'
  BY RetryStepsServer DEF CallsInv
<1>2. CASE Harness
  BY <1>1, <1>2, HarnessStep
<1>3. ASSUME NEW c \in Client, Try(c) PROVE CallsInv'
  BY <1>1, <1>3, TryToken, TryReport DEF Try
<1>4. ASSUME NEW c \in Client, Complete(c) PROVE CallsInv'
  BY <1>1, <1>4, CompleteToken, CompleteReport DEF Complete
<1>5. CASE UNCHANGED retryVars
  <2>1. UNCHANGED <<book, nextId, counts, quota, offset, bearer, req, need>>
    BY <1>5 DEF retryVars, vars
  <2>2. Firings' = Firings /\ Chances' = Chances /\ Unserved' = Unserved
    BY <2>1 DEF Firings, Chances, Chance, Unserved
  <2> QED BY <1>1, <2>1, <2>2 DEF CallsInv, BookInv, ClientInv, Funded, Potential
<1> QED BY <1>2, <1>3, <1>4, <1>5 DEF RetryNext

\* For any number of clients, any transient rules and any moves of the clock:
\* the calls it takes to serve everyone are no more than the firings that can
\* be injected and, for each client, the readings the clock can show.  Every
\* refused report has used up a firing (injection.py, _consume) or met a token
\* the clock had outrun (auth.py, bearer_valid), and no token dies twice at
\* one reading.
THEOREM CallsAreBounded ==
  ASSUME Bounded, TransientRules, AmpleBuckets
  PROVE  RetrySpec => []CallsBounded
<1>1. RetryInit => CallsInv
  BY CallsInit
<1>2. CallsInv /\ [RetryNext]_retryVars => CallsInv'
  BY CallsStep
<1>3. CallsInv => CallsBounded
  <2> SUFFICES ASSUME CallsInv PROVE CallsBounded
    OBVIOUS
  <2>1. /\ counts["runReport"] \in Nat /\ MaxRules * MaxFirings \in Nat
        /\ Cardinality(Client) * (MaxTime + 1) \in Nat
    BY MaxFiringsType, FS_CardinalityType DEF CallsInv, TypeOK, Surface, Reporting, Bounded
  <2> QED BY <2>1, FiringsFinite, ChancesFinite DEF CallsInv, Potential, CallsBounded
<1> QED BY <1>1, <1>2, <1>3, PTL DEF RetrySpec
=============================================================================
