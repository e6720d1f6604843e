-------------------------- MODULE MockServer_proofs --------------------------
(***************************************************************************)
(* Theorems about MockServer, for any clients, caps, costs and rules.       *)
(***************************************************************************)
EXTENDS MockServer, SequenceTheorems, TLAPS

USE DEF Reporting, Surface

(***************************************************************************)
(* The engine's operators return books of rules.                            *)
(***************************************************************************)
LEMMA ConsumeType ==
  ASSUME NEW B \in SUBSET Rule, NEW S \in SUBSET B
  PROVE  Consume(B, S) \in SUBSET Rule
<1>1. ASSUME NEW r \in Rule PROVE Renewed(r) \in Rule
  BY <1>1 DEF Renewed, Rule
<1> QED BY <1>1 DEF Consume

LEMMA ConsumedInBook ==
  ASSUME NEW B, NEW p, NEW n
  PROVE  Consumed(B, p, n) \subseteq B
BY DEF Consumed, Answering, Delaying, Refusing, OfKind, Active

LEMMA BaselineType ==
  ASSUME NEW id \in Nat \ {0}
  PROVE  Baseline(id) \in SUBSET Rule
BY RateAssumption DEF Baseline, Rule, Kinds

LEMMA InjectedType ==
  ASSUME book \subseteq Rule, NEW p
  PROVE  Injected(p) \subseteq Kinds
BY DEF Injected, Answering, Refusing, Active, Rule

LEMMA PreprocessType ==
  ASSUME TypeOK, NEW p \in Surface, Preprocess(p)
  PROVE  /\ book' \subseteq Rule /\ nextId' \in Nat \ {0}
         /\ counts' \in [Surface -> Nat]
         /\ last' \in [Reporting -> {Nothing, "body"}]
<1>1. book' \subseteq Rule
  BY ConsumedInBook, ConsumeType DEF TypeOK, Preprocess
<1>2. counts' \in [Surface -> Nat]
  BY DEF TypeOK, Preprocess, Number
<1> QED BY <1>1, <1>2 DEF TypeOK, Preprocess

(***************************************************************************)
(* Sub-reports still to do: what is left of a batch is a batch.             *)
(***************************************************************************)
LEMMA BatchTail ==
  ASSUME NEW batch \in Batches, Tail(batch) # <<>>
  PROVE  Tail(batch) \in Batches
<1>1. PICK n \in 1 .. BatchLimit : batch \in [1 .. n -> Reports]
  BY DEF Batches
<1>2. batch \in Seq(Reports) /\ Len(batch) = n
  BY <1>1, BatchAssumption
<1>3. Tail(batch) \in Seq(Reports) /\ Len(Tail(batch)) = n - 1
  BY <1>1, <1>2, BatchAssumption
<1>4. n - 1 \in 1 .. BatchLimit
  BY <1>3, BatchAssumption
<1>5. Tail(batch) \in [1 .. n - 1 -> Reports]
  BY <1>3, LenProperties
<1> QED BY <1>4, <1>5 DEF Batches

LEMMA BatchHead ==
  ASSUME NEW batch \in Batches
  PROVE  Head(batch) \in Reports
<1>1. PICK n \in 1 .. BatchLimit : batch \in [1 .. n -> Reports]
  BY DEF Batches
<1>2. batch \in Seq(Reports) /\ batch # <<>>
  BY <1>1, BatchAssumption
<1> QED BY <1>2

(***************************************************************************)
(* The ways a report can end, by type.                                      *)
(***************************************************************************)
LEMMA LoseType ==
  ASSUME hist \in Histories, NEW l \in Losses, NEW tokens \in Nat
  PROVE  Lose(l, tokens) \in Histories
<1>1. [hist.lost EXCEPT ![l] = @ + tokens] \in [Losses -> Nat]
  BY DEF Histories
<1> QED BY <1>1 DEF Lose, Histories

LEMMA ChargeType ==
  ASSUME quota \in Quotas, NEW cost \in Nat, Charge(cost)
  PROVE  quota' \in Quotas
BY DEF Charge, Quotas

LEMMA FinishedType ==
  ASSUME TypeOK, NEW c \in Client, NEW report \in Reports, NEW before \in Nat,
         Finished(c, report, before)
  PROVE  /\ quota' \in Quotas
         /\ hist' \in Histories
         /\ answer' \in [Client -> Tags]
<1>0. report.cost \in Costs /\ report.cost \in Nat
  BY CostAssumption DEF Reports
<1>1. /\ quota \in Quotas /\ hist \in Histories /\ offset \in Nat
      /\ answer \in [Client -> Tags] /\ {"invalid", "quota", "crash"} = Losses
  BY DEF TypeOK, Losses
<1>a. before + report.cost \in Nat /\ hist.returned + before + report.cost \in Nat
  BY <1>0, <1>1 DEF Histories
<1>2. CASE Invalid(report, before) /\ Reply(c, "request")
  <2>1. hist' \in Histories /\ quota' \in Quotas
    BY <1>1, <1>2, LoseType DEF Invalid
  <2> QED BY <1>1, <1>2, <2>1 DEF Reply, Tags
<1>3. CASE Refused(report, before) /\ \E tag \in Overdrawn(quota, report.cost) : Reply(c, tag)
  <2>1. Overdrawn(quota, report.cost) \subseteq {"day", "hour", "project"}
    BY DEF Overdrawn
  <2>2. answer' \in [Client -> Tags]
    BY <1>1, <1>3, <2>1 DEF Reply, Tags
  <2>3. Lose("quota", before) \in Histories
    BY <1>1, LoseType
  <2>4. hist' \in Histories /\ quota' \in Quotas
    BY <1>0, <1>1, <1>3, <2>3 DEF Refused, Histories
  <2> QED BY <2>2, <2>4
<1>4. CASE Crashed(report, before) /\ Reply(c, "crash")
  <2>1. Lose("crash", before + report.cost) \in Histories
    BY <1>a, <1>1, LoseType
  <2>2. hist' \in Histories
    BY <1>1, <1>4, <2>1 DEF Crashed, Histories
  <2>3. quota' \in Quotas
    BY <1>0, <1>1, <1>4, ChargeType DEF Crashed, Charged
  <2> QED BY <1>1, <1>4, <2>2, <2>3 DEF Reply, Tags
<1>5. CASE Served(report, before) /\ Reply(c, "ok")
  <2>1. hist' \in Histories
    BY <1>a, <1>1, <1>5 DEF Served, Histories
  <2>2. quota' \in Quotas
    BY <1>0, <1>1, <1>5, ChargeType DEF Served, Charged
  <2> QED BY <1>1, <1>5, <2>1, <2>2 DEF Reply, Tags
<1> QED BY <1>2, <1>3, <1>4, <1>5 DEF Finished

LEMMA DenialType ==
  ASSUME TypeOK, NEW c \in Client, NEW p \in Surface, NEW cred, NEW prop, NEW allowed
  PROVE  Denial(c, p, cred, prop, allowed) \subseteq Tags
<1>1. Injected(p) \subseteq Tags
  BY InjectedType DEF TypeOK, Tags
<1>2. CheckBearer(c, cred) \subseteq Tags /\ CheckProperty(prop, allowed) \subseteq Tags
  BY DEF CheckBearer, CheckProperty, Tags
<1> QED BY <1>1, <1>2 DEF Denial

(***************************************************************************)
(* Type correctness, one step per action.                                   *)
(***************************************************************************)
LEMMA TypeInit == Init => TypeOK
<1> SUFFICES ASSUME Init PROVE TypeOK
  OBVIOUS
<1>1. book \subseteq Rule
  BY BaselineType DEF Init
<1>2. hist \in Histories
  BY DEF Init, NoHist, Histories
<1>3. req \in [Client -> Requests] /\ \A c \in Client : req[c].phase # "batch"
  BY DEF Init, Free, Requests
<1> QED BY <1>1, <1>2, <1>3 DEF Init, TypeOK, NoQuota, Quotas, Tags

\* A request record replaced by a well-typed one.
LEMMA ReqUpdate ==
  ASSUME NEW f \in [Client -> Requests], NEW c \in Client, NEW w \in Requests,
         \A d \in Client : f[d].phase = "batch" => f[d].todo # <<>>,
         w.phase = "batch" => w.todo # <<>>
  PROVE  /\ [f EXCEPT ![c] = w] \in [Client -> Requests]
         /\ \A d \in Client : [f EXCEPT ![c] = w][d].phase = "batch"
                               => [f EXCEPT ![c] = w][d].todo # <<>>
OBVIOUS

LEMMA TypeStep == TypeOK /\ [Next]_vars => TypeOK'
<1> SUFFICES ASSUME TypeOK, [Next]_vars PROVE TypeOK'
  OBVIOUS
<1>typed. /\ book \subseteq Rule /\ nextId \in Nat \ {0}
          /\ counts \in [Surface -> Nat]
          /\ last \in [Reporting -> {Nothing, "body"}]
          /\ quota \in Quotas /\ offset \in Nat /\ bearer \in [Client -> Nat]
          /\ req \in [Client -> Requests]
          /\ \A c \in Client : req[c].phase = "batch" => req[c].todo # <<>>
          /\ answer \in [Client -> Tags] /\ hist \in Histories
  BY DEF TypeOK
<1>free. Free \in Requests /\ Free.phase # "batch"
  BY DEF Free, Requests
<1>waiting. \A p \in Surface : /\ [Free EXCEPT !.phase = "body", !.path = p] \in Requests
                               /\ [Free EXCEPT !.phase = "body", !.path = p].phase = "body"
  BY DEF Free, Requests
<1>1. ASSUME NEW c \in Client, NEW p \in Reporting, NEW cred \in Credentials,
             NEW prop \in Properties, Arrive(c, p, cred, prop)
      PROVE  TypeOK'
  <2>1. /\ book' \subseteq Rule /\ nextId' \in Nat \ {0} /\ counts' \in [Surface -> Nat]
        /\ last' \in [Reporting -> {Nothing, "body"}]
    BY <1>1, PreprocessType DEF Arrive
  <2>2. answer' \in [Client -> Tags]
    <3>1. Denial(c, p, cred, prop, {"served"}) \subseteq Tags
      BY <1>1, DenialType
    <3>2. "pending" \in Tags
      BY DEF Tags
    <3> QED BY <1>1, <1>typed, <3>1, <3>2 DEF Arrive, Reply
  <2>3. /\ req' \in [Client -> Requests]
        /\ \A d \in Client : req'[d].phase = "batch" => req'[d].todo # <<>>
    <3>1. CASE UNCHANGED req
      BY <1>typed, <3>1
    <3>2. CASE req' = [req EXCEPT ![c] = [Free EXCEPT !.phase = "body", !.path = p]]
      <4>1. /\ [Free EXCEPT !.phase = "body", !.path = p] \in Requests
            /\ [Free EXCEPT !.phase = "body", !.path = p].phase # "batch"
        BY <1>waiting
      <4> QED BY <1>typed, <3>2, <4>1, ReqUpdate
    <3> QED BY <1>1, <3>1, <3>2 DEF Arrive
  <2> QED BY <1>1, <1>typed, <2>1, <2>2, <2>3 DEF Arrive, TypeOK
<1>2. ASSUME NEW c \in Client, NEW cred \in Credentials, NEW prop \in Properties,
             Metadata(c, cred, prop)
      PROVE  TypeOK'
  <2>1. /\ book' \subseteq Rule /\ nextId' \in Nat \ {0} /\ counts' \in [Surface -> Nat]
        /\ last' \in [Reporting -> {Nothing, "body"}]
    BY <1>2, PreprocessType DEF Metadata
  <2>2. answer' \in [Client -> Tags]
    <3>1. Denial(c, "metadata", cred, prop, {"served", "zero"}) \subseteq Tags
      BY <1>2, DenialType
    <3>2. "ok" \in Tags
      BY DEF Tags
    <3> QED BY <1>2, <1>typed, <3>1, <3>2 DEF Metadata, Reply
  <2> QED BY <1>2, <1>typed, <2>1, <2>2 DEF Metadata, TypeOK
<1>3. ASSUME NEW c \in Client, TokenArrive(c) PROVE TypeOK'
  <2>1. /\ book' \subseteq Rule /\ nextId' \in Nat \ {0} /\ counts' \in [Surface -> Nat]
        /\ last' \in [Reporting -> {Nothing, "body"}]
    BY <1>3, PreprocessType DEF TokenArrive
  <2>2. answer' \in [Client -> Tags]
    <3>1. Injected("token") \subseteq Tags /\ "pending" \in Tags
      BY <1>typed, InjectedType DEF Tags
    <3> QED BY <1>3, <1>typed, <3>1 DEF TokenArrive, Reply
  <2>3. /\ req' \in [Client -> Requests]
        /\ \A d \in Client : req'[d].phase = "batch" => req'[d].todo # <<>>
    <3>1. CASE UNCHANGED req
      BY <1>typed, <3>1
    <3>2. CASE req' = [req EXCEPT ![c] = [Free EXCEPT !.phase = "body", !.path = "token"]]
      <4>1. /\ [Free EXCEPT !.phase = "body", !.path = "token"] \in Requests
            /\ [Free EXCEPT !.phase = "body", !.path = "token"].phase # "batch"
        BY <1>waiting
      <4> QED BY <1>typed, <3>2, <4>1, ReqUpdate
    <3> QED BY <1>3, <3>1, <3>2 DEF TokenArrive
  <2> QED BY <1>3, <1>typed, <2>1, <2>2, <2>3 DEF TokenArrive, TypeOK
<1>4. ASSUME NEW c \in Client, Disconnect(c) \/ Malformed(c) PROVE TypeOK'
  BY <1>4, <1>typed, <1>free DEF Disconnect, Malformed, Release, Reply, Tags, TypeOK, engine
<1>5. ASSUME NEW c \in Client, NEW report \in Reports, RunReport(c, report) PROVE TypeOK'
  <2>1. quota' \in Quotas /\ hist' \in Histories /\ answer' \in [Client -> Tags]
    BY <1>5, FinishedType DEF RunReport
  <2>2. /\ req' \in [Client -> Requests]
        /\ \A d \in Client : req'[d].phase = "batch" => req'[d].todo # <<>>
    BY <1>5, <1>typed, <1>free DEF RunReport, Release
  <2> QED BY <1>5, <1>typed, <2>1, <2>2 DEF RunReport, Attest, TypeOK
<1>6. ASSUME NEW c \in Client, NEW length \in BadLengths, BatchRefused(c, length) PROVE TypeOK'
  <2>1. last' \in [Reporting -> {Nothing, "body"}]
    BY <1>6, <1>typed DEF BatchRefused, Attest
  <2> QED BY <1>6, <1>typed, <1>free, <2>1 DEF BatchRefused, Release, Reply, Tags, TypeOK
<1>7. ASSUME NEW c \in Client, NEW batch \in Batches, BatchAccepted(c, batch) PROVE TypeOK'
  <2>1. batch # <<>>
    BY BatchAssumption DEF Batches
  <2>2. [req[c] EXCEPT !.phase = "batch", !.todo = batch] \in Requests
    BY <1>typed DEF Requests
  <2>3. /\ req' \in [Client -> Requests]
        /\ \A d \in Client : req'[d].phase = "batch" => req'[d].todo # <<>>
    BY <1>7, <1>typed, <2>1, <2>2 DEF BatchAccepted, Requests
  <2> QED BY <1>7, <1>typed, <2>3 DEF BatchAccepted, Attest, TypeOK
<1>8. ASSUME NEW c \in Client, SubReport(c) PROVE TypeOK'
  <2>1. req[c].todo \in Batches /\ req[c].charged \in Nat
    BY <1>8, <1>typed DEF SubReport, Requests
  <2>2. Head(req[c].todo) \in Reports
    BY <2>1, BatchHead
  <2>3. CASE Finished(c, Head(req[c].todo), req[c].charged) /\ Release(c)
    <3>1. quota' \in Quotas /\ hist' \in Histories /\ answer' \in [Client -> Tags]
      BY <2>1, <2>2, <2>3, FinishedType
    <3> QED BY <1>8, <1>typed, <1>free, <2>3, <3>1 DEF SubReport, Release, TypeOK, engine
  <2>4. CASE /\ Tail(req[c].todo) # <<>> /\ Charged(Head(req[c].todo))
             /\ UNCHANGED hist
             /\ req' = [req EXCEPT ![c].todo = Tail(req[c].todo),
                                  ![c].charged = @ + Head(req[c].todo).cost]
             /\ UNCHANGED answer
    <3>1. Head(req[c].todo).cost \in Nat
      BY <2>2, CostAssumption DEF Reports
    <3>2. quota' \in Quotas /\ hist' \in Histories
      BY <1>typed, <2>4, <3>1, ChargeType DEF Charged, Histories
    <3>3. Tail(req[c].todo) \in Batches
      BY <2>1, <2>4, BatchTail
    <3>4. [req[c] EXCEPT !.todo = Tail(req[c].todo),
                         !.charged = @ + Head(req[c].todo).cost] \in Requests
      <4>1. req[c].charged + Head(req[c].todo).cost \in Nat
        BY <2>1, <3>1
      <4> QED BY <1>typed, <3>3, <4>1 DEF Requests
    <3>5. /\ req' \in [Client -> Requests]
          /\ \A d \in Client : req'[d].phase = "batch" => req'[d].todo # <<>>
      BY <1>typed, <2>4, <3>4 DEF Requests
    <3> QED BY <1>8, <1>typed, <2>4, <3>2, <3>5 DEF SubReport, TypeOK, engine
  <2> QED BY <1>8, <2>3, <2>4 DEF SubReport
<1>9. ASSUME NEW c \in Client, NEW outcome \in Outcomes, Exchange(c, outcome) PROVE TypeOK'
  <2>1. bearer' \in [Client -> Nat]
    BY <1>9, <1>typed, TimeAssumption DEF Exchange
  <2> QED BY <1>9, <1>typed, <1>free, <2>1 DEF Exchange, Release, Reply, Tags, TypeOK, engine
<1>10. ASSUME Control PROVE TypeOK'
  <2>1. ASSUME NEW t \in Templates, Inject(t) PROVE TypeOK'
    <3>1. [id |-> nextId, kind |-> t.kind, scope |-> t.scope,
           times |-> t.times, after |-> t.after] \in Rule
      BY <1>typed, TemplateAssumption DEF Rule, Kinds
    <3> QED BY <2>1, <1>typed, <3>1 DEF Inject, TypeOK
  <2>2. ASSUME NEW id \in 1 .. MaxRules, Delete(id) PROVE TypeOK'
    BY <2>2, <1>typed DEF Delete, TypeOK
  <2>3. CASE Clear
    BY <2>3, <1>typed DEF Clear, TypeOK
  <2>4. ASSUME NEW d \in Advances, Advance(d) PROVE TypeOK'
    <3>1. offset' \in Nat
      BY <2>4, <1>typed, TimeAssumption DEF Advance
    <3> QED BY <2>4, <1>typed, <3>1 DEF Advance, TypeOK, engine
  <2>5. CASE Reset
    <3>1. book' \subseteq Rule
      BY <2>5, <1>typed, BaselineType DEF Reset
    <3>2. hist' \in Histories /\ quota' \in Quotas
      BY <2>5 DEF Reset, NoHist, Histories, NoQuota, Quotas
    <3> QED BY <2>5, <1>typed, <3>1, <3>2 DEF Reset, TypeOK
  <2> QED BY <1>10, <2>1, <2>2, <2>3, <2>4, <2>5 DEF Control
<1>11. CASE UNCHANGED vars
  BY <1>11, <1>typed DEF vars, TypeOK
<1> QED BY <1>1, <1>2, <1>3, <1>4, <1>5, <1>6, <1>7, <1>8, <1>9, <1>10, <1>11
        DEF Next, Ask, Progress

\* Whatever is asked for, in whatever order, the shared state keeps its shape.
THEOREM TypeCorrect == Spec => []TypeOK
BY TypeInit, TypeStep, PTL DEF Spec

(***************************************************************************)
(* The ledger of the quota buckets.                                         *)
(***************************************************************************)
\* The buckets and the history say the same, up to `owed' tokens in flight.
Balanced(owed) ==
  /\ quota.day = quota.hour /\ quota.hour = quota.project
  /\ quota.day <= DayCap /\ quota.hour <= HourCap /\ quota.project <= ProjectCap
  /\ quota.project = hist.returned + Lost + owed

LEMMA LostType ==
  ASSUME hist \in Histories
  PROVE  Lost \in Nat /\ hist.returned \in Nat
BY DEF Histories, Lost, Losses

LEMMA LoseAdds ==
  ASSUME hist \in Histories, NEW l \in Losses, NEW tokens \in Nat
  PROVE  /\ Lose(l, tokens).returned = hist.returned
         /\ LET m == Lose(l, tokens).lost
            IN  m["invalid"] + m["quota"] + m["crash"] = Lost + tokens
<1>1. Lose(l, tokens).returned = hist.returned
  BY DEF Lose, Histories
<1>2. Lose(l, tokens).lost = [hist.lost EXCEPT ![l] = @ + tokens]
  BY DEF Lose, Histories
<1>3. /\ hist.lost \in [Losses -> Nat] /\ hist.lost["invalid"] \in Nat
      /\ hist.lost["quota"] \in Nat /\ hist.lost["crash"] \in Nat
  BY DEF Histories, Losses
<1> QED BY <1>1, <1>2, <1>3 DEF Losses, Lost

LEMMA OverdrawnEmpty ==
  ASSUME NEW q, NEW k
  PROVE  Overdrawn(q, k) = {} <=> /\ ~(q.day + k > DayCap)
                                  /\ ~(q.hour + k > HourCap)
                                  /\ ~(q.project + k > ProjectCap)
<1>1. {"day"} # {} /\ {"hour"} # {} /\ {"project"} # {}
  OBVIOUS
<1>2. CASE q.day + k > DayCap
  BY <1>1, <1>2 DEF Overdrawn
<1>3. CASE ~(q.day + k > DayCap) /\ q.hour + k > HourCap
  BY <1>1, <1>3 DEF Overdrawn
<1>4. CASE /\ ~(q.day + k > DayCap) /\ ~(q.hour + k > HourCap)
           /\ q.project + k > ProjectCap
  BY <1>1, <1>4 DEF Overdrawn
<1>5. CASE /\ ~(q.day + k > DayCap) /\ ~(q.hour + k > HourCap)
           /\ ~(q.project + k > ProjectCap)
  BY <1>5 DEF Overdrawn
<1> QED BY <1>2, <1>3, <1>4, <1>5

\* A charge moves the three buckets by the same amount, up to their caps.
LEMMA ChargedMoves ==
  ASSUME quota \in Quotas, NEW report, report.cost \in Nat, Charged(report)
  PROVE  /\ quota'.day = quota.day + report.cost
         /\ quota'.hour = quota.hour + report.cost
         /\ quota'.project = quota.project + report.cost
         /\ quota'.day <= DayCap /\ quota'.hour <= HourCap /\ quota'.project <= ProjectCap
<1>1. /\ quota.day \in Nat /\ quota.hour \in Nat /\ quota.project \in Nat
      /\ DayCap \in Nat /\ HourCap \in Nat /\ ProjectCap \in Nat
  BY CapsAssumption DEF Quotas
<1>2. /\ ~(quota.day + report.cost > DayCap)
      /\ ~(quota.hour + report.cost > HourCap)
      /\ ~(quota.project + report.cost > ProjectCap)
  BY OverdrawnEmpty DEF Charged
<1> QED BY <1>1, <1>2 DEF Charged, Charge

LEMMA FinishedBalanced ==
  ASSUME TypeOK, NEW c \in Client, NEW report \in Reports, NEW before \in Nat,
         Balanced(before), Finished(c, report, before)
  PROVE  Balanced(0)'
<1>1. /\ report.cost \in Nat
      /\ hist.returned \in Nat /\ hist.lost \in [Losses -> Nat]
      /\ quota.day \in Nat /\ quota.hour \in Nat /\ quota.project \in Nat
      /\ DayCap \in Nat /\ HourCap \in Nat /\ ProjectCap \in Nat
  BY CostAssumption, CapsAssumption DEF Reports, TypeOK, Quotas, Histories
<1>2. /\ hist.lost["invalid"] \in Nat /\ hist.lost["quota"] \in Nat
      /\ hist.lost["crash"] \in Nat
  BY <1>1 DEF Losses
<1>3. ASSUME NEW l \in Losses, NEW tokens \in Nat
      PROVE  /\ Lose(l, tokens).returned = hist.returned
             /\ LET m == Lose(l, tokens).lost
                IN  m["invalid"] + m["quota"] + m["crash"] = Lost + tokens
  BY LoseAdds DEF TypeOK
<1>4. Charged(report) => /\ quota'.day = quota.day + report.cost
                         /\ quota'.hour = quota.hour + report.cost
                         /\ quota'.project = quota.project + report.cost
                         /\ quota'.day <= DayCap /\ quota'.hour <= HourCap
                         /\ quota'.project <= ProjectCap
  BY <1>1, ChargedMoves DEF TypeOK
<1>5. CASE Invalid(report, before)
  BY <1>1, <1>2, <1>3, <1>5 DEF Invalid, Balanced, Lost, Losses
<1>6. CASE Refused(report, before)
  <2>1. hist'.returned = Lose("quota", before).returned /\ hist'.lost = Lose("quota", before).lost
    BY <1>6 DEF Refused, Lose, TypeOK, Histories
  <2> QED BY <1>1, <1>2, <1>3, <1>6, <2>1 DEF Refused, Balanced, Lost, Losses
<1>7. CASE Crashed(report, before)
  <2>1. /\ hist'.returned = Lose("crash", before + report.cost).returned
        /\ hist'.lost = Lose("crash", before + report.cost).lost
    BY <1>7 DEF Crashed, Lose, TypeOK, Histories
  <2>2. before + report.cost \in Nat
    BY <1>1
  <2> QED BY <1>1, <1>2, <1>3, <1>4, <1>7, <2>1, <2>2 DEF Crashed, Balanced, Lost, Losses
<1>8. CASE Served(report, before)
  <2>1. hist'.returned = hist.returned + before + report.cost /\ hist'.lost = hist.lost
    BY <1>8 DEF Served, TypeOK, Histories
  <2> QED BY <1>1, <1>2, <1>4, <1>8, <2>1 DEF Served, Balanced, Lost
<1> QED BY <1>5, <1>6, <1>7, <1>8 DEF Finished

\* The ledger in terms of Balanced.
LEMMA LedgerBalanced ==
  ASSUME LedgerInv
  PROVE  /\ LoopFree => Balanced(0)
         /\ \A c \in Client : Batching(c) => Balanced(req[c].charged)
<1>1. hist.returned + Lost \in Nat
  BY DEF LedgerInv, TypeOK, Histories, Lost, Losses
<1> QED BY <1>1 DEF LedgerInv, QuotaLedger, Balanced

\* A step that keeps the loop free, the buckets and the history.
LEMMA LedgerKept ==
  ASSUME LedgerInv, TypeOK', UNCHANGED <<quota, hist>>, Uncharged',
         \A c \in Client : Batching(c)' = Batching(c),
         \A c \in Client : Batching(c) => req'[c].charged = req[c].charged
  PROVE  LedgerInv'
<1>1. LoopFree' = LoopFree
  BY DEF LoopFree, Batching
<1>2. Lost' = Lost
  BY DEF Lost
<1> QED BY <1>1, <1>2 DEF LedgerInv, QuotaLedger

\* A step that releases the loop with a balanced ledger.
LEMMA LedgerReleased ==
  ASSUME TypeOK', Balanced(0)', Uncharged', \A c \in Client : ~Batching(c)'
  PROVE  LedgerInv'
<1>1. hist'.returned + Lost' \in Nat
  BY DEF TypeOK, Histories, Lost, Losses
<1> QED BY <1>1 DEF LedgerInv, QuotaLedger, Balanced

LEMMA LedgerInit == Init => LedgerInv
<1> SUFFICES ASSUME Init PROVE LedgerInv
  OBVIOUS
<1>1. Balanced(0)
  BY CapsAssumption DEF Init, Balanced, NoQuota, NoHist, Lost, Losses
<1>2. \A c \in Client : ~Batching(c) /\ req[c].charged = 0
  BY DEF Init, Free, Batching
<1>3. hist.returned + Lost = hist.returned + Lost + 0
  BY DEF Init, NoHist, Lost, Losses
<1> QED BY TypeInit, <1>1, <1>2, <1>3 DEF LedgerInv, QuotaLedger, Uncharged, Balanced

LEMMA LedgerStep == LedgerInv /\ [Next]_vars => LedgerInv'
<1> SUFFICES ASSUME LedgerInv, [Next]_vars PROVE LedgerInv'
  OBVIOUS
<1>0. TypeOK' /\ TypeOK
  BY TypeStep DEF LedgerInv
<1>req. req \in [Client -> Requests]
  BY <1>0 DEF TypeOK
<1>free. Free.phase = "idle" /\ Free.charged = 0
  BY DEF Free
<1>waiting. \A p : /\ [Free EXCEPT !.phase = "body", !.path = p].phase = "body"
                  /\ [Free EXCEPT !.phase = "body", !.path = p].charged = 0
  BY DEF Free
<1>1. ASSUME NEW c \in Client, NEW p, req[c] = Free,
             req' = [req EXCEPT ![c] = [Free EXCEPT !.phase = "body", !.path = p]],
             UNCHANGED <<quota, hist>>
      PROVE  LedgerInv'
  BY <1>0, <1>1, <1>req, <1>free, <1>waiting, LedgerKept DEF Batching, Uncharged, LedgerInv
<1>2. ASSUME UNCHANGED <<quota, hist, req>> PROVE LedgerInv'
  BY <1>0, <1>2, LedgerKept DEF Batching, Uncharged, LedgerInv
<1>3. ASSUME NEW c \in Client, req[c].phase = "body", Release(c), UNCHANGED <<quota, hist>>
      PROVE  LedgerInv'
  BY <1>0, <1>3, <1>req, <1>free, LedgerKept DEF Release, Batching, Uncharged, LedgerInv
<1>4. ASSUME NEW c \in Client, NEW p \in Reporting, NEW cred \in Credentials,
             NEW prop \in Properties, Arrive(c, p, cred, prop)
      PROVE  LedgerInv'
  BY <1>1, <1>2, <1>4 DEF Arrive
<1>5. ASSUME NEW c \in Client, TokenArrive(c) PROVE LedgerInv'
  BY <1>1, <1>2, <1>5 DEF TokenArrive
<1>6. ASSUME NEW c \in Client, NEW report \in Reports, RunReport(c, report) PROVE LedgerInv'
  <2>1. Balanced(0)
    BY <1>6, LedgerBalanced DEF RunReport
  <2>2. Balanced(0)'
    BY <1>0, <1>6, <2>1, FinishedBalanced DEF RunReport
  <2>3. \A d \in Client : ~Batching(d)' /\ req'[d].charged = 0
    BY <1>6, <1>req, <1>free DEF RunReport, Release, LoopFree, Batching, LedgerInv, Uncharged
  <2> QED BY <1>0, <2>2, <2>3, LedgerReleased DEF Uncharged
<1>7. ASSUME NEW c \in Client, NEW batch \in Batches, BatchAccepted(c, batch) PROVE LedgerInv'
  <2>1. /\ \A d \in Client : Batching(d)' <=> d = c
        /\ \A d \in Client : req'[d].charged = 0
    BY <1>7, <1>req DEF BatchAccepted, LoopFree, Batching, LedgerInv, Uncharged, Requests
  <2>2. Balanced(0) /\ UNCHANGED <<quota, hist>>
    BY <1>7, LedgerBalanced DEF BatchAccepted
  <2>3. Lost' = Lost /\ hist.returned + Lost \in Nat
    <3>1. Lost' = Lost
      BY <2>2 DEF Lost
    <3> QED BY <1>0, <3>1, LostType DEF TypeOK
  <2> QED BY <1>0, <2>1, <2>2, <2>3
          DEF LedgerInv, QuotaLedger, Uncharged, Balanced, LoopFree, Batching
<1>8. ASSUME NEW c \in Client, SubReport(c) PROVE LedgerInv'
  <2>1. /\ Batching(c) /\ Balanced(req[c].charged)
        /\ \A d \in Client : Batching(d) <=> d = c
        /\ \A d \in Client \ {c} : req[d].charged = 0
    BY <1>8, LedgerBalanced DEF SubReport, Batching, LedgerInv, QuotaLedger, Uncharged
  <2>2. Head(req[c].todo) \in Reports /\ req[c].charged \in Nat
    BY <1>8, <1>0, <1>req, BatchHead DEF SubReport, TypeOK, Requests
  <2>3. CASE Finished(c, Head(req[c].todo), req[c].charged) /\ Release(c)
    <3>1. Balanced(0)'
      BY <1>0, <2>1, <2>2, <2>3, FinishedBalanced
    <3>2. \A d \in Client : ~Batching(d)' /\ req'[d].charged = 0
      BY <1>req, <1>free, <2>1, <2>3 DEF Release, Batching
    <3> QED BY <1>0, <3>1, <3>2, LedgerReleased DEF Uncharged
  <2>4. CASE /\ Charged(Head(req[c].todo))
             /\ UNCHANGED hist
             /\ req' = [req EXCEPT ![c].todo = Tail(req[c].todo),
                                  ![c].charged = @ + Head(req[c].todo).cost]
    <3> DEFINE cost == Head(req[c].todo).cost
    <3>1. cost \in Nat
      BY <2>2, CostAssumption DEF Reports
    <3>2. /\ \A d \in Client : Batching(d)' <=> d = c
          /\ \A d \in Client \ {c} : req'[d].charged = 0
          /\ req'[c].charged = req[c].charged + cost
      <4> HIDE DEF cost
      <4> QED BY <1>req, <2>1, <2>4 DEF Batching, Requests, cost
    <3>3. /\ quota'.day = quota.day + cost /\ quota'.hour = quota.hour + cost
          /\ quota'.project = quota.project + cost
          /\ quota'.day <= DayCap /\ quota'.hour <= HourCap /\ quota'.project <= ProjectCap
      BY <1>0, <2>4, <3>1, ChargedMoves DEF TypeOK
    <3>4. hist'.returned = hist.returned /\ hist'.lost = hist.lost
      BY <1>0, <2>4 DEF TypeOK, Histories
    <3>5. Lost' = Lost /\ hist.returned \in Nat /\ Lost \in Nat
      BY <1>0, <3>4, LostType DEF Lost, TypeOK
    <3>6. /\ quota'.day = quota'.hour /\ quota'.hour = quota'.project
          /\ quota'.project = hist'.returned + Lost' + req'[c].charged
      <4> HIDE DEF cost
      <4>1. quota.day \in Nat /\ quota.hour \in Nat /\ quota.project \in Nat
        BY <1>0 DEF TypeOK, Quotas
      <4> QED BY <2>1, <2>2, <3>1, <3>2, <3>3, <3>4, <3>5, <4>1 DEF Balanced
    <3>7. ~LoopFree'
      BY <3>2 DEF LoopFree, Batching
    <3>8. QuotaLedger'
      BY <3>2, <3>3, <3>6, <3>7 DEF QuotaLedger
    <3> QED BY <1>0, <3>2, <3>8 DEF LedgerInv, Uncharged
  <2> QED BY <1>8, <2>3, <2>4 DEF SubReport
<1>9. CASE Reset
  <2>1. Balanced(0)'
    BY <1>9, CapsAssumption DEF Reset, Balanced, NoQuota, NoHist, Lost, Losses
  <2>2. \A c \in Client : ~Batching(c)' /\ req'[c].charged = 0
    BY <1>9 DEF Reset, LoopFree, Batching, LedgerInv, Uncharged
  <2> QED BY <1>0, <2>1, <2>2, LedgerReleased DEF Uncharged
<1>10. CASE UNCHANGED vars
  BY <1>2, <1>10 DEF vars
<1>11. ASSUME NEW c \in Client, Malformed(c) \/ Disconnect(c) PROVE LedgerInv'
  BY <1>3, <1>11 DEF Malformed, Disconnect
<1>12. ASSUME NEW c \in Client, NEW length \in BadLengths, BatchRefused(c, length)
       PROVE  LedgerInv'
  BY <1>3, <1>12 DEF BatchRefused
<1>13. ASSUME NEW c \in Client, NEW outcome \in Outcomes, Exchange(c, outcome)
       PROVE  LedgerInv'
  BY <1>3, <1>13 DEF Exchange
<1>14. ASSUME NEW c \in Client, NEW cred \in Credentials, NEW prop \in Properties,
              Metadata(c, cred, prop)
       PROVE  LedgerInv'
  BY <1>2, <1>14 DEF Metadata
<1>15. ASSUME Control PROVE LedgerInv'
  BY <1>2, <1>9, <1>15 DEF Control, Inject, Delete, Clear, Advance
<1> QED BY <1>4, <1>5, <1>6, <1>7, <1>8, <1>10, <1>11, <1>12, <1>13, <1>14, <1>15
        DEF Next, Ask, Progress

\* For any number of clients, any caps and any costs: the three buckets agree,
\* none is overdrawn, and every token deducted can be told.
THEOREM LedgerCorrect == Spec => []QuotaLedger
<1>1. LedgerInv => QuotaLedger
  BY DEF LedgerInv
<1> QED BY LedgerInit, LedgerStep, <1>1, PTL DEF Spec

(***************************************************************************)
(* Exhaustion lasts until a reset.                                          *)
(***************************************************************************)
LEMMA OverdrawnGrows ==
  ASSUME NEW q \in Quotas, NEW r \in Quotas, NEW j \in Nat, NEW k \in Nat, k <= j,
         q.day <= r.day, q.hour <= r.hour, q.project <= r.project,
         Overdrawn(q, k) # {}
  PROVE  Overdrawn(r, j) # {}
<1>1. /\ q.day \in Nat /\ q.hour \in Nat /\ q.project \in Nat
      /\ r.day \in Nat /\ r.hour \in Nat /\ r.project \in Nat
      /\ DayCap \in Nat /\ HourCap \in Nat /\ ProjectCap \in Nat
  BY CapsAssumption DEF Quotas
<1>2. q.day + k > DayCap \/ q.hour + k > HourCap \/ q.project + k > ProjectCap
  BY OverdrawnEmpty
<1>3. r.day + j > DayCap \/ r.hour + j > HourCap \/ r.project + j > ProjectCap
  BY <1>1, <1>2
<1> QED BY <1>3, OverdrawnEmpty

\* What every step but a reset does to the buckets and to the costs refused.
Growth ==
  /\ quota.day <= quota'.day /\ quota.hour <= quota'.hour
  /\ quota.project <= quota'.project
  /\ \A k \in hist'.refused : k \in hist.refused \/ (k \in Costs /\ Overdrawn(quota, k) # {})

LEMMA GrowthSuffices ==
  ASSUME TypeOK, TypeOK', ExhaustionSticks, Growth
  PROVE  ExhaustionSticks'
<1> SUFFICES ASSUME NEW k \in hist'.refused, NEW j \in Costs, j >= k
             PROVE  Overdrawn(quota', j) # {}
  BY DEF ExhaustionSticks
<1>1. k \in Costs /\ Overdrawn(quota, k) # {}
  <2>1. hist.refused \subseteq Costs
    BY DEF TypeOK, Histories
  <2>2. k \in Nat /\ k \in Costs
    BY <2>1, CostAssumption DEF Growth
  <2>3. k >= k
    BY <2>2
  <2> QED BY <2>2, <2>3 DEF ExhaustionSticks, Growth
<1>2. j \in Nat /\ k \in Nat /\ quota \in Quotas /\ quota' \in Quotas
  BY <1>1, CostAssumption DEF TypeOK
<1>3. k <= j
  BY <1>2
<1> QED BY <1>1, <1>2, <1>3, OverdrawnGrows DEF Growth

\* A report that ends can only add to the buckets, and to the costs refused
\* only one that the buckets refuse now.
LEMMA FinishedGrows ==
  ASSUME TypeOK, NEW c \in Client, NEW report \in Reports, NEW before \in Nat,
         Finished(c, report, before)
  PROVE  Growth
<1>1. /\ report.cost \in Nat /\ report.cost \in Costs
      /\ quota.day \in Nat /\ quota.hour \in Nat /\ quota.project \in Nat
  BY CostAssumption DEF Reports, TypeOK, Quotas
<1>2. ASSUME NEW l, NEW tokens PROVE Lose(l, tokens).refused = hist.refused
  BY DEF Lose, TypeOK, Histories
<1>3. Charged(report) => /\ quota.day <= quota'.day /\ quota.hour <= quota'.hour
                         /\ quota.project <= quota'.project
  BY <1>1, ChargedMoves DEF TypeOK
<1>4. CASE Invalid(report, before)
  BY <1>1, <1>2, <1>4 DEF Invalid, Growth
<1>5. CASE Refused(report, before)
  <2>1. hist'.refused = hist.refused \cup {report.cost}
    <3>1. "quota" \in Losses
      BY DEF Losses
    <3>2. Lose("quota", before) \in Histories
      BY <3>1, LoseType DEF TypeOK
    <3> QED BY <1>2, <1>5, <3>2 DEF Refused, Histories
  <2> QED BY <1>1, <1>5, <2>1 DEF Refused, Growth
<1>6. CASE Crashed(report, before)
  <2>1. hist'.refused = hist.refused
    BY <1>6 DEF Crashed, Lose, TypeOK, Histories
  <2> QED BY <1>3, <1>6, <2>1 DEF Crashed, Growth
<1>7. CASE Served(report, before)
  <2>1. hist'.refused = hist.refused
    BY <1>7 DEF Served, TypeOK, Histories
  <2> QED BY <1>3, <1>7, <2>1 DEF Served, Growth
<1> QED BY <1>4, <1>5, <1>6, <1>7 DEF Finished

LEMMA ExhaustionStep ==
  TypeOK /\ TypeOK' /\ ExhaustionSticks /\ [Next]_vars => ExhaustionSticks'
<1> SUFFICES ASSUME TypeOK, TypeOK', ExhaustionSticks, [Next]_vars
             PROVE  ExhaustionSticks'
  OBVIOUS
<1>1. Growth => ExhaustionSticks'
  BY GrowthSuffices
<1>2. ASSUME UNCHANGED <<quota, hist>> PROVE ExhaustionSticks'
  BY <1>2 DEF ExhaustionSticks
<1>3. ASSUME NEW c \in Client, Ask(c) \/ Disconnect(c) PROVE ExhaustionSticks'
  BY <1>2, <1>3 DEF Ask, Metadata, Arrive, TokenArrive, Disconnect
<1>4. ASSUME NEW c \in Client, Progress(c) PROVE ExhaustionSticks'
  <2>1. ASSUME NEW report \in Reports, RunReport(c, report) PROVE ExhaustionSticks'
    <3>1. Finished(c, report, 0)
      BY <2>1 DEF RunReport
    <3>2. Growth
      BY <2>1, <3>1, FinishedGrows, 0 \in Nat
    <3> QED BY <1>1, <3>2
  <2>2. CASE SubReport(c)
    <3>1. req[c].todo \in Batches /\ req[c].charged \in Nat
      BY <2>2 DEF SubReport, TypeOK, Requests
    <3>2. Head(req[c].todo) \in Reports
      BY <3>1, BatchHead
    <3>3. CASE Finished(c, Head(req[c].todo), req[c].charged)
      BY <1>1, <3>1, <3>2, <3>3, FinishedGrows
    <3>4. CASE /\ Charged(Head(req[c].todo))
               /\ UNCHANGED hist
      <4>1. hist'.refused = hist.refused
        BY <3>4 DEF TypeOK, Histories
      <4>2. Head(req[c].todo).cost \in Nat /\ quota \in Quotas
        BY <3>2, CostAssumption DEF Reports, TypeOK
      <4>3. quota.day <= quota'.day /\ quota.hour <= quota'.hour /\ quota.project <= quota'.project
        BY <3>4, <4>2, ChargedMoves DEF Quotas
      <4> QED BY <1>1, <4>1, <4>3 DEF Growth
    <3> QED BY <2>2, <3>3, <3>4 DEF SubReport
  <2>3. CASE \/ Malformed(c)
             \/ \E length \in BadLengths : BatchRefused(c, length)
             \/ \E batch \in Batches : BatchAccepted(c, batch)
             \/ \E outcome \in Outcomes : Exchange(c, outcome)
    BY <1>2, <2>3 DEF Malformed, BatchRefused, BatchAccepted, Exchange
  <2> QED BY <1>4, <2>1, <2>2, <2>3 DEF Progress
<1>5. ASSUME Control PROVE ExhaustionSticks'
  <2>1. CASE Reset
    BY <2>1 DEF Reset, NoHist, ExhaustionSticks
  <2> QED BY <1>2, <1>5, <2>1 DEF Control, Inject, Delete, Clear, Advance
<1>6. CASE UNCHANGED vars
  BY <1>2, <1>6 DEF vars
<1> QED BY <1>3, <1>4, <1>5, <1>6 DEF Next

\* For any costs and caps: what was refused for its cost stays refused, and so
\* does everything as dear, until the next reset.
THEOREM ExhaustionIsFinal == Spec => []ExhaustionSticks
<1>1. Init => ExhaustionSticks
  BY DEF Init, NoHist, ExhaustionSticks
<1> QED BY <1>1, TypeInit, TypeStep, ExhaustionStep, PTL DEF Spec

(***************************************************************************)
(* The project bucket runs out first.                                       *)
(***************************************************************************)
\* The project bucket is the narrow one: no report is dear enough to reach
\* another bucket's cap while this one still has room.
Narrow == \A k \in Costs : ProjectCap + k <= HourCap /\ ProjectCap + k <= DayCap

OtherBuckets == {"day", "hour"}

LEMMA NarrowRefusal ==
  ASSUME TypeOK, QuotaLedger, Narrow, NEW k \in Costs
  PROVE  Overdrawn(quota, k) \cap OtherBuckets = {}
<1>1. /\ quota.day \in Nat /\ quota.hour \in Nat /\ quota.project \in Nat /\ k \in Nat
      /\ DayCap \in Nat /\ HourCap \in Nat /\ ProjectCap \in Nat
  BY CapsAssumption, CostAssumption DEF TypeOK, Quotas
<1>2. quota.day + k <= DayCap /\ quota.hour + k <= HourCap
  BY <1>1 DEF QuotaLedger, Narrow
<1> QED BY <1>1, <1>2 DEF Overdrawn, OtherBuckets

LEMMA DenialNames ==
  ASSUME TypeOK, NEW c \in Client, NEW p \in Surface, NEW cred, NEW prop, NEW allowed
  PROVE  Denial(c, p, cred, prop, allowed)
           \subseteq Kinds \cup {"missing", "rejected", "malformed", "forbidden"}
<1>1. Injected(p) \subseteq Kinds
  BY InjectedType DEF TypeOK
<1> QED BY <1>1 DEF Denial, CheckBearer, CheckProperty

LEMMA NarrowStep ==
  LedgerInv /\ TypeOK' /\ ProjectBucketFirst /\ [Next]_vars => ProjectBucketFirst'
<1> SUFFICES ASSUME LedgerInv, TypeOK', ProjectBucketFirst, [Next]_vars, Narrow
             PROVE  \A c \in Client : answer'[c] \notin OtherBuckets
  BY DEF ProjectBucketFirst, Narrow, OtherBuckets
<1>0. /\ TypeOK /\ QuotaLedger /\ answer \in [Client -> Tags]
      /\ \A c \in Client : answer[c] \notin OtherBuckets
  BY DEF LedgerInv, TypeOK, ProjectBucketFirst, Narrow, OtherBuckets
<1>1. ASSUME UNCHANGED answer PROVE \A c \in Client : answer'[c] \notin OtherBuckets
  BY <1>0, <1>1
<1>2. ASSUME NEW c \in Client, NEW tag, tag \notin OtherBuckets, Reply(c, tag)
      PROVE  \A d \in Client : answer'[d] \notin OtherBuckets
  BY <1>0, <1>2 DEF Reply
<1>3. ASSUME NEW c \in Client, NEW report \in Reports, NEW before,
             Finished(c, report, before)
      PROVE  \A d \in Client : answer'[d] \notin OtherBuckets
  <2>1. CASE Refused(report, before)
             /\ \E tag \in Overdrawn(quota, report.cost) : Reply(c, tag)
    <3>1. Overdrawn(quota, report.cost) \cap OtherBuckets = {}
      BY <1>0, <1>3, NarrowRefusal DEF Reports
    <3> QED BY <1>2, <2>1, <3>1
  <2>2. CASE \E tag \in {"request", "crash", "ok"} : Reply(c, tag)
    BY <1>2, <2>2 DEF OtherBuckets
  <2> QED BY <1>3, <2>1, <2>2 DEF Finished
<1>4. ASSUME NEW c \in Client, Ask(c) PROVE \A d \in Client : answer'[d] \notin OtherBuckets
  <2>1. ASSUME NEW tag \in Kinds \cup {"missing", "rejected", "malformed", "forbidden",
                                       "pending", "ok"}
        PROVE  tag \notin OtherBuckets
    BY DEF Kinds, OtherBuckets
  <2>2. ASSUME NEW cred \in Credentials, NEW prop \in Properties,
               Metadata(c, cred, prop)
        PROVE  \A d \in Client : answer'[d] \notin OtherBuckets
    <3>1. Denial(c, "metadata", cred, prop, {"served", "zero"})
            \subseteq Kinds \cup {"missing", "rejected", "malformed", "forbidden"}
      BY <1>0, DenialNames
    <3> QED BY <1>2, <2>1, <2>2, <3>1 DEF Metadata
  <2>3. ASSUME NEW cred \in Credentials, NEW prop \in Properties, NEW p \in Reporting,
               Arrive(c, p, cred, prop)
        PROVE  \A d \in Client : answer'[d] \notin OtherBuckets
    <3>1. Denial(c, p, cred, prop, {"served"})
            \subseteq Kinds \cup {"missing", "rejected", "malformed", "forbidden"}
      BY <1>0, DenialNames
    <3> QED BY <1>2, <2>1, <2>3, <3>1 DEF Arrive
  <2>4. CASE TokenArrive(c)
    <3>1. Injected("token") \subseteq Kinds
      BY <1>0, InjectedType DEF TypeOK
    <3> QED BY <1>2, <2>1, <2>4, <3>1 DEF TokenArrive
  <2> QED BY <1>4, <2>2, <2>3, <2>4 DEF Ask
<1>5. ASSUME NEW c \in Client, Progress(c) PROVE \A d \in Client : answer'[d] \notin OtherBuckets
  <2>1. ASSUME NEW tag \in {"json", "request"} \cup Outcomes PROVE tag \notin OtherBuckets
    BY DEF Outcomes, OtherBuckets
  <2>2. ASSUME NEW report \in Reports, RunReport(c, report)
        PROVE  \A d \in Client : answer'[d] \notin OtherBuckets
    BY <1>3, <2>2 DEF RunReport
  <2>3. CASE SubReport(c)
    <3>1. req[c].todo \in Batches
      BY <1>0, <2>3 DEF SubReport, TypeOK, Requests
    <3>2. Head(req[c].todo) \in Reports
      BY <3>1, BatchHead
    <3> QED BY <1>1, <1>3, <2>3, <3>2 DEF SubReport
  <2>4. CASE \E batch \in Batches : BatchAccepted(c, batch)
    BY <1>1, <2>4 DEF BatchAccepted
  <2>5. CASE \/ Malformed(c)
             \/ \E length \in BadLengths : BatchRefused(c, length)
             \/ \E outcome \in Outcomes : Exchange(c, outcome)
    BY <1>2, <2>1, <2>5 DEF Malformed, BatchRefused, Exchange
  <2> QED BY <1>5, <2>2, <2>3, <2>4, <2>5 DEF Progress
<1>6. ASSUME NEW c \in Client, Disconnect(c)
      PROVE  \A d \in Client : answer'[d] \notin OtherBuckets
  BY <1>2, <1>6 DEF Disconnect, OtherBuckets
<1>7. CASE Control
  BY <1>1, <1>7 DEF Control, Inject, Delete, Clear, Advance, Reset
<1>8. CASE UNCHANGED vars
  BY <1>1, <1>8 DEF vars
<1> QED BY <1>4, <1>5, <1>6, <1>7, <1>8 DEF Next

\* With the caps of the settings (a project cap well below the others) no
\* caller is ever told that the daily or the hourly bucket is exhausted.
THEOREM ProjectFirst == Spec => []ProjectBucketFirst
<1>1. Init => ProjectBucketFirst
  BY DEF Init, ProjectBucketFirst
<1> QED BY <1>1, LedgerInit, LedgerStep, TypeInit, TypeStep, NarrowStep, PTL DEF Spec

(***************************************************************************)
(* Who waits, and with what right.                                          *)
(***************************************************************************)
LEMMA AdmissionStep == TypeOK /\ Admission /\ [Next]_vars => Admission'
<1> SUFFICES ASSUME TypeOK, Admission, [Next]_vars PROVE Admission'
  OBVIOUS
<1>0. /\ req \in [Client -> Requests] /\ answer \in [Client -> Tags]
      /\ bearer \in [Client -> Nat] /\ offset \in Nat
      /\ Free.path = "none" /\ Free.phase = "idle"
  BY DEF TypeOK, Free
<1>1. ASSUME UNCHANGED <<bearer, req, answer>> PROVE Admission'
  BY <1>1 DEF Admission
<1>2. ASSUME NEW c \in Client, NEW tag, tag # "pending", UNCHANGED bearer,
             req' = [req EXCEPT ![c] = Free], Reply(c, tag)
      PROVE  Admission'
  BY <1>0, <1>2 DEF Admission, Reply
<1>3. ASSUME NEW c \in Client, NEW p \in Surface, p \in Reporting => bearer[c] > 0,
             UNCHANGED bearer, Reply(c, "pending"),
             req' = [req EXCEPT ![c] = [Free EXCEPT !.phase = "body", !.path = p]]
      PROVE  Admission'
  <2>1. LET w == [Free EXCEPT !.phase = "body", !.path = p]
        IN  w # Free /\ w.path = p
    BY DEF Free
  <2> QED BY <1>0, <1>3, <2>1 DEF Admission, Reply
<1>4. ASSUME NEW c \in Client, NEW report \in Reports, NEW before,
             Finished(c, report, before), Release(c), UNCHANGED bearer
      PROVE  Admission'
  <2>1. \E tag \in {"request", "day", "hour", "project", "crash", "ok"} : Reply(c, tag)
    BY <1>4 DEF Finished, Overdrawn
  <2> QED BY <1>2, <1>4, <2>1 DEF Release
<1>5. ASSUME NEW c \in Client, Ask(c) PROVE Admission'
  <2>1. ASSUME NEW tag \in Kinds \cup {"missing", "rejected", "malformed", "forbidden", "ok"}
        PROVE  tag # "pending"
    BY DEF Kinds
  <2>2. ASSUME req[c] = Free, UNCHANGED <<bearer, req>>,
               NEW tag, tag # "pending", Reply(c, tag)
        PROVE  Admission'
    <3>1. req' = [req EXCEPT ![c] = Free]
      BY <1>0, <2>2
    <3> QED BY <1>2, <2>2, <3>1
  <2>3. ASSUME NEW cred \in Credentials, NEW prop \in Properties, Metadata(c, cred, prop)
        PROVE  Admission'
    <3>1. Denial(c, "metadata", cred, prop, {"served", "zero"})
            \subseteq Kinds \cup {"missing", "rejected", "malformed", "forbidden"}
      BY DenialNames
    <3> QED BY <2>1, <2>2, <2>3, <3>1 DEF Metadata
  <2>4. ASSUME NEW cred \in Credentials, NEW prop \in Properties, NEW p \in Reporting,
               Arrive(c, p, cred, prop)
        PROVE  Admission'
    <3>1. Denial(c, p, cred, prop, {"served"})
            \subseteq Kinds \cup {"missing", "rejected", "malformed", "forbidden"}
      BY DenialNames
    <3>2. CASE Denial(c, p, cred, prop, {"served"}) = {}
      <4>1. CheckBearer(c, cred) = {}
        BY <3>2 DEF Denial
      <4>2. bearer[c] > 0
        BY <1>0, <4>1 DEF CheckBearer, BearerValid
      <4> QED BY <1>3, <2>4, <3>2, <4>2 DEF Arrive
    <3>3. CASE Denial(c, p, cred, prop, {"served"}) # {}
      BY <2>1, <2>2, <2>4, <3>1, <3>3 DEF Arrive
    <3> QED BY <3>2, <3>3
  <2>5. CASE TokenArrive(c)
    <3>1. Injected("token") \subseteq Kinds
      BY InjectedType DEF TypeOK
    <3>2. "token" \notin Reporting
      OBVIOUS
    <3> QED BY <1>3, <2>1, <2>2, <2>5, <3>1, <3>2 DEF TokenArrive
  <2> QED BY <1>5, <2>3, <2>4, <2>5 DEF Ask
<1>6. ASSUME NEW c \in Client, Progress(c) PROVE Admission'
  <2>1. ASSUME NEW report \in Reports, RunReport(c, report) PROVE Admission'
    BY <1>4, <2>1 DEF RunReport
  <2>2. ASSUME NEW batch \in Batches, BatchAccepted(c, batch) PROVE Admission'
    <3>1. req'[c] # Free /\ req[c] # Free
      BY <1>0, <2>2 DEF BatchAccepted, Free, Requests
    <3>2. \A d \in Client : req'[d].path = req[d].path /\ (d # c => req'[d] = req[d])
      BY <1>0, <2>2 DEF BatchAccepted, Requests
    <3> QED BY <2>2, <3>1, <3>2 DEF BatchAccepted, Admission
  <2>3. CASE SubReport(c)
    <3>1. req[c].todo \in Batches
      BY <2>3 DEF SubReport, TypeOK, Requests
    <3>2. Head(req[c].todo) \in Reports
      BY <3>1, BatchHead
    <3>3. CASE Finished(c, Head(req[c].todo), req[c].charged) /\ Release(c)
      BY <1>4, <2>3, <3>2, <3>3 DEF SubReport
    <3>4. CASE /\ req' = [req EXCEPT ![c].todo = Tail(req[c].todo),
                                     ![c].charged = @ + Head(req[c].todo).cost]
               /\ UNCHANGED answer
      <4>1. req'[c] # Free /\ req[c] # Free
        BY <1>0, <2>3, <3>4 DEF SubReport, Free, Requests
      <4>2. \A d \in Client : req'[d].path = req[d].path /\ (d # c => req'[d] = req[d])
        BY <1>0, <3>4 DEF Requests
      <4> QED BY <2>3, <3>4, <4>1, <4>2 DEF SubReport, Admission
    <3> QED BY <2>3, <3>3, <3>4 DEF SubReport
  <2>4. CASE Malformed(c) \/ \E length \in BadLengths : BatchRefused(c, length)
    BY <1>2, <2>4 DEF Malformed, BatchRefused, Release
  <2>5. ASSUME NEW outcome \in Outcomes, Exchange(c, outcome) PROVE Admission'
    <3>1. outcome # "pending" /\ offset + TTL > 0
      BY <1>0, TimeAssumption DEF Outcomes
    <3>2. \A d \in Client : bearer[d] > 0 => bearer'[d] > 0
      BY <1>0, <2>5, <3>1 DEF Exchange
    <3> QED BY <1>0, <2>5, <3>1, <3>2 DEF Exchange, Release, Reply, Admission
  <2> QED BY <1>6, <2>1, <2>2, <2>3, <2>4, <2>5 DEF Progress
<1>7. ASSUME NEW c \in Client, Disconnect(c) PROVE Admission'
  BY <1>2, <1>7 DEF Disconnect, Release
<1>8. CASE Control
  BY <1>1, <1>8 DEF Control, Inject, Delete, Clear, Advance, Reset
<1>9. CASE UNCHANGED vars
  BY <1>1, <1>9 DEF vars
<1> QED BY <1>5, <1>6, <1>7, <1>8, <1>9 DEF Next

\* No body of a report is read for a caller without a token, and no caller
\* that waits has been forgotten.
THEOREM AdmissionHolds == Spec => []Admission
<1>1. Init => Admission
  BY DEF Init, Admission, Free
<1> QED BY <1>1, TypeInit, TypeStep, AdmissionStep, PTL DEF Spec
=============================================================================
