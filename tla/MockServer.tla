----------------------------- MODULE MockServer -----------------------------
(***************************************************************************)
(* The server as its event loop sees it: requests of several clients, each  *)
(* cut in two by the await of its body, over the state that every handler   *)
(* shares (injection rules, request counts, attested bodies, quota buckets, *)
(* virtual clock, bearers), with the control plane in between.              *)
(*                                                                          *)
(* Between two awaits an `async def' handler is alone on the loop, so such  *)
(* a stretch is one action; the sub-reports of a batch are actions of their *)
(* own that hold the loop.  The switch points inside the injection engine   *)
(* are the subject of InjectionEngine; here its operations are atomic.      *)
(***************************************************************************)
EXTENDS Integers, Sequences, FiniteSets

CONSTANTS
  Client,          \* the callers
  Persistent, Unset, RateLimitAfter,   \* as in Rules
  Templates,       \* what POST /__admin/inject may ask for
  DayCap, HourCap, ProjectCap,         \* settings.quota_tokens_per_*
  Costs,           \* the token costs of the reports asked for
  BatchLimit,      \* sub-reports of a batch: 5 in app.py
  TTL,             \* BEARER_TTL_SECONDS
  Advances,        \* what POST /__admin/clock may ask for
  MaxTime,         \* bound: virtual time reached between two resets
  MaxRules,        \* bound: rule ids ever handed out
  MaxCount,        \* bound: MaxCount[p] requests of path p between two resets
  Credentials,     \* what callers put in the Authorization header
  Properties       \* the property ids they ask for

ASSUME CapsAssumption  == DayCap \in Nat /\ HourCap \in Nat /\ ProjectCap \in Nat
ASSUME CostAssumption  == Costs \subseteq Nat \ {0}
ASSUME TimeAssumption  == TTL \in Nat \ {0} /\ Advances \subseteq Nat
ASSUME BatchAssumption == BatchLimit \in Nat
ASSUME CallAssumption  ==
  /\ Credentials \subseteq {"absent", "forged", "held"}
  /\ Properties \subseteq {"served", "zero", "other", "malformed"}

Reporting == {"runReport", "batchRunReports"}
Surface   == Reporting \cup {"metadata", "token"}

ASSUME RateAssumption  ==
  /\ Persistent \notin Int
  /\ RateLimitAfter \in Nat \cup {Unset} /\ Unset \notin Nat
ASSUME TemplateAssumption ==
  Templates \subseteq
    [kind : {"rate_limit", "status", "latency", "auth_reject", "quota_exhausted"},
     scope : SUBSET Surface, times : Int \cup {Persistent}, after : Nat]
ASSUME CountAssumption == MaxCount \in [Surface -> Nat]

INSTANCE Rules WITH Path <- Surface, DataPaths <- Surface \ {"token"}

VARIABLES
  book,      \* engine.rules
  nextId,    \* engine._ids
  counts,    \* engine.request_counts
  last,      \* engine.last_request_by_path
  quota,     \* state.quota_*_consumed
  offset,    \* clock.offset_seconds: virtual time since the anchor
  bearer,    \* bearer[c] : expiry of the token client c holds, 0 for none
  req,       \* req[c]    : the handler serving c
  answer,    \* answer[c] : what c was last answered
  hist       \* where the tokens went, which costs were refused

engine == <<book, nextId, counts, last>>
vars   == <<book, nextId, counts, last, quota, offset, bearer, req, answer, hist>>

(***************************************************************************)
(* Values                                                                   *)
(***************************************************************************)
\* A report body: invalid (validate raises RequestError), served, or valid
\* and then raising an exception that the handlers do not translate.
Reports == [verdict : {"invalid", "served", "crash"}, cost : Costs]

\* Mutant: an empty list of sub-requests is accepted.
BatchesOrNone == UNION {[1 .. n -> Reports] : n \in 0 .. BatchLimit}

\* The lists of sub-requests a batch may hold, and the lengths it may not.
Batches    == UNION {[1 .. n -> Reports] : n \in 1 .. BatchLimit}
NoList     == -1
BadLengths == {NoList, 0, BatchLimit + 1}

Nothing == "nothing"     \* no body attested for a path

\* Where a charged token can end other than in an answered report.
Losses == {"invalid", "quota", "crash"}

Free == [phase |-> "idle", path |-> "none", todo |-> <<>>, charged |-> 0]

NoQuota == [day |-> 0, hour |-> 0, project |-> 0]

NoHist == [returned |-> 0, lost |-> [l \in Losses |-> 0], refused |-> {}]

(***************************************************************************)
(* _preprocess: observe and evaluate, before authentication.                *)
(***************************************************************************)
Number(p) == counts[p] + 1

Preprocess(p) ==
  /\ counts[p] < MaxCount[p]
  /\ counts' = [counts EXCEPT ![p] = Number(p)]
  /\ book'   = Consume(book, Consumed(book, p, Number(p)))
  /\ UNCHANGED <<nextId, last>>

\* The kinds of the rules that answer in the handler's place: at most one.
Injected(p) == {r.kind : r \in Answering(book, p, Number(p))}

(***************************************************************************)
(* _check_bearer and _check_property                                        *)
(***************************************************************************)
BearerValid(c) == bearer[c] > offset

\* Mutant: any header will do.
CheckBearerPresent(c, cred) == IF cred = "absent" THEN {"missing"} ELSE {}

CheckBearer(c, cred) ==
  CASE cred = "absent"                   -> {"missing"}
    [] cred = "held" /\ BearerValid(c)   -> {}
    [] OTHER                             -> {"rejected"}

CheckProperty(prop, allowed) ==
  IF prop = "malformed" THEN {"malformed"}
  ELSE IF prop \in allowed THEN {}
  ELSE {"forbidden"}

\* The first check that refuses, or nothing.
Denial(c, p, cred, prop, allowed) ==
  IF Injected(p) # {} THEN Injected(p)
  ELSE IF CheckBearer(c, cred) # {} THEN CheckBearer(c, cred)
  ELSE CheckProperty(prop, allowed)

LoopFree == \A c \in Client : req[c].phase # "batch"

Reply(c, tag) == answer' = [answer EXCEPT ![c] = tag]
Release(c)    == req' = [req EXCEPT ![c] = Free]

(***************************************************************************)
(* run_report and batch_run_reports, up to the await of the body.           *)
(***************************************************************************)
Arrive(c, p, cred, prop) ==
  LET denial == Denial(c, p, cred, prop, {"served"})
  IN  /\ LoopFree /\ req[c] = Free
      /\ Preprocess(p)
      /\ \/ \E tag \in denial : Reply(c, tag) /\ UNCHANGED req
         \/ /\ denial = {}
            /\ req' = [req EXCEPT ![c] = [Free EXCEPT !.phase = "body", !.path = p]]
            /\ Reply(c, "pending")
      /\ UNCHANGED <<quota, offset, bearer, hist>>

\* The client goes away before its body has come: the request was counted,
\* and nothing else happens.
Disconnect(c) ==
  /\ LoopFree /\ req[c].phase = "body"
  /\ Release(c) /\ Reply(c, "gone")
  /\ UNCHANGED <<engine, quota, offset, bearer, hist>>

(***************************************************************************)
(* consume_quota: the three tests in order, then the three deductions.      *)
(***************************************************************************)
\* Mutant: the third test raises the message of the second.
OverdrawnMislabelled(q, cost) ==
  IF q.day + cost > DayCap THEN {"day"}
  ELSE IF q.hour + cost > HourCap THEN {"hour"}
  ELSE IF q.project + cost > ProjectCap THEN {"hour"}
  ELSE {}

Overdrawn(q, cost) ==
  IF q.day + cost > DayCap THEN {"day"}
  ELSE IF q.hour + cost > HourCap THEN {"hour"}
  ELSE IF q.project + cost > ProjectCap THEN {"project"}
  ELSE {}

\* Mutant: the hourly bucket is forgotten.
ChargeTwoBuckets(cost) == quota' = [quota EXCEPT !.day = @ + cost, !.project = @ + cost]

Charge(cost) == quota' = [day     |-> quota.day + cost,
                          hour    |-> quota.hour + cost,
                          project |-> quota.project + cost]

(***************************************************************************)
(* execute_run_report as the handlers see it: an answer for the caller,     *)
(* given the tokens `before' charged by earlier sub-reports of the request. *)
(***************************************************************************)
Lose(l, tokens) == [hist EXCEPT !.lost[l] = @ + tokens]

\* An invalid report is refused before it costs anything.
Invalid(report, before) ==
  /\ report.verdict = "invalid"
  /\ hist' = Lose("invalid", before)
  /\ UNCHANGED quota

\* Mutant: what the batch has paid so far is given back on a refusal.
RefusedRefunding(report, before) ==
  /\ report.verdict # "invalid" /\ Overdrawn(quota, report.cost) # {}
  /\ hist' = [hist EXCEPT !.refused = @ \cup {report.cost}]
  /\ quota' = [day     |-> quota.day - before, hour |-> quota.hour - before,
               project |-> quota.project - before]

Refused(report, before) ==
  /\ report.verdict # "invalid" /\ Overdrawn(quota, report.cost) # {}
  /\ hist' = [Lose("quota", before) EXCEPT !.refused = @ \cup {report.cost}]
  /\ UNCHANGED quota

Charged(report) ==
  /\ report.verdict # "invalid" /\ Overdrawn(quota, report.cost) = {}
  /\ Charge(report.cost)

Crashed(report, before) ==
  /\ report.verdict = "crash" /\ Charged(report)
  /\ hist' = Lose("crash", before + report.cost)

\* The last report of the request: its tokens have bought an answer.
Served(report, before) ==
  /\ report.verdict = "served" /\ Charged(report)
  /\ hist' = [hist EXCEPT !.returned = @ + before + report.cost]

\* An answer that ends the handler, and the tag the caller sees.
Finished(c, report, before) ==
  \/ Invalid(report, before) /\ Reply(c, "request")
  \/ Refused(report, before) /\ \E tag \in Overdrawn(quota, report.cost) : Reply(c, tag)
  \/ Crashed(report, before) /\ Reply(c, "crash")
  \/ Served(report, before)  /\ Reply(c, "ok")

(***************************************************************************)
(* run_report and batch_run_reports once the body is there.                 *)
(***************************************************************************)
Attest(p, body) == last' = [last EXCEPT ![p] = body]

Malformed(c) ==
  /\ LoopFree /\ req[c].phase = "body" /\ req[c].path \in Reporting
  /\ Release(c) /\ Reply(c, "json")
  /\ UNCHANGED <<engine, quota, offset, bearer, hist>>

RunReport(c, report) ==
  /\ LoopFree /\ req[c].phase = "body" /\ req[c].path = "runReport"
  /\ Attest("runReport", "body")
  /\ Finished(c, report, 0)
  /\ Release(c)
  /\ UNCHANGED <<book, nextId, counts, offset, bearer>>

\* `requests' is not a list, an empty one or one that is too long: 400.  Any
\* list is attested before it is refused.
BatchRefused(c, length) ==
  /\ LoopFree /\ req[c].phase = "body" /\ req[c].path = "batchRunReports"
  /\ length \in BadLengths
  /\ IF length = NoList THEN UNCHANGED last ELSE Attest("batchRunReports", "body")
  /\ Release(c) /\ Reply(c, "request")
  /\ UNCHANGED <<book, nextId, counts, quota, offset, bearer, hist>>

\* The handler now runs the sub-reports without giving up the loop.
BatchAccepted(c, batch) ==
  /\ LoopFree /\ req[c].phase = "body" /\ req[c].path = "batchRunReports"
  /\ batch \in Batches
  /\ Attest("batchRunReports", "body")
  /\ req' = [req EXCEPT ![c].phase = "batch", ![c].todo = batch]
  /\ UNCHANGED <<book, nextId, counts, quota, offset, bearer, answer, hist>>

\* Mutant: a sub-report that fails is tried again instead of ending the batch.
SubReportRetried(c) ==
  LET report == Head(req[c].todo)
      rest   == Tail(req[c].todo)
  IN  /\ req[c].phase = "batch"
      /\ Charged(report)
      /\ \/ /\ report.verdict = "served" /\ rest # <<>>
            /\ req'  = [req EXCEPT ![c].todo = rest, ![c].charged = @ + report.cost]
            /\ UNCHANGED <<answer, hist>>
         \/ /\ report.verdict = "served" => rest = <<>>
            /\ Finished(c, report, req[c].charged)
            /\ Release(c)
      /\ UNCHANGED <<engine, offset, bearer>>

SubReport(c) ==
  LET report == Head(req[c].todo)
      rest   == Tail(req[c].todo)
  IN  /\ req[c].phase = "batch"
      /\ \/ /\ report.verdict = "served" /\ rest # <<>>
            /\ Charged(report)
            /\ req'  = [req EXCEPT ![c].todo = rest, ![c].charged = @ + report.cost]
            /\ UNCHANGED <<answer, hist>>
         \/ /\ report.verdict = "served" => rest = <<>> \/ Overdrawn(quota, report.cost) # {}
            /\ Finished(c, report, req[c].charged)
            /\ Release(c)
      /\ UNCHANGED <<engine, offset, bearer>>

(***************************************************************************)
(* token: preprocess, await the form, then the grant and the assertion.     *)
(* The outcomes stand for an unsupported grant type, a rejected assertion,  *)
(* an assertion with an unrecognised scope and one that earns a bearer.     *)
(***************************************************************************)
Outcomes == {"grant", "assertion", "identity", "access"}

TokenArrive(c) ==
  /\ LoopFree /\ req[c] = Free
  /\ Preprocess("token")
  /\ \/ \E tag \in Injected("token") : Reply(c, tag) /\ UNCHANGED req
     \/ /\ Injected("token") = {}
        /\ req' = [req EXCEPT ![c] = [Free EXCEPT !.phase = "body", !.path = "token"]]
        /\ Reply(c, "pending")
  /\ UNCHANGED <<quota, offset, bearer, hist>>

\* Mutant: the expiry ignores the virtual clock.
ExchangeAtAnchor(c, outcome) ==
  /\ LoopFree /\ req[c].phase = "body" /\ req[c].path = "token"
  /\ bearer' = IF outcome = "access" THEN [bearer EXCEPT ![c] = TTL] ELSE bearer
  /\ Release(c) /\ Reply(c, outcome)
  /\ UNCHANGED <<engine, quota, offset, hist>>

\* The expiry counts from the moment the form is read, not from the request.
Exchange(c, outcome) ==
  /\ LoopFree /\ req[c].phase = "body" /\ req[c].path = "token"
  /\ bearer' = IF outcome = "access" THEN [bearer EXCEPT ![c] = offset + TTL] ELSE bearer
  /\ Release(c) /\ Reply(c, outcome)
  /\ UNCHANGED <<engine, quota, offset, hist>>

(***************************************************************************)
(* metadata: a `def' handler, on the pool; it does not wait for the loop.   *)
(***************************************************************************)
Metadata(c, cred, prop) ==
  LET denial == Denial(c, "metadata", cred, prop, {"served", "zero"})
  IN  /\ req[c] = Free
      /\ Preprocess("metadata")
      /\ \E tag \in IF denial = {} THEN {"ok"} ELSE denial : Reply(c, tag)
      /\ UNCHANGED <<quota, offset, bearer, req, hist>>

(***************************************************************************)
(* The control plane.  Requests that fail its guard or its validation       *)
(* change nothing and are left out.                                         *)
(***************************************************************************)
Inject(t) ==
  /\ LoopFree /\ nextId <= MaxRules
  /\ book'   = book \cup {[id |-> nextId, kind |-> t.kind, scope |-> t.scope,
                           times |-> t.times, after |-> t.after]}
  /\ nextId' = nextId + 1
  /\ UNCHANGED <<counts, last, quota, offset, bearer, req, answer, hist>>

Delete(id) ==
  /\ book' = {r \in book : r.id # id}
  /\ UNCHANGED <<nextId, counts, last, quota, offset, bearer, req, answer, hist>>

Clear ==
  /\ book' = {}
  /\ UNCHANGED <<nextId, counts, last, quota, offset, bearer, req, answer, hist>>

Advance(d) ==
  /\ LoopFree /\ offset + d <= MaxTime
  /\ offset' = offset + d
  /\ UNCHANGED <<engine, quota, bearer, req, answer, hist>>

\* MockState.reset.  Bearers are not part of the state, and a request whose
\* body is still awaited goes on.
Reset ==
  /\ LoopFree
  /\ Baseline(nextId) # {} => nextId <= MaxRules
  /\ book'   = Baseline(nextId)
  /\ nextId' = IF Baseline(nextId) = {} THEN nextId ELSE nextId + 1
  /\ counts' = [p \in Surface |-> 0]
  /\ last'   = [p \in Reporting |-> Nothing]
  /\ quota'  = NoQuota
  /\ offset' = 0
  /\ hist'   = NoHist
  /\ UNCHANGED <<bearer, req, answer>>

(***************************************************************************)
(* Specification                                                            *)
(***************************************************************************)
Init ==
  /\ book   = Baseline(1)
  /\ nextId = IF Baseline(1) = {} THEN 1 ELSE 2
  /\ counts = [p \in Surface |-> 0]
  /\ last   = [p \in Reporting |-> Nothing]
  /\ quota  = NoQuota
  /\ offset = 0
  /\ bearer = [c \in Client |-> 0]
  /\ req    = [c \in Client |-> Free]
  /\ answer = [c \in Client |-> "none"]
  /\ hist   = NoHist

Ask(c) ==
  \/ \E cred \in Credentials, prop \in Properties :
       Metadata(c, cred, prop) \/ \E p \in Reporting : Arrive(c, p, cred, prop)
  \/ TokenArrive(c)

\* A request whose body has come, or a batch in progress, goes on.
Progress(c) ==
  \/ Malformed(c)
  \/ \E report \in Reports : RunReport(c, report)
  \/ \E length \in BadLengths : BatchRefused(c, length)
  \/ \E batch \in Batches : BatchAccepted(c, batch)
  \/ SubReport(c)
  \/ \E outcome \in Outcomes : Exchange(c, outcome)

Control ==
  \/ \E t \in Templates : Inject(t)
  \/ \E id \in 1 .. MaxRules : Delete(id)
  \/ Clear
  \/ \E d \in Advances : Advance(d)
  \/ Reset

Next ==
  \/ \E c \in Client : Ask(c) \/ Progress(c) \/ Disconnect(c)
  \/ Control

Spec == Init /\ [][Next]_vars

(***************************************************************************)
(* Properties                                                               *)
(***************************************************************************)
Tags == {"none", "pending", "gone", "missing", "rejected", "malformed", "forbidden",
         "json", "request", "day", "hour", "project", "crash", "ok"}
          \cup Kinds \cup Outcomes

Requests == [phase : {"idle", "body", "batch"}, path : Surface \cup {"none"},
             todo : {<<>>} \cup Batches, charged : Nat]

Quotas == [day : Nat, hour : Nat, project : Nat]

Histories == [returned : Nat, lost : [Losses -> Nat], refused : SUBSET Costs]

TypeOK ==
  /\ book \subseteq Rule /\ nextId \in Nat \ {0}
  /\ counts \in [Surface -> Nat]
  /\ last \in [Reporting -> {Nothing, "body"}]
  /\ quota \in Quotas
  /\ offset \in Nat
  /\ bearer \in [Client -> Nat]
  /\ req \in [Client -> Requests]
  /\ \A c \in Client : req[c].phase = "batch" => req[c].todo # <<>>
  /\ answer \in [Client -> Tags]
  /\ hist \in Histories

\* The tokens of losses.
Lost == hist.lost["invalid"] + hist.lost["quota"] + hist.lost["crash"]

Batching(c) == req[c].phase = "batch"

\* Every token deducted since the reset can be told: it bought an answered
\* report, it was lost to a request that failed after paying, or the batch
\* now on the loop has it.  The three buckets always stand at that sum and
\* none is overdrawn (state.py, consume_quota; app.py, _execute_batch).
QuotaLedger ==
  /\ quota.day = quota.hour /\ quota.hour = quota.project
  /\ quota.day <= DayCap /\ quota.hour <= HourCap /\ quota.project <= ProjectCap
  /\ \A c, d \in Client : Batching(c) /\ Batching(d) => c = d
  /\ LoopFree => quota.project = hist.returned + Lost
  /\ \A c \in Client : Batching(c) => quota.project = hist.returned + Lost + req[c].charged

\* Only a batch on the loop has tokens charged and not yet accounted for.
Uncharged == \A c \in Client : ~Batching(c) => req[c].charged = 0

\* The ledger is inductive together with these.
LedgerInv == TypeOK /\ QuotaLedger /\ Uncharged

\* When a report can cost no more than what separates the project bucket from
\* the other two, no caller is ever told that another bucket is exhausted
\* (state.py:44-46, "the FIRST to run out").
ProjectBucketFirst ==
  (\A k \in Costs : ProjectCap + k <= HourCap /\ ProjectCap + k <= DayCap)
    => \A c \in Client : answer[c] \notin {"day", "hour"}

\* Once a report has been refused for its cost, every report that costs as
\* much is refused until a reset: no tokens come back in between.
ExhaustionSticks ==
  \A k \in hist.refused : \A j \in Costs : j >= k => Overdrawn(quota, j) # {}

\* A report or a batch is only ever under way for a caller that has been
\* given a token: neither a forged nor a missing one, nor an identity token,
\* gets past _check_bearer, and whoever waits is still owed an answer.
Admission ==
  \A c \in Client :
    /\ req[c].path \in Reporting => bearer[c] > 0
    /\ (req[c] # Free) <=> (answer[c] = "pending")

(***************************************************************************)
(* Fairness: bodies arrive, and the loop runs what can go on.               *)
(***************************************************************************)
FairSpec == Spec /\ \A c \in Client : SF_vars(Progress(c))

\* No request is left hanging, whatever the control plane does meanwhile and
\* although a batch keeps every other handler off the loop.
Answered == \A c \in Client : answer[c] = "pending" ~> answer[c] # "pending"
=============================================================================
