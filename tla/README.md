# A verification development for ga-mock

`ga-mock` imitates the Google Analytics Data API (v1beta) and the OAuth2 token
endpoint so that consumers can be tested against it, failures included. This
directory models the server's state and its handlers in TLA+, checks them with
TLC on small instances and proves the central invariants with TLAPS for every
value of the constants. Paths below are relative to the repository; `injection.py`
and the like stand for `src/ga_mock/injection.py`.

## 1. Inventory

| Component | State | Operations | What makes it correct |
|---|---|---|---|
| Injection engine (`injection.py`) | list of rules, id counter, request counts, last body per path | observe, evaluate (consume, remove), add, remove, clear, reset, record_body | transient rules fire as often as granted; order of kinds and of ids; the environment's baseline survives; counts are exact |
| Data handlers and `/token` (`app.py`) | none of their own: one activation per request | run_report, batch_run_reports, metadata, token | checks in order, before the body; every request is answered; nobody without a bearer gets through |
| Quota and reset (`state.py`) | three buckets, day cache, seed | consume_quota, reset, day, visible_sessions | buckets agree, none is overdrawn, refusals are stable; days grow monotonically |
| Control plane (`admin.py`) | none | reset, inject, delete, clear, clock, state | each operation changes exactly its part |
| Bearers and assertions (`auth.py`) | none: expiry is inside the token | validate_assertion, token_response, issue_bearer, bearer_valid | a bearer lives for its TTL; checks in the recorded order |
| Virtual clock (`clock.py`) | offset | advance, virtual_now, resolve_date | never goes back but on reset; relative dates follow it |
| Report pipeline (`report.py`, `filters.py`, `registry.py`) | none | validate, token_cost, collect, order, serialize | invalid reports cost nothing; pages partition the rows; totals agree |
| Session generator (`dataset/sessions.py`) | none | build_day, ... | a pure function of (seed, day) |
| Settings (`settings.py`) | environment values | reload | defaults below the environment |
| Errors, routing, models, contract export | none | formatting | two dialects, never mixed |
| RSA and keys, scripts, packaging | none | | |

How they meet. A request of the data surface runs `_preprocess` (count, then
evaluate the injected rules), the bearer check, the property check, awaits its
body, records it, and runs `execute_run_report` (validate, cost, charge the
buckets, compute). `/token` stops after `_preprocess`, awaits its form, and may
issue a bearer stamped with the virtual clock. The control plane changes rules,
clock and state under the requests in flight. All of it is module-level
singletons without locks.

What is hard:

* **Two kinds of handlers.** `async def` handlers share the event loop and are
  atomic between awaits; `metadata`, `DELETE /__admin/inject/{id}`,
  `POST /__admin/inject/clear` and `GET /__admin/state` are `def` handlers and run
  on pool threads, in the same unlocked `InjectionEngine`.
* **The await of the body** separates the checks from what they protect.
* **A batch** charges as it goes and holds the loop meanwhile.
* **reset** turns the clock back and touches everything but what clients hold.
* **Retries** meet transient rules, rate limits and expired bearers.
* **Two clocks.** An assertion may be signed by the mock's clock or the real one,
  however far apart they are; bearers outlive the process that issued them.
* **Recent days grow** as sessions come out of their processing lag, while the
  local offset changes with the month and a consumer re-extracts a window.
* **Fan-outs.** A session counts once in a group although it enters it once per
  page or event; totals count it once over all groups.
* **A report is charged before it is computed**, so what validation lets through
  must not fail afterwards.
* **Stable sorts and pages** have to combine into one order that a client can follow.

`PROJECT.json` lists the hazards line by line with the properties that would
catch them.

## 2. Modules

| Module | Models | Role |
|---|---|---|
| `Rules` | the pure part of `evaluate`, `_consume` and `reset` | operators shared by the others |
| `RuleBook` | the engine, one atomic step per operation | abstract specification |
| `InjectionEngine` | the engine between switch points of the interpreter | detailed specification |
| `SequentialEngine` | `InjectionEngine`, one operation at a time | refinement of `RuleBook` |
| `MockServer` | handlers, quota, clock, bearers, control plane | composition on the event loop |
| `RetryingClient` | a consumer that renews and repeats, on `MockServer` | end-to-end liveness |
| `Freshness` | clock, offsets, day cache, visibility | component |
| `IncrementalConsumer` | a pipeline that re-extracts a window, on `Freshness` | composition with an external consumer |
| `GrowingArchive` | what such a pipeline is promised | abstract specification |
| `TokenEndpoint` | assertions, tokens, restarts | component |
| `SessionGenerator` | `build_day`, session by session | component |
| `Registry`, `Filters` | accumulator, metrics, dimensions; filter expressions | operators |
| `Report` | `execute_run_report` on what `SessionGenerator` has drawn | composition |
| `ReportProperties` | | reference definitions and properties of reports |
| `MockServer_proofs`, `RetryingClient_proofs`, `InjectionEngine_proofs`, `RuleBook_proofs`, `SequentialEngine_proofs`, `IncrementalConsumer_proofs` (with those of `Freshness`), `TokenEndpoint_proofs`, `Report_proofs` | | theorems |
| `MC...` | | constants for TLC |

Some definitions have a variant just before them, introduced as *mutant*: a
plausible slip in the code it stands for. No specification uses it; `PROJECT.json`
pairs each with a property that must notice it when it takes the place of the
original.

### Rules and RuleBook

A rule keeps its id, kind, scope, `times` and `after_requests`. A glob is the set
of paths it matches. `Answering(book, p, n)` is the rule that answers request
number `n` of path `p` (at most one: the first of the first kind that applies),
`Delaying` the latency rules consumed before it. `Consume` drops a transient rule
with its last firing. `Baseline` is the rule of `GA_MOCK_RATE_LIMIT_AFTER`.
`RuleBook` adds the counts and a history (`granted`, `fired`, `passed`) that the
properties speak about.

### InjectionEngine

CPython (3.12 and later) switches threads at calls, at the entry of functions and
at the back edges of loops; a step is what runs between two such points. So
`observe` is a read (`Call`) and a store (`Store`); `active` is built element by
element (`Scan`); `_consume` decrements and compares in one step (`ConsumeStep`)
and `remove` builds its list element by element before it binds it
(`RemoveStep`). List objects matter: `append` and `clear` change the current one,
`remove` binds a new one, and a frame that iterates the old object goes on
reading it. A frame whose source is `Live` reads the current list; `Rebind`
gives the others the object they hold.

The five loops of `evaluate` read `active` again and again, one kind at a time. A
frame holds `active` as the scan left it and the position `at` of the rule in
turn; `Comes` is the order in which the loops reach the positions (by kind, then
as in the list), and `Ahead` what they have yet to reach. `Judge` moves to the
next of these: past a rate limit that is not exceeded, else into `ConsumeStep`.

`Loop` is the event loop (reset, inject, run_report), `Workers` the pool.
`WorkerOps` says which handlers the pool is asked to run.

### MockServer

| State | Code |
|---|---|
| `book`, `nextId`, `counts`, `last` | `engine.rules`, `_ids`, `request_counts`, `last_request_by_path` |
| `quota` | `state.quota_*_consumed` |
| `offset` | `clock.offset_seconds` |
| `bearer[c]` | the expiry inside the token client `c` holds |
| `req[c]` | the handler serving `c`: idle, awaiting its body, or a batch on the loop |
| `answer[c]` | what `c` was last told |
| `hist` | history: where the tokens went, and which costs were refused |

`Arrive` is `run_report` and `batch_run_reports` up to the await of the body;
`RunReport`, `Malformed`, `BatchRefused` and `BatchAccepted` what follows it;
`SubReport` one turn of the loop of `_execute_batch`, during which no other
`async def` handler runs (`LoopFree`) while `def` handlers do. A report is
invalid, served, or valid and then raising an exception that no handler
translates (`crash`: a 500 after the charge). `Disconnect` is a client that goes
away before its body has come. The engine's operations are atomic here; their
switch points are `InjectionEngine`'s subject.

### RetryingClient

The client asks for a token, then for one report, renews on 401 and repeats on
anything else, while a test injects transient rules, deletes or clears them and
advances the clock a bounded number of times.

### Freshness, IncrementalConsumer, GrowingArchive

| State | Code |
|---|---|
| `seed`, `days` | `state.seed`, `state._days` |
| `offset` | `clock.offset_seconds` |
| `store`, `last` | the consumer's table, and the local day it last extracted on |

Time is counted in ticks of UTC. `ParisOffset` is the month rule of `clock.py`;
the clock applies it to the current instant, a session to its own date, and the
two disagree around a change of offset. A session is a date, a local time and a
processing lag. `Read` is what a report does to the cache; `Advance` stores the
offset before it computes the answer, so that a jump past the end of time stays
(`Broken`: nothing but a reset works from then on). What the generator draws for
a seed and a day is the constant `Traffic`.

`Extract` reads the days of the window and merges them, `Dashboard` is any other
reader, `Age` an advance that lets no local day go by without an extraction,
`Restart` a reset by the test. In `GrowingArchive` an archive holds sessions of
one world only, only grows, and a day once sealed is complete and not written
again; `ImplementsArchive` maps the days that left the window to the sealed ones.

### TokenEndpoint

State: the account configured, the number of processes started, the mock's
offset, the real clock, and the tokens that clients hold. `Checks` are those of
`validate_assertion` in their order, each with the error it raises; `Verdict` is
the first that fails. An assertion is a record of what the checks look at: flaws
of form, header and signature, two stamps that may be numbers, digits or
something else, scopes and audience. `Presented` are honest assertions and those
with one deviation. `TokenResponse` keeps the claims a token was given for, so
that properties can compare them with what it opens.

### SessionGenerator and Report

`SessionGenerator` builds the days in order: `OpenDay` settles the volume of a day
and what campaigns add to it, `AddNew` and `AddReturning` add a session. A draw is
a choice over what it can come to. `planned` is `planned_new`, which other days
consult to pick a returning visitor. In the code a day is built when it is first
asked for; as `build_day` depends on the seed and the day alone, and asks other
days for `planned_new` only, the order makes no difference.

`Report` takes a body through `validate` (`Checks`, in the service's order),
`TokenCost`, the quota, and `AllRows`, `Having`, `Ordered`, `Aggregates`, `Page`.
The four ways it can end are the actions `Refuse` (400, or 500 if an exception
escapes validation), `OverQuota`, `Fail` (charged, then an exception) and `Serve`.
`Registry` has the accumulator and the metrics as multiples of `1 / Scale`;
`Filters` the tree of a filter, what is refused of it or cannot be read, and what it accepts. A tree
is the list of its nodes, which refer to others by their places, so that the
recursion of `compile_filter` is a function of the place. `Picked` is the list of
the members at some places, the code's loops that skip some. Strings
are compared by the ranks that the constants `Text` and `Folded` give them; `Words`
are those that may get into a row. `StableSort` is an insertion sort, one member at a
time from the left: what Python's sort promises, written so that it can be
reasoned about. In a body an absent list is empty, and one that is no list has one
ill-typed entry.

`ReportProperties` holds a second definition of what is checked: groups by sets
instead of an accumulator, lexicographic order instead of a sequence of sorts, and
filters as sets instead of predicates: sets of *moments*, the pages of the world's
sessions with each of their events, which know nothing of what a report fans out
into. `FilterIsSetAlgebra` compares these with the units counted. `OrderIsLexicographic` includes
the ties: rows that no criterion tells apart come as their groups were found.
`TotalsBracketed` holds of two ranges of one name too, which share their rows and
their totals.

## 3. Runs

| Run | Shows | Instance |
|---|---|---|
| `sequential_engine` | the list surgery implements `RuleBook`; the baseline limit holds | one operation at a time, two paths, six templates of all kinds, four rules, five operations |
| `engine_threads` | lists keep the order of ids, loop counts exact, every operation ends | loop and two workers, every pool operation, three rules, four operations, weak fairness of threads |
| `engine_discipline` | budgets, no rule lost, none resurrected, when transient rules stay on loop paths and the pool only serves metadata | loop and two workers, three rules, five operations |
| `server_quota` | ledger, project bucket first, refusals are final, nobody without a bearer gets that far | two clients, any header and property, each path once between resets, costs 1 and 2, batches of up to 2, caps 9/5/3 |
| `server_answers` | every request is answered | two clients, batches of 2, a project cap of 1, so that batches fail midway |
| `retrying_client` | every client is served in a bounded number of calls | two clients, two transient rules out of four templates, two clock jumps of a TTL |
| `incremental_consumer` | days only grow, settle complete, tomorrow is hidden, the consumer's copy is an archive | eight days of six ticks of four hours, a window of 12 ticks, an autumn change before day 2 and a spring change before day 5, two seeds, four days re-extracted, jumps of 1, 4, 6 and 25 ticks |
| `token` | honest clients of either clock get in; late assertions, whatever their lifetimes and the forms of their stamps, never do; bearers outlive restarts and open to their account | an hour of three ticks, a tolerance of one, a mock clock at 4 and a real one at 7, jumps of one and three ticks, two accounts, two processes, one token |
| `report` | groups, totals, extremes, order, pages, empty rows and filters against reference definitions; who pays is answered | two days of three and two sessions, every world within two uncommon draws of the plainest, nine bodies for all of them and 36 for the plainest |

Bounds. Each guard that bounds a counter names its constant: `MaxRules` (ids
handed out), `MaxCount` (requests of a path), `MaxCalls` (operations started),
`MaxTime` (virtual time). Two threads suffice for the engine's races, as each
needs one actor that acts on what another has just changed; a third is there to
meet both. Three rules let a list keep a rule before, at and after the one
removed. Caps of 3 with costs of 1 and 2 let a report be refused while a cheaper
one still fits, and a batch fail after its first charge. A `TTL` of one unit with
unit advances puts a bearer right before, at and after its expiry. Symmetry of clients and workers is used in runs without liveness only.
In `IncrementalConsumer`, `EndOfTime` bounds the clock: it is the code's own end of
time brought near, so that the overflow happens too; the last days of the calendar
are reached before it. Traffic at both edges and in the middle of a day, with the
shortest, a middling and the longest lag, is what decides about visibility: every
other session lies between two of these. `MaxOffset`, `MaxWall`, `MaxBoots` and
`MaxTokens` bound `TokenEndpoint`; the virtual clock starts three
ticks, an assertion's whole lifetime, behind the real one and can overtake it by four,
and one token suffices, as no property compares two.
`MaxVariety` bounds how far a world is from the plainest one: two draws give a
browse, a conversion, a second page or landing, two landings or two systems, and
with them every fan-out of two units in one group. `MaxFollowups` stands for the five
pages of the code. `Common` are the bodies asked of every world. The others are
asked of the plainest: most are refused whatever the world, and two ask for two
ranges of one name, which the sessions of the plainest world suffice to tell from
ranges apart.
Ratios are kept exact: `Scale` is a multiple of every denominator up to six.

`CHECK_DEADLOCK FALSE` is set where actors stop after `MaxCalls` operations or,
in `retrying_client`, when they have what they want.

### Disagreements between the code and what the repository says

| Run | What the repository says | What the code does |
|---|---|---|
| `transient_overfires` | a rule with `times` fires that often (README.md:190) | two pool threads can both consume its last firing |
| `baseline_lost` | the baseline "survives resets" (README.md:195) | a removal on the pool can bind the list over it |
| `narrow_window` | re-extract ">= 3 days for a 48h window" (`freshness.md`:49) | a session late on a day with a lag close to 48 h shows only at the end of the day after next, after the day's last extraction; four days are needed |

Others are seen in the models and have no run of their own:

* A batch pays for what precedes an invalid sub-request (`app.py`:280), while "an
  invalid request costs nothing" (`report.py`:786).
* `orderBys` by a requested field of the other kind passes validation, is charged and
  ends in a 500 (`report.py`:590); it is the exception that `PaidIsServed` makes.
* A filter may cite fields that the report does not ask for (`report.py`:364-371,
  `README.md`:95, `docs/CONFORMITE-REELLE.md`:65, `tests/test_aggregation.py`:379),
  while `README.md`:131 still has it that "filter fields must be requested in the
  report" and so does the comment at `filters.py`:101-103, whose check is now against
  the fields the filter cites itself. The models follow the code, and
  `FilterIsSetAlgebra` holds of such filters too.
* "An invalid expression must come out as 400" (`filters.py`:11-13), but a payload of
  the wrong JSON type, or an integer that no float has room for, raises what
  `_compile_filter_field` does not catch and answers 500 (`filters.py`:35, 54, 99, 110,
  117, 123, 155); it costs nothing.
* A report is said to cost "1 to 7 tokens" (`README.md`:133), while a range of many
  years costs more (`report.py`:737-749).
* `NdaysAgo` with a large N leaves the range of dates and answers 500 instead of 400
  (`clock.py`:60); it costs nothing.
* A reset leaves bearers in clients' hands with more than the "TTL 3600 virtual
  seconds" of `freshness.md`:43 to live (`state.py`:98).
* On the night a winter month gives way to a summer one, sessions of the first
  hour of the new day are visible before local midnight, while "Future days need
  no guard" (`sessions.py`:636-638); `FutureInvisible` says that there is no other
  case, `LeftIsFinalInSeason` that four days suffice but for that night.
* Nothing gives tokens back to the hourly buckets although the 429 says they "will
  return in under an hour" (`errors.py`:136, 141; `ExhaustionSticks` is the other
  side of it).
* A reset between a request's arrival and its body leaves a path with an attested
  body and a count of zero (`injection.py`:9).

The first two in the table need pool threads: a suite that waits for every answer, as the
repository's own does, meets neither, and `sequential_engine` shows that it sees
exactly the rule book. `engine_discipline` is the rule for suites that do not wait:
scope transient rules to `async def` paths, and delete or clear nothing while
requests are in flight.

## 4. Fairness

* `InjectionEngine`: weak fairness of every thread that is inside an operation.
  The interpreter hands the lock round; nothing obliges anyone to start another
  operation.
* `MockServer`: strong fairness of `Progress(c)`. A handler is ready once its body
  is there; the loop's ready queue is first-in first-out, so a ready handler runs
  although others keep becoming ready and a batch may hold the loop in between,
  during which `Progress` of the others is disabled: hence strong. Bodies are
  assumed to arrive; a `Disconnect` ends a request as well. Nothing obliges a
  client to ask or the control plane to act.
* `RetryingClient`: weak fairness of trying and of completing. Clients do not give
  up; requests arrive. The control plane is not fair to anybody and may act only
  a bounded number of times.

* `Freshness`, `IncrementalConsumer`, `TokenEndpoint` and `Report` state safety only
  and assume no fairness: nothing in them has to happen.

## 5. Proofs

`MockServer_proofs` proves, for any clients, caps, costs, batch limit, rules,
credentials and properties, from the assumptions named in `MockServer`:

* `TypeCorrect` — `Spec => []TypeOK`. One step per action. It includes that a batch
  on the loop has a sub-report left, for which `BatchTail` and `BatchHead` say what
  is left of a sequence.
* `LedgerCorrect` — `Spec => []QuotaLedger`. The inductive invariant is `LedgerInv`,
  that is `TypeOK /\ QuotaLedger /\ Uncharged`: without `Uncharged` a batch
  could start with tokens on its account. `ChargedMoves` says that a charge moves
  the three buckets together and within the caps, `FinishedBalanced`
  that each way for a report to end moves the tokens it accounts for.
* `ExhaustionIsFinal` — `Spec => []ExhaustionSticks`. Between two resets the buckets
  only grow and a cost is only recorded as refused when the buckets refuse it
  (`Growth`); what was refused stays refused (`GrowthSuffices`).
* `ProjectFirst` — `Spec => []ProjectBucketFirst`. From the ledger: the buckets
  stand level, so that under a narrow enough project cap the first two tests of
  `consume_quota` pass.
* `AdmissionHolds` — `Spec => []Admission`.

`RetryingClient_proofs` proves, for any number of clients and any rules and jumps of
the clock, that retrying pays:

* `CallsAreBounded` — `RetrySpec => []CallsBounded`, in the circumstances that
  `EveryoneServed` is about: the harness is bounded, all rules are transient
  (`TransientRules`), and the buckets hold a report for every client
  (`AmpleBuckets`). The proof is a potential argument. `Firings` are those left in
  the book or in rules yet to be injected, `Chances` the clock readings at which
  each client's token may still be issued; both are subsets of finite products, so
  that their sum starts within the bound. `Potential` says that calls made and
  reasons left to fail never exceed it: a call that a rule refuses takes away a
  firing (`_consume`), one that meets an expired bearer takes away a reading, and
  one that is admitted takes away the client's last. Everything else, an injection
  or a jump included, adds none. `Funded` keeps the buckets from becoming a third
  reason; `ClientInv` places every bearer at a reading not above the clock's.

`InjectionEngine_proofs` proves, for any number of pool threads, any paths,
templates and calls, with every interleaving of the switch points (the mark `Live`
being no list itself, and the fields of a template typed as the control plane expects
them, though of these it checks the kind alone):

* `ListsInOrder` — `Spec => []OldestFirst`. The inductive invariant `OrderInv` speaks
  of every thread's position (`Reading`): what it has built is in order, and what
  its list object still holds is younger than all of it. That survives an append
  (the new id is above all), a clear in place (nothing is left to read) and a
  rebinding by another thread (who has begun keeps the old object, who has not has
  built nothing).
* `LoopCounts` — `Spec => []LoopCountsExact`. Between the two steps of `observe` on the
  loop the count read is still the count stored, as no pool thread is about to
  store one of the same path (`Counting`).
* `EngineTyped` — `Spec => []TypeOK`, with `TypedInv`: a frame in the middle of a
  consumption holds a position of its own `active` (`Planned`).
* `RulesBudgeted`, `RulesStay`, `RulesStayGone` — `Spec => []BudgetRespected`,
  `[]RulesKept`, `[]RulesGone`, for a `Disciplined` use: the pool evaluates and
  nothing else, and every template is persistent or scoped to paths of the event
  loop. The discipline is needed: without it the runs `transient_overfires` and
  `baseline_lost` refute the first two. `SafeInv` says what it buys. A transient
  rule is only ever selected by the loop, so that its firings and what is left of
  it make up its budget (`AccountInv`); no pool thread reaches `remove`
  (`WorkerFits`), so that the loop alone binds lists, and copies one that nobody
  changes meanwhile; what the loop has yet to consume is not spent (`LoopFits`);
  the only spent rule in the list is the one being removed (`ListInv`).

`RuleBook_proofs` proves, for any paths, templates, limits and number of rules, if
the fields of every template are typed (`TemplatesTyped`):

* `RateLimited` — `Spec => []RateLimitHolds`, and `WithinBudget` — `Spec =>
  []BudgetRespected`. The inductive invariant `BookInv` adds `Ledger` (what is left
  to a rule and what it has fired make up its budget), `UniqueIds`,
  `PassedCounted` (a path lets through no more than it counts) and `BaselineIntact`
  (a rule with the baseline's id is the baseline). A request over the limit is
  refused by some rule, perhaps another: `SomeoneAnswers` finds the first of all
  that can, as ranks and ids are well-ordered. This is the atomic book.

`SequentialEngine_proofs` carries these to the engine itself, for a caller that
waits for each answer, and for any number of threads, paths, templates and calls:

* `EngineIsRuleBook` — `SeqSpec => ImplementsRuleBook`. The last step of an operation
  maps to the step of the book, every other to a stutter (`MidStep`, `LastStep`).
  The inductive invariant `SeqInv` looks at each stage of an operation from the book
  it began with: which rules are consumed by now (`Kept`), which have left the list
  (`Listed`), which positions the loops have passed and that each of those was a
  latency or a rate limit not exceeded (`Evaluates`), how much of a list is copied
  (`Copies`). When an evaluation ends, `Verdict` has it that what the loops did one
  by one is what the book decides at once, by `NothingRefuses` and `OneRefuses`;
  `BookAfter` that the list and the objects left are the consumed book. A removal
  must tell a known id from an unknown one by lengths alone, which `Copies` counts.
* `EngineRateLimited` — `SeqSpec => []RateLimitHolds`: the invariant of `RuleBook_proofs`
  holds of the book through the refinement (`BookHolds`).
* `EngineWithinBudget` — `SeqSpec => []BudgetRespected`, of the engine's own counters,
  also between consumption and removal, and without any discipline of scopes: for
  such a caller the deviations of section 3 do not exist.

`IncrementalConsumer_proofs` proves of `Freshness`, for any calendar, lags, seeds and traffic, from
`ClockAssumption` (the winter offset is not above the summer offset, both are below
a day) and `TrafficAssumption`:

* `TypeCorrect` and `CacheIsFaithful` — `Spec => []TypeOK`, `Spec => []CacheFaithful`.
  They are inductive together (`FreshInv`): the cache is a memory of `BuildDay`,
  so that what `Day` returns never depends on what was read before (`DayIsBuilt`).
* `DaysGrow` — `Spec => DaysOnlyGrow`. With a faithful cache the sessions visible
  are a function of seed and time, and `VisibleGrows` says that a later instant
  shows no fewer of them, whatever the local offset does in between.
* `SettledComplete` — `Spec => []SettledIsComplete`. Every lag is below the window
  and every local time below a day (`DrawnSessions`).
* `FutureHidden` — `Spec => []FutureInvisible`. `ClockDays` places the UTC day of the
  clock on its local day or the one before.

It goes on with the consumer, for a window wide enough for the lags
(`WideEnough`: all but two of its days last at least the freshness window):

* `LeftDaysFinal` — `CSpec => []LeftIsFinalInSeason`. `LastChance` is the arithmetic:
  on the last local day whose window holds a day, that day is settled at any hour,
  unless the change to summer time lies between. The inductive invariant
  `ConsInv` says that nothing held is invisible, that no local day was skipped, and
  that what the window has passed is complete (`DoneIsComplete`).
* `ConsumerKeepsArchive` — `CSpec => ImplementsArchive`. An extraction is a load of
  the archive, with days sealed in the same step; a restart starts another
  archive; every other step stutters.

`TokenEndpoint_proofs` proves, for any account names, tolerance, lifetime and clocks:

* `HonestGetIn` and `LateStaysLate` — `Spec => []HonestAccepted`, `Spec =>
  LateForGood`. An assertion is accepted exactly when it passes all eight checks
  (`AcceptedPassesAll`, `AcceptedMeans`); the rest is arithmetic over the window.
  `Expiring` ranges over lifetimes, accounts, scopes and forms of the stamps, the
  deviations included: whatever else may be said of it, what has expired on both
  clocks is refused (`LateIsRefused`), and no step but a reset makes it fresh again.
* `OpensToOwner` — `Spec => []OpensToItsAccount`, from `TokenInv`: every token
  held carries the key of the account it was asked for, and an access token only
  scopes of Analytics (`Earned`).
* `BearersOutlive` — `Spec => BearersSurvive`: what a bearer opens depends on its
  own fields, the account and the clock, and on no state of the process.
* `TypeCorrect`.

`Report_proofs` proves, for any calendar, volumes, campaigns, draws, bodies and
limits, from the assumptions named in `SessionGenerator`, `Registry` and `Report`:
lists are lists, numbers are numbers, a day plans at least one session, and a page
holds at least a row and at most `MAX_LIMIT`; the calendar covers the dates that a
range may have (`CalendarAssumption`); words have ranks (`TextAssumption`); the nodes of
a filter refer to nodes behind them, and each leaf has one predicate (`IsTree` in
`BodiesAssumption`). Every invariant of the run is among them:

* `EveryoneIsBorn` — `Spec => []NobodyUnborn`. The inductive invariant `BirthInv` has
  each session know its place (`Registered`): the first `planned` of a day are the
  births, in order, and whoever returns has one of these places on a day before, or
  on the first. It also has a day that is over hold all its births, which is what
  `planned_new` promises without the day's volume: `BornFit` is the arithmetic, the
  lowest weekly and seasonal factor against the largest share of new visitors.
  `BirthsAreBorn` then counts the births of a user, of which there is one.
* `WhoeverPaysIsServed` — `Spec => []PaidIsServed`. A body that passes validation
  asks for names of its registries only (`FieldsKnown`), so that a sort that crashes
  is by a field of the other kind (`CrashIsCrossed`).
* `TheFunnelHolds` — `Spec => []FunnelHolds`, for every list of units that a query
  collects, groups and totals alike. `TalesInv` says what a session tells: one with a
  key event is engaged, durations and events are numbers. `Sound` is the invariant of
  the accumulator: users are of sessions seen, sessions with a key event are no more
  than engaged ones, and the new ones counted are those of a set of sessions seen,
  each the birth of its own active user. `UnitAdded` keeps it through fan-outs,
  `RatioMonotone` takes it from counts to the rates reported.
* `PagesAreAPartition` — `Spec => []PagesPartition`. `PagesMakeTheList` is about any
  list: pages in steps of the limit, as many as `rowCount` calls for, are the list.
  What it needs of the pipeline is that rows are a list (`RowsInv`), through the
  spine, the metric filter and any number of sorts.
* `ReportTyped` — `Spec => []TypeOK`: a query that validation lets through has a page
  of at least a row, dates in order, something asked for, and a cost in tokens
  (`RangesPass`, `LimitsAre`, `SomethingAsked`, `CostIsNat`).

The properties that compare a report with a reference definition speak of a reply, and
what it was computed from is gone from its handler's frame. `AnsweredInv` brings it
back: the world is finished when a body is asked, so that the reply is what its query
comes to in the world there is. `WordsInv` says that each string that a row may hold
is a known word, on its session's own day, so that all ranks are numbers.

* `RowsComeInOrder` — `Spec => []OrderIsLexicographic`. The sorts run from the last
  criterion to the first. `SortArranges` says that an insertion sort permutes a list
  into ascending order and leaves what is level as it was; `SortRefines`, that on a
  list in order by the criteria after it, it makes one in order by those and its
  own; `OrderSorts` climbs through the criteria, the composition of the permutations
  in hand, so that ties are seen to be as in the list the groups were found in.
* `ExtremesAreReached` — `Spec => []ExtremesReached`: the least and the greatest of a
  list of numbers that is not empty is one of them (`ExtremesExist`,
  `CandidatesAre`).
* `NoDayIsMissing` — `Spec => []SpineGapFree`. Every row has a key, no two the same
  (`AllRowsAreKeyed`); a day of a range has its key from a unit or from the spine
  (`DayHasOneRow`). The query without `keepEmptyRows` finds the same groups
  (`SameRowsStay`).
* `FiltersAreSets` — `Spec => []FilterIsSetAlgebra`. `compile_filter` goes down a tree,
  the reference goes up it; `HoldsIs` and `MeaningIs` say what each comes to at a
  place from what it comes to at the places behind, and agree by a climb. Every
  session has a page and an event (`SomeEvents`), so that its units are those of its
  moments (`UnitsOfSet`); what fans out is fanned out for every field that the report
  or the filter names (`Legible`, from `FilterPasses`), so that a unit and its moment
  read alike (`UnitsShow`) and the filter takes them alike (`AdmittedAlike`).
* `RowsCountSessionsOnce` — `Spec => []RowsDeduplicate`. `Tally` says that an
  accumulator is what the set of its sessions comes to: as many sessions and users, as
  many active, new and engaged ones, the same durations, and the pages and events of
  the sessions, or of the units where the query fans out. `SessionTallied` and
  `UnitTallied` keep it when a unit comes in, of a session met before or not, as no
  two sessions have one id (`IdsApart`); `GroupTallied` climbs along the group and
  `GroupCounts` takes it to the metrics.
* `TotalsAreBracketed` — `Spec => []TotalsBracketed`. A metric that adds up is a measure
  (`MetricsAreMeasured`): each unit yields members (itself, its session or its user)
  and what a group reports is the weight of all that its units yield, each member once.
  `Covers` is the fact about measures: a union weighs no less than any set of a family
  and no more than the sum of all, and exactly that when they are apart. The units of a
  range's rows are those of its total (`RowsShareTheUnits`); without a fan-out the
  units of a session go to one row (`SessionsHaveOneKey`), which makes what they
  yield apart, except where a user counts once and has a session in two rows.

Sums over sets are the library's fold, which adds in an order it chooses. `TablesAgree`
has it that two tables of partial sums agree whatever is taken out first; from there
`SumOne`, `SumJoin` and `SumRenamed` are the usual laws.

Lists are walked by functions of the position (`Picked`, `Accumulated`, `Ordered`,
`AllExtras`, `CountOf`, ...). The induction scheme of the library takes an operator as
its parameter and cannot be used; `Report_proofs` begins with what replaces it: a set
of numbers that is not empty has a least one (`LeastOf`), hence a set that contains
0 and goes from each number to the next holds them all (`Climb`), hence an iteration
has the function that it defines (`IterationExists`). `PickedIs` and `FlattenIs` say of
`Picked` and `FlattenSeq` which member is where.

Only model-checked: every liveness property (`Terminates`, `Answered`,
`EveryoneServed`), as fairness and `ENABLED` are outside TLAPS's reach, and the three
deviations of section 3, which are counterexamples. What is proved of `RuleBook` and of
an engine with one caller, or with a disciplined pool, is refuted without these
conditions, so that it has no wider theorem. Each inductive invariant that is an
operator of states was evaluated by TLC on its run's instance before it was proved, with
the sets of lists that TLC cannot enumerate replaced by the lengths and members they
stand for.

## 6. Not modelled

`PROJECT.json` gives the reason component by component. In the modelled ones:

* Requests: wording of messages, status codes and durations of injected rules, the
  types of an injected rule's fields, requests that fail the admin guard or its
  validation (they change nothing), and the snapshot of `GET /__admin/state`.
* Settings: the environment does not change while the server runs, so
  `settings.reload` is left out of the resets.
* Tokens: encoding, the RSA signature and the bearer's MAC; they are right or not.
* Generator: weights of draws, device, browser, geography; timestamps and lags are
  `Freshness`'s subject, and how much work a far future range costs is nobody's.
* Reports: eight of the thirteen dimensions that are plain session fields, regular
  expressions and case folding of text predicates, currency, `propertyQuota` and the
  formatting of headers and values. `FromDate` numbers weeks on from the first of
  January without starting again, and gives `month` and `yearMonth` one value; no
  property turns on either.
* Routing errors and error envelopes, response models, the RSA arithmetic, key
  generation, the comparison script and packaging: they keep no state and decide
  nothing that the properties tell apart.

## 7. Plan

Done: the injection engine with its threads and its rule book, the request
handlers with quota and bearers, the retrying client, freshness with its
incremental consumer, the token endpoint, the generator and the report pipeline;
proofs of every safety property that a passing run checks. What would come next:

1. Text predicates of filters with case folding.
2. A generator that is asked for its days in any order, with the cost of a range far
   in the future.
3. The contract export: that every path it names is one that the routes answer.
