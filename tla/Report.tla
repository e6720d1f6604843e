------------------------------- MODULE Report -------------------------------
(***************************************************************************)
(* runReport (report.py), from the body to the rows: validation in the      *)
(* service's order, cost, collection over the visible days, empty rows,     *)
(* having, sort, aggregations and pages.  The world it reads is what the    *)
(* generator has drawn; a report runs on the event loop in one step.        *)
(*                                                                          *)
(* In a body a list that is absent is empty and one that is no list holds   *)
(* one ill-typed entry: the answers are the same.                           *)
(***************************************************************************)
EXTENDS SessionGenerator, Filters

CONSTANTS
  MAX_LIMIT, MAX_DIMENSIONS, MAX_METRICS, MAX_RANGES, DEFAULT_LIMIT,
  DATE_MIN, DATE_MAX, FIRST_DATE,  \* FIRST_DATE: date.min
  Today,                           \* virtual_today
  DAYS_PER_TOKEN, FREE_CELLS, CELLS_PER_TOKEN,
  Remaining,                       \* tokens left in the buckets
  Text, Folded,                    \* ranks of the strings: as they are, case folded
  Bodies,                          \* a sequence of requests
  Common                           \* bound: the others are only made of a world without variety

ASSUME LimitAssumption ==
  /\ MAX_LIMIT \in Nat /\ DEFAULT_LIMIT \in 1 .. MAX_LIMIT /\ MAX_RANGES \in Nat
  /\ DAYS_PER_TOKEN \in Nat \ {0} /\ CELLS_PER_TOKEN \in Nat \ {0} /\ FREE_CELLS \in Nat
  /\ Today \in Int

\* The calendar covers the dates that a range may have.
ASSUME CalendarAssumption ==
  /\ DATE_MIN \in Int /\ DATE_MAX \in Int /\ Sunday0 \in Int
  /\ \A d \in DATE_MIN + 1 .. DATE_MAX - 1 : MonthOf[d] \in Int

\* Lists, and numbers where they pass for numbers.
ASSUME BodiesAssumption ==
  \A i \in DOMAIN Bodies : LET body == Bodies[i] IN
    /\ {body.metrics, body.dimensions, body.metricAggregations} \subseteq Seq(STRING)
    /\ body.limit.value \in Int /\ body.offset.value \in Int
    /\ IsList(body.orderBys) /\ IsList(body.dateRanges)
    /\ IsTree(body.dimensionFilter) /\ IsTree(body.metricFilter)
    /\ \A r \in DOMAIN body.dateRanges :
         body.dateRanges[r].start.n \in Int /\ body.dateRanges[r].end.n \in Int

VARIABLE reply

rvars == <<gvars, reply>>

(***************************************************************************)
(* Validation                                                               *)
(***************************************************************************)
IllTyped == "<ill-typed>"
Absent   == "<absent>"
DIMENSION_RANGE == "dateRange"
SUPPORTED_AGGREGATIONS == {"TOTAL", "MAXIMUM", "MINIMUM"}
UNUSED_AGGREGATION == "METRIC_AGGREGATION_UNSPECIFIED"
KNOWN_AGGREGATIONS == SUPPORTED_AGGREGATIONS \cup {"COUNT", UNUSED_AGGREGATION}

\* A check that fails is answered 400, or escapes as another exception.
Check(passes, error) == [passes |-> passes, error |-> error]
Escapes == "exception"

\* _names.
NamesChecks(names, registry) ==
  FlattenSeq([i \in DOMAIN names |-> <<
    Check(names[i] # IllTyped, "invalid value"),
    Check(names[i] \in registry, "not a valid field"),
    Check(\A j \in 1 .. i - 1 : names[j] # names[i], "duplicate") >>])

\* Mutant: a negative number passes.
Int64ChecksUnsigned(raw) == << Check(raw.ok, "invalid value") >>

\* _int64 leaves a number, `limit' 0 being the default.
Int64Checks(raw) == << Check(raw.ok, "invalid value"), Check(raw.value >= 0, "must be positive") >>

\* resolve_date: N days ago may be before the first date there is.
Resolve(raw) == IF raw.form = "ago" THEN Today - raw.n ELSE raw.n
Resolves(raw) ==
  << Check(raw.form # "malformed", "invalid date"),
     Check(raw.form = "ago" => Today - raw.n >= FIRST_DATE, Escapes) >>
InBounds(raw) == Check(DATE_MIN < Resolve(raw) /\ Resolve(raw) < DATE_MAX, "out of bounds")

\* _ranges: the bounds before the order of the dates, range by range.
RangesNumber(ranges) ==
  << Check(ranges # <<>>, "a range is required"),
     Check(Len(ranges) <= MAX_RANGES, "too many ranges") >>

RangesChecks(ranges) ==
  FlattenSeq([i \in DOMAIN ranges |->
    Resolves(ranges[i].start) \o Resolves(ranges[i].end)
    \o << InBounds(ranges[i].start), InBounds(ranges[i].end),
          Check(Resolve(ranges[i].start) <= Resolve(ranges[i].end), "reversed range") >>])

CardinalityChecks(body) ==
  << Check(Len(body.metrics) <= MAX_METRICS, "too many metrics"),
     Check(Len(body.dimensions) <= MAX_DIMENSIONS, "too many dimensions"),
     Check(body.metrics # <<>> \/ body.dimensions # <<>>, "nothing asked for") >>

\* _compile_filter_field: node by node, as compile_filter comes to them.
NodeChecks(node) ==
  << Check(Exclusive(node), "invalid filter"), Check(~Raises(node), Escapes),
     Check(WellFormed(node), "invalid filter") >>

FilterChecks(filter, registry) ==
  << Check(filter # <<>> => DOMAIN filter[1] # {}, "invalid value"),
     Check(Fields(filter) \subseteq registry, "not a valid field") >>
  \o FlattenSeq([n \in DOMAIN filter |-> NodeChecks(filter[n])])

\* Mutant: any field may be sorted by.
SortableAny(body, target) == target # ""

\* A requested field, of whatever kind, or the range.
Sortable(body, target) ==
  target \in ToSet(body.dimensions) \cup ToSet(body.metrics) \cup {DIMENSION_RANGE}

\* _order_bys: a metric that is no object leaves the word to the dimension.
Target(orderBy) ==
  IF orderBy.metric \notin {Absent, IllTyped} THEN orderBy.metric
  ELSE IF orderBy.dimension \notin {Absent, IllTyped} THEN orderBy.dimension ELSE ""

OrderChecks(body) ==
  [i \in DOMAIN body.orderBys |->
     Check(Sortable(body, Target(body.orderBys[i])), "not defined in the input list")]

AggregationChecks(names) ==
  FlattenSeq([i \in DOMAIN names |-> <<
    Check(names[i] \in KNOWN_AGGREGATIONS, "invalid value"),
    Check(names[i] # "COUNT", "not supported") >>])

\* validate: "the ORDER of checks is the service's".
Checks(body) == <<
  << Check(~body.unknown, "cannot find field"), Check(~body.unsupported, "not supported") >>,
  NamesChecks(body.metrics, METRICS), NamesChecks(body.dimensions, DIMENSIONS),
  Int64Checks(body.limit), Int64Checks(body.offset),
  RangesNumber(body.dateRanges), RangesChecks(body.dateRanges),
  CardinalityChecks(body),
  FilterChecks(body.dimensionFilter, DIMENSIONS), FilterChecks(body.metricFilter, METRICS),
  OrderChecks(body), AggregationChecks(body.metricAggregations) >>

Passes(body) == \A stage \in ToSet(Checks(body)) : \A check \in ToSet(stage) : check.passes

\* What a body that does not pass is told.
FirstError(body) == Head(SelectSeq(FlattenSeq(Checks(body)), LAMBDA c : ~c.passes)).error

(***************************************************************************)
(* The query and its cost                                                   *)
(***************************************************************************)
DefaultName(i) == <<"date_range_0", "date_range_1", "date_range_2", "date_range_3">>[i]

\* Every string that a row may hold has its rank.
EVENT_NAMES == {"session_start", "page_view", "first_visit", "user_engagement", "scroll"} \cup KEY_EVENTS

WordsOf(visit) ==
  {visit.system, visit.acquisition.channel, visit.acquisition.medium, visit.acquisition.landing}
    \cup ToSet(visit.pages)
RangeNames ==
  {DefaultName(i) : i \in 1 .. MAX_RANGES}
    \cup UNION {{range.name : range \in ToSet(Bodies[i].dateRanges)} : i \in DOMAIN Bodies}
Words ==
  {None, "new", "returning"} \cup EVENT_NAMES \cup RangeNames
    \cup UNION {UNION {WordsOf(visit) : visit \in Visits(c)} : c \in 0 .. Len(Campaigns)}

ASSUME TextAssumption == \A word \in Words : Text[word] \in Int /\ Folded[word] \in Int

\* all_dimensions: the requested fields, then those that only the filter cites.
Cited(body) == ToSet(body.dimensions) \cup Fields(body.dimensionFilter)

\* Mutant: only what the report groups by is fanned out into.
FanOutGrouped(body, scope) == \E name \in ToSet(body.dimensions) : Scope(name) = scope

\* fan_page, fan_event.
FanOut(body, scope) == \E name \in Cited(body) : Scope(name) = scope

Query(body) ==
  [dimensions |-> body.dimensions, metrics |-> body.metrics, cited |-> Cited(body),
   computed   |-> ToSet(body.metrics) \cup Fields(body.metricFilter),
   fanPage    |-> FanOut(body, "page"), fanEvent |-> FanOut(body, "event"),
   ranges     |-> [i \in DOMAIN body.dateRanges |->
                     [name  |-> IF body.dateRanges[i].name = "" THEN DefaultName(i) ELSE body.dateRanges[i].name,
                      start |-> Resolve(body.dateRanges[i].start), end |-> Resolve(body.dateRanges[i].end)]],
   limit      |-> IF body.limit.value = 0 THEN DEFAULT_LIMIT ELSE Min({body.limit.value, MAX_LIMIT}),
   offset     |-> body.offset.value,
   dimensionFilter |-> body.dimensionFilter, metricFilter |-> body.metricFilter,
   orderBys   |-> body.orderBys, keepEmptyRows |-> body.keepEmptyRows,
   aggregations |-> SelectSeq(body.metricAggregations, LAMBDA a : a # UNUSED_AGGREGATION)]

\* token_cost: by the span of the longest range and the number of cells.
TokenCost(q) ==
  LET days  == Max({q.ranges[i].end - q.ranges[i].start + 1 : i \in DOMAIN q.ranges})
      cells == Len(q.dimensions) * Len(q.metrics)
  IN 1 + days \div DAYS_PER_TOKEN
       + Max({0, -((-(cells - FREE_CELLS)) \div CELLS_PER_TOKEN)})

(***************************************************************************)
(* Collection and grouping                                                  *)
(***************************************************************************)
DaysOf(range) == [i \in 1 .. range.end - range.start + 1 |-> range.start + i - 1]

\* _units: the pages and the events of a session, when they are asked for.
UnitsOf(q, s) ==
  LET pages  == IF q.fanPage THEN s.pages ELSE <<None>>
      events == IF q.fanEvent THEN s.events ELSE <<[name |-> None, count |-> 1]>>
  IN FlattenSeq([i \in DOMAIN pages |->
       [j \in DOMAIN events |-> Unit(s, pages[i], events[j].name, events[j].count)]])

Admits(filter, q, u) ==
  Holds(filter, [name \in q.cited |-> Extract(name, u)])

\* The units of a range that pass the filter, under the key of their group.
UnitsIn(q, range) ==
  LET sessions == FlattenSeq([i \in DOMAIN DaysOf(range) |-> SessionsOf(DaysOf(range)[i])])
      units    == FlattenSeq([i \in DOMAIN sessions |-> UnitsOf(q, sessions[i])])
      admitted == Picked(units, {i \in DOMAIN units : Admits(q.dimensionFilter, q, units[i])})
  IN [i \in DOMAIN admitted |->
        [unit |-> admitted[i], range |-> range.name,
         dims |-> [k \in DOMAIN q.dimensions |-> Extract(q.dimensions[k], admitted[i])]]]

Collected(q) == FlattenSeq([i \in DOMAIN q.ranges |-> UnitsIn(q, q.ranges[i])])

Accumulated(q, units) ==
  LET acc[i \in 0 .. Len(units)] ==
        IF i = 0 THEN Accumulator
                 ELSE AddUnit(acc[i - 1], units[i].unit, q.fanPage, q.fanEvent)
  IN acc[Len(units)]

KeyOfUnit(c) == [dims |-> c.dims, range |-> c.range]

\* The keys of a dict, in the order of their insertion.
Inserted(keys) == Picked(keys, {i \in DOMAIN keys : \A j \in 1 .. i - 1 : keys[j] # keys[i]})

\* Mutant: the calendar of the first range only.
SpineFirst(q) == [i \in DOMAIN DaysOf(q.ranges[1]) |->
  [dims  |-> [k \in DOMAIN q.dimensions |-> FromDate(q.dimensions[k], DaysOf(q.ranges[1])[i])],
   range |-> q.ranges[1].name]]

\* _spine: the calendar of every range.
Spine(q) ==
  FlattenSeq([r \in DOMAIN q.ranges |-> [i \in DOMAIN DaysOf(q.ranges[r]) |->
    [dims  |-> [k \in DOMAIN q.dimensions |-> FromDate(q.dimensions[k], DaysOf(q.ranges[r])[i])],
     range |-> q.ranges[r].name]]])

Synthesized(q) == q.keepEmptyRows /\ q.dimensions # <<>> /\ ToSet(q.dimensions) \subseteq DateFamily

\* The groups as they first appear, then the days that have none.
GroupKeys(q, found) == Inserted(IF Synthesized(q) THEN found \o Spine(q) ELSE found)

\* compute_rows.  A row has every metric; the code computes those in q.computed,
\* and nothing reads another.
ComputedRows(q, units, keys) ==
  [i \in DOMAIN keys |->
     LET group == Picked(units, {j \in DOMAIN units : KeyOfUnit(units[j]) = keys[i]})
     IN [dims |-> keys[i].dims, range |-> keys[i].range, values |-> Metrics(Accumulated(q, group))]]

AllRows(q) ==
  LET units == Collected(q)
  IN ComputedRows(q, units, GroupKeys(q, [i \in DOMAIN units |-> KeyOfUnit(units[i])]))

\* metricFilter, on what is returned and what it cites.
Having(q, rows) ==
  Picked(rows, {i \in DOMAIN rows : Holds(q.metricFilter, rows[i].values)})

(***************************************************************************)
(* Sort                                                                     *)
(***************************************************************************)
Criterion(metric, dimension, desc, orderType) ==
  [metric |-> metric, dimension |-> dimension, desc |-> desc, orderType |-> orderType]

\* Without orderBys: the first metric descending, then the dimensions.
Criteria(q) ==
  IF q.orderBys # <<>> THEN q.orderBys
  ELSE (IF q.metrics = <<>> THEN <<>> ELSE <<Criterion(q.metrics[1], Absent, TRUE, "")>>)
       \o [k \in DOMAIN q.dimensions |-> Criterion(Absent, q.dimensions[k], FALSE, "ALPHANUMERIC")]
       \o << Criterion(Absent, DIMENSION_RANGE, FALSE, "") >>

\* A metric that is no requested metric has no index, nor has a dimension.
Misdirected(q, c) ==
  IF c.metric # Absent THEN c.metric \notin ToSet(q.metrics)
  ELSE c.dimension \notin ToSet(q.dimensions) \cup {DIMENSION_RANGE}

\* _dimension_key: dates are written so that they sort as numbers.
DimensionRank(name, value, orderType) ==
  IF name \in DateFamily THEN value
  ELSE IF orderType = "NUMERIC" THEN AsNumber(name, value)
  ELSE IF orderType = "CASE_INSENSITIVE_ALPHANUMERIC" THEN Folded[value]
  ELSE Text[value]

RankOf(q, row, c) ==
  IF c.metric # Absent THEN row.values[c.metric]
  ELSE IF c.dimension = DIMENSION_RANGE THEN Text[row.range]
  ELSE DimensionRank(c.dimension, row.dims[SelectInSeq(q.dimensions, LAMBDA n : n = c.dimension)], c.orderType)

Before(q, a, b, c) ==
  IF c.desc THEN RankOf(q, a, c) > RankOf(q, b, c) ELSE RankOf(q, a, c) < RankOf(q, b, c)

\* A row goes in behind those it is not before.
Insertion(q, rows, row, c) ==
  InsertAt(rows, Cardinality({i \in DOMAIN rows : ~Before(q, row, rows[i], c)}) + 1, row)

\* list.sort: equal rows keep their places, `reverse' or not.
StableSort(q, rows, c) ==
  LET sorted[i \in 0 .. Len(rows)] ==
        IF i = 0 THEN <<>> ELSE Insertion(q, sorted[i - 1], rows[i], c)
  IN sorted[Len(rows)]

\* Mutant: from the first criterion to the last.
OrderedForward(q, rows) ==
  LET criteria == Criteria(q)
      sorted[i \in 0 .. Len(criteria)] ==
        IF i = 0 THEN rows ELSE StableSort(q, sorted[i - 1], criteria[i])
  IN sorted[Len(criteria)]

\* "Stable sorts applied from last to first: the first orderBy dominates".
Ordered(q, rows) ==
  LET criteria == Criteria(q)
      sorted[i \in 0 .. Len(criteria)] ==
        IF i = 0 THEN rows ELSE StableSort(q, sorted[i - 1], criteria[Len(criteria) + 1 - i])
  IN sorted[Len(criteria)]

FinalRows(q) == Ordered(q, Having(q, AllRows(q)))

(***************************************************************************)
(* Aggregations and pages                                                   *)
(***************************************************************************)
\* Mutant: one global accumulator for all ranges.
RangeUnitsAll(units, range) == units

RangeUnits(units, range) == Picked(units, {i \in DOMAIN units : units[i].range = range.name})

\* Mutant: the extremes of the whole report.
CandidatesAll(rows, range, m) == {rows[i].values[m] : i \in DOMAIN rows}

\* The final rows of a range, or a row of zeros.
Candidates(rows, range, m) ==
  LET found == {i \in DOMAIN rows : rows[i].range = range.name}
  IN IF found = {} THEN {0} ELSE {rows[i].values[m] : i \in found}

Aggregate(q, rows, units, aggregation, range) ==
  LET total == Metrics(Accumulated(q, RangeUnits(units, range)))
  IN [m \in ToSet(q.metrics) |->
        CASE aggregation = "TOTAL"   -> total[m]
          [] aggregation = "MAXIMUM" -> Max(Candidates(rows, range, m))
          [] aggregation = "MINIMUM" -> Min(Candidates(rows, range, m))]

\* _aggregation_rows: a row for each range, none without rows or metrics.
Aggregates(q, rows) ==
  IF rows = <<>> \/ q.metrics = <<>> THEN [a \in {} |-> <<>>]
  ELSE LET units == Collected(q)
       IN [a \in ToSet(q.aggregations) |->
             [r \in DOMAIN q.ranges |-> Aggregate(q, rows, units, a, q.ranges[r])]]

\* Mutant: the limit taken for the end of the page.
PageToLimit(q, rows) == SubSeq(rows, q.offset + 1, Min({q.limit, Len(rows)}))

Page(q, rows) == SubSeq(rows, q.offset + 1, Min({q.offset + q.limit, Len(rows)}))

(***************************************************************************)
(* execute_run_report                                                       *)
(***************************************************************************)
\* `rows', all of them, are kept for the properties: the client has the page.
Answer(body, status, charged, rows, page, aggregates) ==
  [body |-> body, status |-> status, charged |-> charged, rows |-> rows,
   page |-> page, rowCount |-> Len(rows), aggregates |-> aggregates]

Failure(body, status, charged) == Answer(body, status, charged, <<>>, <<>>, [a \in {} |-> <<>>])
NoReply == Failure(0, 0, 0)

\* What validation makes of each body: it depends on nothing that varies.
Accepted == {i \in DOMAIN Bodies : Passes(Bodies[i])}
Errors   == [i \in DOMAIN Bodies \ Accepted |-> FirstError(Bodies[i])]
Queries  == [i \in Accepted |-> Query(Bodies[i])]

Asked(i) == WorldDone /\ reply = NoReply /\ (i \in Common \/ day.variety = 0)
Crashes(q) == \E i \in DOMAIN q.orderBys : Misdirected(q, q.orderBys[i])
Affordable(q) == TokenCost(q) <= Remaining

Refuse(i) ==
  /\ i \notin Accepted /\ Asked(i)
  /\ reply' = Failure(i, IF Errors[i] = Escapes THEN 500 ELSE 400, 0)
  /\ UNCHANGED gvars

OverQuota(i) ==
  /\ i \in Accepted /\ Asked(i) /\ ~Affordable(Queries[i])
  /\ reply' = Failure(i, 429, 0)
  /\ UNCHANGED gvars

\* Paid for, computed, and lost in the sort.
Fail(i) ==
  LET q == Queries[i] IN
  /\ i \in Accepted /\ Asked(i) /\ Affordable(q) /\ Crashes(q)
  /\ reply' = Failure(i, 500, TokenCost(q))
  /\ UNCHANGED gvars

\* Paid for, computed, and sent.
Result(i, q, rows) == Answer(i, 200, TokenCost(q), rows, Page(q, rows), Aggregates(q, rows))

Serve(i) ==
  LET q == Queries[i] IN
  /\ i \in Accepted /\ Asked(i) /\ Affordable(q) /\ ~Crashes(q)
  /\ reply' = Result(i, q, FinalRows(q))
  /\ UNCHANGED gvars

\* The client goes on to its next request.
Read == reply # NoReply /\ reply' = NoReply /\ UNCHANGED gvars

Init == GInit /\ reply = NoReply

Next ==
  \/ Build /\ UNCHANGED reply
  \/ \E i \in DOMAIN Bodies : Refuse(i) \/ OverQuota(i) \/ Fail(i) \/ Serve(i)
  \/ Read

Spec == Init /\ [][Next]_rvars
=============================================================================
