-------------------------- MODULE ReportProperties --------------------------
(***************************************************************************)
(* What the reports of Report are to be, whatever the world and the body.   *)
(***************************************************************************)
EXTENDS Report

Served == reply.status = 200
Q      == Queries[reply.body]

\* A served query is one the rest of the pipeline has no trouble with.
TypeOK ==
  /\ reply.status \in {0, 200, 400, 429, 500} /\ reply.charged \in Nat
  /\ day.variety \in 0 .. MaxVariety
  /\ Served => /\ Q.limit \in 1 .. MAX_LIMIT /\ Q.offset \in Nat
               /\ Len(Q.dimensions) + Len(Q.metrics) > 0
               /\ \A i \in DOMAIN Q.ranges : Q.ranges[i].start <= Q.ranges[i].end

\* Nobody returns who was never born: the number that other days draw from
\* never exceeds the new visitors a day really has, whatever its volume
\* (sessions.py:101-108), and nobody is new twice.
NobodyUnborn ==
  \A d \in HISTORY_START .. Building : \A i \in DOMAIN SessionsOf(d) :
    LET s == SessionsOf(d)[i]
        births == {j \in DOMAIN SessionsOf(s.user[1]) :
                     SessionsOf(s.user[1])[j].isNew /\ SessionsOf(s.user[1])[j].user = s.user}
    IN Cardinality(births) = 1 /\ (s.isNew => s.user[1] = d)

\* Reference: a group by sets, without an accumulator.
Sum(f, S) == SumFunctionOnSet(f, S)
GroupOf(units) ==
  LET places   == DOMAIN units
      sessions == {units[i].unit.session : i \in places}
      Users(S) == Cardinality({s.user : s \in S})
      Keys(s)  == {j \in DOMAIN s.events : s.events[j].name \in KEY_EVENTS}
      counts   == [i \in places |-> units[i].unit.count]
  IN [sessions        |-> Cardinality(sessions),
      totalUsers      |-> Users(sessions),
      activeUsers     |-> Users({s \in sessions : s.engaged \/ s.isNew}),
      newUsers        |-> Cardinality({s \in sessions : s.isNew}),
      engagedSessions |-> Cardinality({s \in sessions : s.engaged}),
      userEngagementDuration |-> Sum([s \in sessions |-> s.engagement], sessions),
      screenPageViews |-> IF Q.fanPage THEN Len(units) ELSE Sum([s \in sessions |-> Len(s.pages)], sessions),
      eventCount      |-> IF Q.fanEvent THEN Sum(counts, places)
                          ELSE Sum([s \in sessions |-> CountOf(s.events)], sessions),
      keyEvents       |-> IF Q.fanEvent
                          THEN Sum(counts, {i \in places : units[i].unit.event \in KEY_EVENTS})
                          ELSE Sum([s \in sessions |-> Sum([j \in Keys(s) |-> s.events[j].count], Keys(s))],
                                   sessions)]

Additive == DOMAIN GroupOf(<<>>)

UnitsOfRow(row, units) ==
  Picked(units, {i \in DOMAIN units : units[i].dims = row.dims /\ units[i].range = row.range})

\* Users and sessions are really deduplicated in every row, also when a
\* session fans out into pages or events of one group (registry.py:54-107).
RowsDeduplicate ==
  Served => LET units == Collected(Q) IN
    \A row \in ToSet(reply.page) : LET group == GroupOf(UnitsOfRow(row, units)) IN
      \A m \in Additive \cap Q.computed : row.values[m] = group[m] * Scale

\* newUsers <= activeUsers <= totalUsers <= sessions, and a session with a key
\* event is engaged, in every row and every total: the flags of the generator
\* and the sets of the accumulator tell one story.
Funnel(acc) ==
  LET m == Metrics(acc) IN
  /\ m.newUsers <= m.activeUsers /\ m.activeUsers <= m.totalUsers /\ m.totalUsers <= m.sessions
  /\ m.sessionKeyEventRate <= m.engagementRate

FunnelHolds ==
  Served => LET units == Collected(Q) IN
    \A group \in {units} \cup {UnitsOfRow(row, units) : row \in ToSet(reply.page)} :
      Funnel(Accumulated(Q, group))

RowsOf(r) == {i \in DOMAIN reply.rows : reply.rows[i].range = Q.ranges[r].name}

\* A range's TOTAL is that of its own units: no less than any row, no more
\* than the sum, which it equals for what a row shares with no other
\* (report.py:645-652: "exact user deduplication, where a sum of rows would
\* overcount"), also when two ranges go by one name (report.py:508).
Unshared == {"sessions", "newUsers", "engagedSessions", "userEngagementDuration",
             "screenPageViews", "eventCount", "keyEvents"}
TotalsBracketed ==
  Served /\ "TOTAL" \in DOMAIN reply.aggregates /\ Q.metricFilter = <<>> =>
    \A r \in DOMAIN Q.ranges, m \in Additive \cap ToSet(Q.metrics) :
      LET total == reply.aggregates["TOTAL"][r][m]
          rows  == reply.rows
          sum   == Sum([i \in RowsOf(r) |-> rows[i].values[m]], RowsOf(r))
      IN /\ \A i \in RowsOf(r) : rows[i].values[m] <= total
         /\ total <= sum
         /\ m \in Unshared /\ ~Q.fanPage /\ ~Q.fanEvent => total = sum

\* The extremes bound every row of their range and are reached.
ExtremesReached ==
  Served /\ {"MAXIMUM", "MINIMUM"} \subseteq DOMAIN reply.aggregates =>
    \A r \in DOMAIN Q.ranges, m \in ToSet(Q.metrics) :
      LET values == {reply.rows[i].values[m] : i \in RowsOf(r)}
          max == reply.aggregates["MAXIMUM"][r][m]
          min == reply.aggregates["MINIMUM"][r][m]
      IN values # {} => /\ {max, min} \subseteq values
                        /\ \A v \in values : min <= v /\ v <= max

\* The rows come in the order of the first criterion, ties in that of the
\* next, and ties of all as their groups were found (report.py:567-604: "Stable
\* sorts applied from last to first: the first orderBy dominates").
InFront(a, b) ==
  \E k \in DOMAIN Criteria(Q) :
    /\ Before(Q, a, b, Criteria(Q)[k])
    /\ \A j \in 1 .. k - 1 : ~Before(Q, b, a, Criteria(Q)[j])
FoundBefore(a, b) ==
  LET found == Having(Q, AllRows(Q)) IN
  \E i, j \in DOMAIN found : i < j /\ found[i] = a /\ found[j] = b
OrderIsLexicographic ==
  Served => LET rows == reply.rows IN
    /\ \A i, j \in DOMAIN rows : i < j =>
         /\ ~InFront(rows[j], rows[i])
         /\ InFront(rows[i], rows[j]) \/ FoundBefore(rows[i], rows[j])
    /\ ToSet(rows) = ToSet(Having(Q, AllRows(Q)))

\* A client that follows offsets by its limit reads every row once, in order,
\* and rowCount tells it when to stop.
PagesPartition ==
  Served => LET rows  == reply.rows
                page(k) == Page([Q EXCEPT !.offset = (k - 1) * Q.limit], rows)
            IN FlattenSeq([k \in 1 .. (reply.rowCount + Q.limit - 1) \div Q.limit |-> page(k)]) = rows

\* keepEmptyRows leaves no day of any range without its row, gives none two,
\* and changes no row that was there.
SpineGapFree ==
  Served /\ Synthesized(Q) /\ Q.metricFilter = <<>> =>
    LET rows == reply.rows
        day_(r, d) == {i \in RowsOf(r) : \A k \in DOMAIN Q.dimensions :
                         rows[i].dims[k] = FromDate(Q.dimensions[k], d)}
    IN /\ \A r \in DOMAIN Q.ranges : \A d \in Q.ranges[r].start .. Q.ranges[r].end :
            Cardinality(day_(r, d)) = 1
       /\ ToSet(FinalRows([Q EXCEPT !.keepEmptyRows = FALSE])) \subseteq ToSet(rows)

\* Reference: an expression as the set of units it stands for.
Part(node, units, meaning) ==
  CASE "filter" \in DOMAIN node ->
         {u \in units : LeafHolds(node.filter, Extract(node.filter.fieldName, u))}
    [] "notExpression" \in DOMAIN node -> units \ meaning[node.notExpression]
    [] "andGroup" \in DOMAIN node ->
         {u \in units : \A i \in DOMAIN node.andGroup : u \in meaning[node.andGroup[i]]}
    [] "orGroup" \in DOMAIN node ->
         UNION {meaning[node.orGroup[i]] : i \in DOMAIN node.orGroup}
Meaning(tree, units) ==
  LET meaning[n \in DOMAIN tree] == Part(tree[n], units, meaning) IN meaning[1]

\* Reference: what happened in a range, by its name: each page of each of its
\* sessions with each event, whatever a report fans out into.
SeenIn(range) == UNION {ToSet(SessionsOf(d)) : d \in range.start .. range.end}
Moments(s) ==
  {Unit(s, page, event.name, event.count) : page \in ToSet(s.pages), event \in ToSet(s.events)}
Happened(name) ==
  UNION {UNION {Moments(s) : s \in SeenIn(Q.ranges[r])} :
    r \in {k \in DOMAIN Q.ranges : Q.ranges[k].name = name}}

\* A unit and a moment that the fields of the report do not tell apart.
Shows(u, moment) ==
  /\ u.session = moment.session
  /\ \A name \in ToSet(Q.dimensions) \cup Fields(Q.dimensionFilter) :
       Extract(name, u) = Extract(name, moment)

UnitsNamed(name) == {c.unit : c \in {e \in ToSet(Collected(Q)) : e.range = name}}

\* A filter keeps what it stands for in the world and nothing else: a moment of
\* a range is in the expression's meaning just when a unit counted in that range
\* shows it, and no unit shows what did not happen.  The fields may be asked for
\* or, as the code and README.md:95 allow against README.md:131, cited
\* by the filter alone: a session is fanned out for them too (report.py:143-156).
FilterIsSetAlgebra ==
  Served /\ Q.dimensionFilter # <<>> =>
    \A r \in DOMAIN Q.ranges :
      LET moments == Happened(Q.ranges[r].name)
          meant   == Meaning(Q.dimensionFilter, moments)
          units   == UnitsNamed(Q.ranges[r].name)
      IN /\ \A moment \in moments : moment \in meant <=> \E u \in units : Shows(u, moment)
         /\ \A u \in units : \E moment \in moments : Shows(u, moment)

\* Whoever pays is answered (report.py:786-787), but for a sort by a field of
\* the other kind, which passes validation and fails in the sort.
Crossed(q, c) ==
  \/ c.metric \in ToSet(q.dimensions) \cup {DIMENSION_RANGE, IllTyped}
  \/ c.metric = Absent /\ c.dimension \in ToSet(q.metrics)
PaidIsServed ==
  reply.charged > 0 /\ ~Served => \E i \in DOMAIN Q.orderBys : Crossed(Q, Q.orderBys[i])
=============================================================================
