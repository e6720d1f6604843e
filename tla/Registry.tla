------------------------------ MODULE Registry ------------------------------
(***************************************************************************)
(* The dimensions and metrics served (registry.py): what each takes from a  *)
(* unit, and how a group of units is summed up.  Days are numbered from the *)
(* first of January on which the history starts.                            *)
(***************************************************************************)
EXTENDS Integers, Sequences, SequencesExt, FiniteSets

CONSTANTS
  Sunday0,        \* weekday of January 1st, Sunday being 0
  MonthOf,        \* MonthOf[d] : the month of day d
  Scale           \* metric values are kept as multiples of 1 / Scale

ASSUME ScaleAssumption == Scale \in Nat \ {0}

\* The members of a list at some places, in their order.
Picked(s, places) ==
  LET picked[i \in 0 .. Len(s)] ==
        IF i = 0 THEN <<>>
                 ELSE picked[i - 1] \o (IF i \in places THEN <<s[i]>> ELSE <<>>)
  IN picked[Len(s)]

KEY_EVENTS == {"generate_lead", "job_apply"}

(***************************************************************************)
(* Dimensions: the whole date family, both kinds of fan-out, and of those   *)
(* that are a field of the session, five of thirteen.                       *)
(***************************************************************************)
DateFamily == {"date", "week", "month", "yearMonth", "dayOfWeek"}
DIMENSIONS == DateFamily \cup
  {"sessionDefaultChannelGroup", "sessionMedium", "operatingSystem", "landingPage",
   "pagePath", "eventName", "newVsReturning"}

\* Dimension.scope: which fan-out a dimension asks for.
Scope(name) == CASE name = "pagePath" -> "page" [] name = "eventName" -> "event" [] OTHER -> "session"

\* from_date: weeks run from Sunday to Saturday, the first one is partial.
FromDate(name, d) ==
  CASE name = "date"      -> d
    [] name = "week"      -> (d - 1 + Sunday0) \div 7 + 1
    [] name = "dayOfWeek" -> (d - 1 + Sunday0) % 7
    [] name \in {"month", "yearMonth"} -> MonthOf[d]

\* A session, one of its page views or one of its events.
None == ""
Unit(session, page, event, count) ==
  [session |-> session, page |-> page, event |-> event, count |-> count]

Extract(name, u) ==
  CASE name \in DateFamily -> FromDate(name, u.session.date)
    [] name = "sessionDefaultChannelGroup" -> u.session.channel
    [] name = "sessionMedium"   -> u.session.medium
    [] name = "operatingSystem" -> u.session.system
    [] name = "landingPage"     -> u.session.landing
    [] name = "pagePath"        -> u.page
    [] name = "eventName"       -> u.event
    [] name = "newVsReturning"  -> IF u.session.isNew THEN "new" ELSE "returning"

(***************************************************************************)
(* Accumulator                                                              *)
(***************************************************************************)
Accumulator ==
  [seen |-> {}, users |-> {}, active |-> {}, engaged |-> 0, withKey |-> 0, new |-> 0,
   duration |-> 0, engagement |-> 0, pageViews |-> 0, events |-> 0, keyEvents |-> 0]

CountOf(events) ==
  LET count[i \in 0 .. Len(events)] ==
        IF i = 0 THEN 0 ELSE count[i - 1] + events[i].count
  IN count[Len(events)]
KeyOf(session)  ==
  LET events == session.events
  IN CountOf(Picked(events, {i \in DOMAIN events : events[i].name \in KEY_EVENTS}))

Counted(cond, n) == IF cond THEN n ELSE 0

\* What a session adds to its group, whatever it fans out into.
AddSession(acc, s, fanPage, fanEvent) ==
  [seen       |-> acc.seen \cup {s.id},
   users      |-> acc.users \cup {s.user},
   active     |-> acc.active \cup (IF s.engaged \/ s.isNew THEN {s.user} ELSE {}),
   engaged    |-> acc.engaged + Counted(s.engaged, 1),
   withKey    |-> acc.withKey + Counted(KeyOf(s) > 0, 1),
   new        |-> acc.new + Counted(s.isNew, 1),
   duration   |-> acc.duration + s.duration,
   engagement |-> acc.engagement + s.engagement,
   pageViews  |-> acc.pageViews + Counted(~fanPage, Len(s.pages)),
   events     |-> acc.events    + Counted(~fanEvent, CountOf(s.events)),
   keyEvents  |-> acc.keyEvents + Counted(~fanEvent, KeyOf(s))]

\* Mutant: once for each unit.
FirstTimeAlways(acc, s) == TRUE

FirstTime(acc, s) == s.id \notin acc.seen

AddUnit(acc, u, fanPage, fanEvent) ==
  LET base == IF FirstTime(acc, u.session) THEN AddSession(acc, u.session, fanPage, fanEvent) ELSE acc
  IN [base EXCEPT !.pageViews = @ + Counted(fanPage, 1),
                  !.events    = @ + Counted(fanEvent, u.count),
                  !.keyEvents = @ + Counted(fanEvent /\ u.event \in KEY_EVENTS, u.count)]

(***************************************************************************)
(* Metrics                                                                  *)
(***************************************************************************)
Ratio(numerator, denominator) ==
  IF denominator = 0 THEN 0 ELSE (numerator * Scale) \div denominator

\* Every metric of an accumulator, in units of 1 / Scale.
Metrics(acc) ==
  LET sessions == Cardinality(acc.seen) IN
  [sessions                  |-> sessions * Scale,
   totalUsers                |-> Cardinality(acc.users) * Scale,
   activeUsers               |-> Cardinality(acc.active) * Scale,
   newUsers                  |-> acc.new * Scale,
   engagedSessions           |-> acc.engaged * Scale,
   engagementRate            |-> Ratio(acc.engaged, sessions),
   bounceRate                |-> IF sessions = 0 THEN 0 ELSE Scale - Ratio(acc.engaged, sessions),
   averageSessionDuration    |-> Ratio(acc.duration, sessions),
   userEngagementDuration    |-> acc.engagement * Scale,
   screenPageViews           |-> acc.pageViews * Scale,
   screenPageViewsPerSession |-> Ratio(acc.pageViews, sessions),
   eventCount                |-> acc.events * Scale,
   keyEvents                 |-> acc.keyEvents * Scale,
   sessionKeyEventRate       |-> Ratio(acc.withKey, sessions),
   sessionsPerUser           |-> Ratio(sessions, Cardinality(acc.active))]

METRICS == DOMAIN Metrics(Accumulator)
=============================================================================
