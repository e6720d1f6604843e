------------------------------ MODULE MCReport ------------------------------
(***************************************************************************)
(* Two days, the first of them the first of the history: three sessions,    *)
(* then one and one more that a campaign brings.  Every world within two    *)
(* uncommon draws of the plainest is asked the common bodies; the others,   *)
(* most of which are refused whatever the world, only of the plainest.      *)
(***************************************************************************)
EXTENDS ReportProperties

Home    == "/"
Contact == "/contact"
Job     == "/offres-emploi/devops"

MCVolume     == <<3, 1>>
MCCampaigns  == << [channel |-> "Paid Social", medium |-> "cpc", start |-> 2, end |-> 2,
                    extra |-> 5, landings |-> {Job}] >>
MCOrganicMix == << [channel |-> "Direct", medium |-> "(none)", landings |-> {Home, Job}],
                   [channel |-> "Unassigned", medium |-> "(not set)", landings |-> {Home}] >>
MCSystems    == <<"Windows", "iOS">>
MCExpertises == <<"/expertises/data-ia">>
MCCases      == <<"/realisations/finance">>
MCBlog       == <<"/blog/finops">>
MCJobs       == <<Job, "/offres-emploi/juriste">>

MCDateMin   == -4
MCFirstDate == -6
MCMonthOf   == [d \in -5 .. 9 |-> IF d < 1 THEN 12 ELSE 1]

\* As Python orders them: by code point.
Sorted == <<"", "(none)", "(not set)", Home, "/a-propos", "/blog", "/blog/finops", Contact,
            "/expertises", "/expertises/data-ia", "/offres-emploi", Job, "/offres-emploi/juriste",
            "/realisations", "/realisations/finance", "Direct", "Paid Social", "Unassigned", "Windows",
            "b", "cpc", "date_range_0", "date_range_1", "date_range_2", "date_range_3", "first_visit",
            "generate_lead", "iOS", "job_apply", "new", "page_view", "returning", "scroll",
            "session_start", "user_engagement">>
MCText   == [s \in ToSet(Sorted) |-> SelectInSeq(Sorted, LAMBDA t : t = s)]
MCFolded == [MCText EXCEPT !["iOS"] = MCText["Windows"], !["Windows"] = MCText["iOS"]]

(***************************************************************************)
(* Bodies                                                                   *)
(***************************************************************************)
Number(n)    == [ok |-> TRUE, value |-> n]
Iso(n)       == [form |-> "iso", n |-> n]
Ago(n)       == [form |-> "ago", n |-> n]
Malformed    == [form |-> "malformed", n |-> 1]
Dates(a, b)  == [name |-> "", start |-> a, end |-> b]
Leaf(f, t)   == [filter |-> [fieldName |-> f, test |-> t]]
In(f, S)     == Leaf(f, [in |-> S])
Unreadable   == [filter |-> [test |-> <<>>], unreadable |-> TRUE]   \* "filter": 5
Asc(dim)     == Criterion(Absent, dim, FALSE, "ALPHANUMERIC")

\* Mostly defaults.
Plain == [unknown |-> FALSE, unsupported |-> FALSE, metrics |-> <<"sessions">>, dimensions |-> <<"date">>,
          limit |-> Number(0), offset |-> Number(0), dateRanges |-> <<Dates(Iso(1), Ago(0))>>,
          dimensionFilter |-> <<>>, metricFilter |-> <<>>, orderBys |-> <<>>,
          keepEmptyRows |-> FALSE, metricAggregations |-> <<>>]

AllAggregations == <<"TOTAL", "MAXIMUM", "MINIMUM", "METRIC_AGGREGATION_UNSPECIFIED">>
People == <<"sessions", "totalUsers", "activeUsers", "newUsers", "engagedSessions", "engagementRate">>
Counts == <<"screenPageViews", "eventCount", "keyEvents", "totalUsers", "sessions">>

Calendar ==
  [Plain EXCEPT !.metrics = People, !.keepEmptyRows = TRUE, !.metricAggregations = AllAggregations,
                !.dateRanges = <<Dates(Iso(-1), Iso(1)), [Dates(Iso(1), Iso(3)) EXCEPT !.name = "b"]>>]
Pages  == [Plain EXCEPT !.metrics = Counts, !.dimensions = <<"pagePath">>, !.limit = Number(2),
                        !.metricAggregations = AllAggregations]
Happen == [Plain EXCEPT !.metrics = Counts, !.dimensions = <<"eventName", "date">>, !.limit = Number(1),
                        !.offset = Number(1), !.metricAggregations = <<"TOTAL">>]
Both   == [Plain EXCEPT !.metrics = Counts, !.dimensions = <<"pagePath", "eventName">>, !.limit = Number(9)]
Whole  == [Plain EXCEPT !.metrics = People, !.dimensions = <<>>, !.metricAggregations = AllAggregations,
                        !.dateRanges = <<Dates(Iso(2), Iso(2)), Dates(Iso(1), Iso(2))>>]
Filtered ==
  [Plain EXCEPT !.metrics = Counts, !.dimensions = <<"newVsReturning">>, !.metricAggregations = <<"TOTAL">>,
     !.dateRanges = <<Dates(Iso(1), Ago(0)), Dates(Iso(2), Iso(2))>>,
     !.dimensionFilter = << [orGroup |-> <<2, 3, 7>>], In("pagePath", {Contact}),
                            [andGroup |-> <<4, 6>>], [notExpression |-> 5],
                            Leaf("sessionMedium", [empty |-> TRUE]),
                            Leaf("date", [operation |-> "GREATER_THAN", reference |-> 1]),
                            In("eventName", {"job_apply"}) >>]
Having2 ==
  [Plain EXCEPT !.metrics = <<"sessions">>, !.dimensions = <<"sessionDefaultChannelGroup", "operatingSystem">>,
     !.metricFilter = << Leaf("totalUsers", [from |-> Scale, to |-> 2 * Scale]) >>,
     !.orderBys = << Criterion(Absent, "operatingSystem", TRUE, "CASE_INSENSITIVE_ALPHANUMERIC"),
                     Criterion("sessions", Absent, FALSE, "") >>]
Weekly ==
  [Plain EXCEPT !.metrics = <<"sessionsPerUser", "bounceRate", "averageSessionDuration">>,
     !.dimensions = <<"week", "dayOfWeek", "month">>,
     !.dateRanges = <<Dates(Iso(1), Iso(5)), Dates(Iso(2), Iso(2))>>, !.keepEmptyRows = TRUE,
     !.orderBys = << Criterion(Absent, DIMENSION_RANGE, TRUE, ""), Asc("dayOfWeek") >>]
Bare == [Plain EXCEPT !.metrics = <<>>, !.dimensions = <<"landingPage", "yearMonth">>, !.metricAggregations = <<"TOTAL">>]

CommonBodies == <<Calendar, Pages, Happen, Both, Whole, Filtered, Having2, Weekly, Bare>>

\* One thing wrong, or nearly; the last two have two ranges of one name.
Faults == <<
  [Plain EXCEPT !.unknown = TRUE], [Plain EXCEPT !.unsupported = TRUE],
  [Plain EXCEPT !.metrics = <<IllTyped>>], [Plain EXCEPT !.metrics = <<"date">>],
  [Plain EXCEPT !.dimensions = <<"date", "date">>],
  [Plain EXCEPT !.limit = [ok |-> FALSE, value |-> 0]], [Plain EXCEPT !.limit = Number(-1)],
  [Plain EXCEPT !.offset = Number(-1)], [Plain EXCEPT !.limit = Number(99)], [Plain EXCEPT !.offset = Number(7)],
  [Plain EXCEPT !.dateRanges = <<>>],
  [Plain EXCEPT !.dateRanges = [i \in 1 .. MAX_RANGES + 1 |-> Dates(Iso(1), Iso(1))]],
  [Plain EXCEPT !.dateRanges = <<Dates(Malformed, Iso(1))>>],
  [Plain EXCEPT !.dateRanges = <<Dates(Ago(9), Iso(1))>>], [Plain EXCEPT !.dateRanges = <<Dates(Ago(5), Iso(1))>>],
  [Plain EXCEPT !.dateRanges = <<Dates(Iso(9), Iso(1))>>], [Plain EXCEPT !.dateRanges = <<Dates(Iso(2), Iso(1))>>],
  [Plain EXCEPT !.dimensions = <<>>, !.metrics = <<>>],
  [Plain EXCEPT !.dimensionFilter = <<Ill>>], [Plain EXCEPT !.dimensionFilter = <<In("sessions", {})>>],
  [Plain EXCEPT !.dimensionFilter = <<[orGroup |-> <<>>]>>],
  [Plain EXCEPT !.dimensionFilter = <<Unreadable>>],
  [Plain EXCEPT !.dimensionFilter = <<[andGroup |-> <<2, 3>>], Unreadable, [orGroup |-> <<>>]>>],
  [Plain EXCEPT !.dimensionFilter = <<[andGroup |-> <<2, 3>>], [orGroup |-> <<>>], Unreadable>>],
  [Plain EXCEPT !.metricFilter = <<Leaf("sessions", [operation |-> "ABOUT", reference |-> 1])>>],
  [Plain EXCEPT !.metricFilter = <<Leaf("sessions", [operation |-> "LESS_THAN", reference |-> 0])>>,
                !.metricAggregations = <<"TOTAL">>],
  [Plain EXCEPT !.orderBys = <<Asc("week")>>],
  [Plain EXCEPT !.orderBys = <<Criterion(Absent, IllTyped, FALSE, "")>>],
  [Plain EXCEPT !.orderBys = <<Criterion(IllTyped, "date", FALSE, "")>>],
  [Plain EXCEPT !.orderBys = <<Criterion("date", Absent, FALSE, "")>>],
  [Plain EXCEPT !.orderBys = <<Asc("sessions")>>],
  [Plain EXCEPT !.metricAggregations = <<"COUNT">>], [Plain EXCEPT !.metricAggregations = <<"MEAN">>],
  [Plain EXCEPT !.dateRanges = <<Dates(Iso(-1), Iso(3))>>, !.metrics = People,
                !.dimensions = <<"date", "week", "operatingSystem">>],
  [Pages EXCEPT !.dateRanges = [i \in 1 .. 2 |-> [Dates(Iso(i), Iso(2)) EXCEPT !.name = "b"]]],
  [Calendar EXCEPT !.dateRanges = [i \in 1 .. 2 |-> [Dates(Iso(1), Iso(i)) EXCEPT !.name = "b"]]] >>

MCBodies == CommonBodies \o Faults
MCCommon == DOMAIN CommonBodies
=============================================================================
