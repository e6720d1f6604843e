-------------------------- MODULE SessionGenerator --------------------------
(***************************************************************************)
(* build_day (dataset/sessions.py): the sessions of a day, new visitors     *)
(* first, then returning ones, then those a campaign brings.  A draw of the *)
(* pseudo-random generator is a choice; what it can come to is not.         *)
(***************************************************************************)
EXTENDS Integers, Sequences, SequencesExt, FiniteSetsExt

CONSTANTS
  HISTORY_START, LastDay,       \* the days generated: HISTORY_START .. LastDay
  Volume,                       \* _organic_volume, rounded, by day
  Campaigns,                    \* CAMPAIGNS: [name, start, end, extra, landings]
  OrganicMix,                   \* _ORGANIC_MIX and _LANDING_BY_CHANNEL: [channel, medium, landings]
  Systems,                      \* operating systems
  HOME_PAGE, PAGE_CONTACT, ABOUT_PAGE,
  EXPERTISE_PAGES, CASE_STUDY_PAGES, BLOG_PAGES, JOB_PAGES,   \* sequences of pages
  EXPERTISE_INDEX, CASE_STUDY_INDEX, BLOG_INDEX, JOB_INDEX,
  MaxFollowups,                 \* bound: _FOLLOWUP_COUNT_WEIGHTS allows five
  MaxVariety                    \* bound: uncommon draws in a whole world

ASSUME HistoryAssumption == HISTORY_START \in Int /\ LastDay \in Int
ASSUME CampaignAssumption ==
  /\ Len(Campaigns) \in Nat
  /\ \A i \in 1 .. Len(Campaigns) :
       Campaigns[i].start \in Int /\ Campaigns[i].end \in Int /\ Campaigns[i].extra \in Nat
ASSUME BoundAssumption  == MaxFollowups \in Nat /\ MaxVariety \in Nat
ASSUME VolumeAssumption == \A d \in HISTORY_START .. LastDay : Volume[d] \in Nat \ {0}

VARIABLES
  world,     \* the days built so far: world[i] is the i-th day's sessions, in order
  planned,   \* planned_new(seed, d)
  day        \* the day under construction: [organic, extras], and the uncommon draws so far

gvars == <<world, planned, day>>

History  == HISTORY_START .. LastDay
Building == HISTORY_START + Len(world) - 1

\* What build_day gives for a day that is built; nothing before the history.
SessionsOf(d) == IF d \in HISTORY_START .. Building THEN world[d - HISTORY_START + 1] ELSE <<>>

(***************************************************************************)
(* Navigation                                                               *)
(***************************************************************************)
FirstOf(pages, n)      == ToSet(SubSeq(pages, 1, Min({n, Len(pages)})))
Others(pages, page, n) == FirstOf(SelectSeq(pages, LAMBDA p : p # page), n)

\* _navigation_graph: where a visitor may go from a page.
FollowUps(page) ==
  CASE page = HOME_PAGE -> {EXPERTISE_INDEX, CASE_STUDY_INDEX, BLOG_INDEX, JOB_INDEX, ABOUT_PAGE, PAGE_CONTACT}
    [] page = EXPERTISE_INDEX  -> ToSet(EXPERTISE_PAGES)
    [] page = CASE_STUDY_INDEX -> ToSet(CASE_STUDY_PAGES)
    [] page = BLOG_INDEX       -> ToSet(BLOG_PAGES)
    [] page = JOB_INDEX        -> ToSet(JOB_PAGES)
    [] page = ABOUT_PAGE       -> {PAGE_CONTACT, EXPERTISE_INDEX, HOME_PAGE}
    [] page \in ToSet(EXPERTISE_PAGES)  -> {CASE_STUDY_INDEX, PAGE_CONTACT} \cup (ToSet(EXPERTISE_PAGES) \ {page})
    [] page \in ToSet(CASE_STUDY_PAGES) -> {PAGE_CONTACT} \cup FirstOf(EXPERTISE_PAGES, 2)
                                             \cup Others(CASE_STUDY_PAGES, page, 2)
    [] page \in ToSet(BLOG_PAGES) -> {EXPERTISE_PAGES[1], PAGE_CONTACT, BLOG_INDEX} \cup Others(BLOG_PAGES, page, 3)
    [] page \in ToSet(JOB_PAGES)  -> {PAGE_CONTACT, JOB_INDEX} \cup Others(JOB_PAGES, page, 2)
    [] OTHER -> {}             \* /contact is terminal

\* _browse: up to MaxFollowups pages after the landing page.
Browses(landing) ==
  LET paths[n \in 0 .. MaxFollowups] ==
        IF n = 0 THEN {<<landing>>}
        ELSE UNION {{p} \cup {Append(p, next) : next \in FollowUps(Last(p))} : p \in paths[n - 1]}
  IN paths[MaxFollowups]

(***************************************************************************)
(* Volumes                                                                  *)
(***************************************************************************)
\* Mutant: more may be born than the day has sessions for.
NewShareWide == 100 .. 150

\* Percents of the volume: less than the least of Organic.
NewShare == 50 .. 64

Rounded(volume, percent) == (volume * percent + 50) \div 100

\* planned_new: drawn by itself, so that other days can ask for it.
PlannedNew(d) == {Max({1, Rounded(Volume[d], percent)}) : percent \in NewShare}

Organic(d) == {Rounded(Volume[d], percent) : percent \in 85 .. 115}

\* _ramp, in fifths: up over five days and down over five.
Ramp(c, d) ==
  IF d \in c.start .. c.end THEN Min({5, d - c.start + 1, c.end - d + 1}) ELSE 0

\* The sessions a campaign adds, as so many copies of its index.
Extras(i, d) ==
  {[n \in 1 .. (Campaigns[i].extra * Ramp(Campaigns[i], d) * percent + 250) \div 500 |-> i] :
     percent \in {70, 100, 130}}

AllExtras(d) ==
  LET extras[i \in 0 .. Len(Campaigns)] ==
        IF i = 0 THEN {<<>>} ELSE {e \o f : e \in extras[i - 1], f \in Extras(i, d)}
  IN extras[Len(Campaigns)]

(***************************************************************************)
(* One session                                                              *)
(***************************************************************************)
UserId(birth, index) == <<birth, index>>

VisitorsOf(birth) == {UserId(birth, j) : j \in 0 .. planned[birth] - 1}

\* _visitor_birth: at least a day ago, or the first day of all.
Returning(d) ==
  UNION {VisitorsOf(birth) : birth \in {Max({HISTORY_START, d - offset}) : offset \in 1 .. d}}

\* How long a visit lasts: on one page, short of or past ten seconds engaged.
Stays(pages) ==
  IF Len(pages) = 1
  THEN {[duration |-> 8, engagement |-> 5], [duration |-> 20, engagement |-> 12]}
  ELSE {[duration |-> 25 + 45 * (Len(pages) - 1), engagement |-> 15 + 27 * (Len(pages) - 1)]}

\* Mutant: a key event does not make a session engaged.
EngagedByStay(pages, engagement, lead, job) == engagement >= 10 \/ Len(pages) >= 2

Engaged(pages, engagement, lead, job) ==
  engagement >= 10 \/ lead \/ job \/ Len(pages) >= 2

\* _events, in their order.
Events(pages, isNew, engaged, scrolls, lead, job) ==
  LET When(cond, name, n) == IF cond THEN <<[name |-> name, count |-> n]>> ELSE <<>>
  IN When(TRUE, "session_start", 1) \o When(TRUE, "page_view", Len(pages))
     \o When(isNew, "first_visit", 1) \o When(engaged, "user_engagement", 1)
     \o When(scrolls > 0, "scroll", scrolls)
     \o When(lead, "generate_lead", 1) \o When(job, "job_apply", 1)

\* _acquisition: a campaign's visitors land where it says, the others by channel.
From(m, landings) ==
  {[channel |-> m.channel, medium |-> m.medium, landing |-> l] : l \in landings}

Acquisitions(campaign) ==
  IF campaign = 0
  THEN UNION {From(m, m.landings) : m \in ToSet(OrganicMix)}
  ELSE From(Campaigns[campaign], Campaigns[campaign].landings)

\* Everything else that is drawn for a session.
Visits(campaign) ==
  UNION {UNION {
    [acquisition : {a}, pages : {pages}, system : ToSet(Systems), stay : Stays(pages),
     scrolls : 0 .. Len(pages),
     lead : {l \in BOOLEAN : l => PAGE_CONTACT \in ToSet(pages)},
     job  : {j \in BOOLEAN : j => ToSet(pages) \cap ToSet(JOB_PAGES) # {}}] :
       pages \in Browses(a.landing)} : a \in Acquisitions(campaign)}

One(cond) == IF cond THEN 1 ELSE 0

\* How far a visit is from a glance at the first page a visitor may land on.
Variety(v, campaign) ==
  Len(v.pages) - 1 + v.scrolls + One(v.system # Systems[1]) + One(v.stay.duration = 20)
    + One(v.lead) + One(v.job)
    + One(campaign = 0 /\ (v.pages[1] # HOME_PAGE \/ v.acquisition.channel # OrganicMix[1].channel))

\* _build_session.
Session(d, index, isNew, user, v) ==
  LET engaged == Engaged(v.pages, v.stay.engagement, v.lead, v.job)
  IN [id |-> <<d, index>>, date |-> d, user |-> user, isNew |-> isNew,
      channel |-> v.acquisition.channel, medium |-> v.acquisition.medium,
      system |-> v.system, landing |-> v.acquisition.landing, pages |-> v.pages,
      duration |-> v.stay.duration, engagement |-> v.stay.engagement, engaged |-> engaged,
      events |-> Events(v.pages, isNew, engaged, v.scrolls, v.lead, v.job)]

(***************************************************************************)
(* build_day                                                                *)
(***************************************************************************)
Sessions == Last(world)
Index    == Len(Sessions)       \* of the next session
DayDone  == world # <<>> => Index = day.organic + Len(day.extras)
WorldDone == Building = LastDay /\ DayDone

OpenDay ==
  /\ DayDone /\ Building < LastDay
  /\ \E organic \in Organic(Building + 1), extras \in AllExtras(Building + 1) :
       day' = [day EXCEPT !.organic = organic, !.extras = extras]
  /\ world' = Append(world, <<>>)
  /\ UNCHANGED planned

NewCount == Min({planned[Building], day.organic})

Add(isNew, user, campaign) ==
  /\ \E v \in Visits(campaign) :
       /\ day.variety + Variety(v, campaign) <= MaxVariety
       /\ day' = [day EXCEPT !.variety = @ + Variety(v, campaign)]
       /\ world' = [world EXCEPT ![Len(world)] =
                      Append(@, Session(Building, Index, isNew, user, v))]
  /\ UNCHANGED planned

CampaignOf(index) == IF index < day.organic THEN 0 ELSE day.extras[index - day.organic + 1]

AddNew ==
  /\ ~DayDone /\ Index < NewCount
  /\ Add(TRUE, UserId(Building, Index), CampaignOf(Index))

AddReturning ==
  /\ ~DayDone /\ Index >= NewCount
  /\ \E user \in Returning(Building) : Add(FALSE, user, CampaignOf(Index))

GInit ==
  /\ world = <<>>
  /\ planned \in {p \in [History -> UNION {PlannedNew(d) : d \in History}] :
                   \A d \in History : p[d] \in PlannedNew(d)}
  /\ day = [organic |-> 0, extras |-> <<>>, variety |-> 0]

Build == OpenDay \/ AddNew \/ AddReturning
=============================================================================
