----------------------------- MODULE Freshness -----------------------------
(***************************************************************************)
(* Recent days grow.  A session is served once its processing lag has       *)
(* passed on the virtual clock; days are built on first use and cached.     *)
(* Time is counted in ticks of UTC since day 0, DayLength to a day; local   *)
(* time is UTC plus an offset that the month decides (clock.py).            *)
(***************************************************************************)
EXTENDS Integers

CONSTANTS
  LastDay,         \* days of the calendar: 0 .. LastDay
  DayLength,       \* ticks in a day
  SummerDays,      \* days of the months April to October
  SummerOffset, WinterOffset,   \* +02:00 and +01:00, in ticks
  FreshnessTicks,  \* settings.freshness_hours
  HistoryStart,    \* the first day of the generated world
  Anchor,          \* ANCHOR, in UTC ticks
  Seeds, DefaultSeed,           \* settings.seed
  Traffic,         \* Traffic[seed][d] : the sessions the generator draws for d
  Advances,        \* what POST /__admin/clock may ask for
  EndOfTime        \* the last instant datetime can represent

Days     == 0 .. LastDay
Sessions == [date : Days, time : 0 .. DayLength - 1, lag : 0 .. FreshnessTicks - 1]

ASSUME ClockAssumption ==
  /\ LastDay \in Nat /\ DayLength \in Nat \ {0} /\ FreshnessTicks \in Nat
  /\ SummerOffset \in Nat /\ WinterOffset \in Nat
  /\ WinterOffset <= SummerOffset /\ SummerOffset < DayLength
  /\ HistoryStart \in Int /\ Anchor \in Int /\ EndOfTime \in Int
  /\ Anchor <= EndOfTime /\ Advances \subseteq Nat
ASSUME TrafficAssumption ==
  /\ DefaultSeed \in Seeds
  /\ Traffic \in [Seeds -> [Days -> SUBSET Sessions]]
  /\ \A seed \in Seeds, d \in Days : \A s \in Traffic[seed][d] : s.date = d

VARIABLES
  seed,      \* state.seed
  days,      \* state._days : the days built so far
  offset     \* clock.offset_seconds, in ticks

vars == <<seed, days, offset>>

(***************************************************************************)
(* Time                                                                     *)
(***************************************************************************)
\* paris_timezone, for an instant or a naive local time on day d.
ParisOffset(d) == IF d \in SummerDays THEN SummerOffset ELSE WinterOffset

Now == Anchor + offset

\* virtual_now raises OverflowError past the last representable instant.
Broken == Now > EndOfTime

\* Mutant: dates are those of UTC.
LocalNowUtc == Now

LocalNow == Now + ParisOffset(Now \div DayLength)
Today    == LocalNow \div DayLength

\* A session's `ts' carries the offset of its own local month.
Instant(s) == s.date * DayLength + s.time - ParisOffset(s.date)

(***************************************************************************)
(* state.day and state.visible_sessions                                     *)
(***************************************************************************)
\* build_day: a pure function of the seed and the day.
BuildDay(sd, d) == IF d < HistoryStart THEN {} ELSE Traffic[sd][d]

\* Mutant: local times compared without their offsets.
VisibleNaive(s) == s.date * DayLength + s.time + s.lag <= LocalNow

Visible(s) == Instant(s) + s.lag <= Now

\* What `day' returns: the cached day, or the day built now.
Day(d) == IF d \in DOMAIN days THEN days[d] ELSE BuildDay(seed, d)

VisibleSessions(d) == {s \in Day(d) : Visible(s)}

\* Mutant: a day is cached as it was served.
ReadCachingVisible(range) ==
  /\ ~Broken
  /\ days' = [d \in DOMAIN days \cup range |-> VisibleSessions(d)]
  /\ UNCHANGED <<seed, offset>>

\* A report reads the days of its range, one after the other, on the loop.
Read(range) ==
  /\ ~Broken
  /\ days' = [d \in DOMAIN days \cup range |-> Day(d)]
  /\ UNCHANGED <<seed, offset>>

(***************************************************************************)
(* POST /__admin/clock and /__admin/reset                                   *)
(***************************************************************************)
\* Mutant: a negative advance is let through.
AdvanceEitherWay(n) ==
  /\ ~Broken
  /\ offset' \in {offset + n, offset - n}
  /\ UNCHANGED <<seed, days>>

\* The offset is stored before virtual_now is computed for the answer: an
\* advance past the end of time answers 500 and stays.
Advance(n) ==
  /\ ~Broken
  /\ offset' = offset + n
  /\ UNCHANGED <<seed, days>>

\* Mutant: the cache survives.
ResetKeepingDays(sd) ==
  /\ seed'   = sd
  /\ offset' = 0
  /\ UNCHANGED days

\* An explicit seed, or the environment's.
Reset(sd) ==
  /\ seed'   = sd
  /\ days'   = [d \in {} |-> {}]
  /\ offset' = 0

Init ==
  /\ seed   = DefaultSeed
  /\ days   = [d \in {} |-> {}]
  /\ offset = 0

Ranges == {from .. to : from, to \in Days}

Next ==
  \/ \E range \in Ranges : Read(range)
  \/ \E n \in Advances : Advance(n)
  \/ \E sd \in Seeds : Reset(sd)

Spec == Init /\ [][Next]_vars

(***************************************************************************)
(* Properties                                                               *)
(***************************************************************************)
TypeOK ==
  /\ seed \in Seeds
  /\ DOMAIN days \subseteq Days
  /\ offset \in Nat

\* The cache never shows the world of another seed: whatever reads, resets
\* and advances came before, a day is what build_day would give now
\* (state.py, day: "invalidated ONLY by reset()").
CacheFaithful == \A d \in DOMAIN days : days[d] = BuildDay(seed, d)

\* Days grow and never shrink as the clock advances, over a change of the
\* local offset too; only a reset takes sessions back (freshness.md:32-33).
DaysOnlyGrow ==
  [][offset' >= offset /\ seed' = seed =>
       \A d \in Days : VisibleSessions(d) \subseteq VisibleSessions(d)']_vars

\* The end of a day's window: midnight after it, local time, plus the window.
Settled(d) == Now >= (d + 1) * DayLength - ParisOffset(d) + FreshnessTicks

\* A day out of its window is complete, hence immutable (freshness.md:31).
SettledIsComplete == \A d \in Days : Settled(d) => VisibleSessions(d) = BuildDay(seed, d)

\* Tomorrow is invisible but for one case: the night a winter month gives way
\* to a summer one, the sessions of the new month start an offset early on a
\* clock that still runs on winter time (sessions.py:638-640, clock.py:34-38).
SpringNight == /\ Now \div DayLength \notin SummerDays /\ Today + 1 \in SummerDays
               /\ LocalNow + (SummerOffset - WinterOffset) >= (Today + 1) * DayLength

FutureInvisible ==
  \A d \in Days : d > Today /\ VisibleSessions(d) # {} => d = Today + 1 /\ SpringNight
=============================================================================
