--------------------- MODULE IncrementalConsumer_proofs ---------------------
(***************************************************************************)
(* Freshness for every calendar, offset rule, window and traffic: the cache *)
(* is faithful, and on a faithful cache what is visible is a function of    *)
(* seed and clock alone, monotone in the clock and complete once settled.   *)
(* Then its consumer: with a window that is wide enough it holds an         *)
(* archive, whatever the calendar, the traffic, the lags and the jumps of   *)
(* the clock.                                                               *)
(***************************************************************************)
EXTENDS IncrementalConsumer, TLAPS

\* Whatever is drawn for a day is a session of that day.
LEMMA DrawnSessions ==
  ASSUME NEW sd \in Seeds, NEW d \in Days, NEW s \in BuildDay(sd, d)
  PROVE  /\ s \in Sessions /\ s.date = d
         /\ s.date \in Nat /\ s.time \in 0 .. DayLength - 1 /\ s.lag \in 0 .. FreshnessTicks - 1
<1>1. s \in Traffic[sd][d]
  BY DEF BuildDay
<1>2. s \in Sessions /\ s.date = d
  <2>1. Traffic[sd] \in [Days -> SUBSET Sessions]
    BY TrafficAssumption
  <2>2. Traffic[sd][d] \subseteq Sessions
    BY <2>1
  <2> QED
    BY <1>1, <2>2, TrafficAssumption
<1> QED
  BY <1>2, ClockAssumption DEF Sessions, Days

LEMMA OffsetIsNat == \A d : ParisOffset(d) \in Nat
BY ClockAssumption DEF ParisOffset

LEMMA InstantIsInt ==
  ASSUME NEW s, s.date \in Nat, s.time \in Int  PROVE Instant(s) \in Int
<1>1. s.date * DayLength \in Int
  BY ClockAssumption
<1> QED
  BY <1>1, OffsetIsNat DEF Instant

(***************************************************************************)
(* The inductive invariant                                                  *)
(***************************************************************************)
\* Types and the cache: neither says enough of a step without the other.
FreshInv == TypeOK /\ CacheFaithful

\* A faithful cache is no more than a memory of build_day.
LEMMA DayIsBuilt == ASSUME CacheFaithful, NEW d PROVE Day(d) = BuildDay(seed, d)
BY DEF CacheFaithful, Day

LEMMA InitInv == Init => FreshInv
BY TrafficAssumption, ClockAssumption DEF Init, FreshInv, TypeOK, CacheFaithful

LEMMA ReadInv ==
  ASSUME FreshInv, NEW range \in SUBSET Days, Read(range)  PROVE FreshInv'
<1> USE DEF FreshInv
<1>1. TypeOK'
  BY DEF Read, TypeOK
<1>2. ASSUME NEW d \in DOMAIN days' PROVE days'[d] = BuildDay(seed, d)'
  <2>1. days'[d] = Day(d)
    BY <1>2 DEF Read
  <2>2. BuildDay(seed, d)' = BuildDay(seed, d)
    BY DEF Read, BuildDay
  <2> QED
    BY <2>1, <2>2, DayIsBuilt
<1> QED
  BY <1>1, <1>2 DEF CacheFaithful

LEMMA AdvanceInv ==
  ASSUME FreshInv, NEW n \in Advances, Advance(n)  PROVE FreshInv'
<1>1. TypeOK'
  BY ClockAssumption DEF Advance, TypeOK, FreshInv
<1>2. CacheFaithful'
  BY DEF Advance, CacheFaithful, BuildDay, FreshInv
<1> QED
  BY <1>1, <1>2 DEF FreshInv

LEMMA ResetInv ==
  ASSUME NEW sd \in Seeds, Reset(sd)  PROVE FreshInv'
BY DEF Reset, TypeOK, CacheFaithful, FreshInv

LEMMA StutterInv ==
  ASSUME FreshInv, UNCHANGED vars  PROVE FreshInv'
BY DEF FreshInv, vars, TypeOK, CacheFaithful, BuildDay

LEMMA StepInv == FreshInv /\ [Next]_vars => FreshInv'
<1> SUFFICES ASSUME FreshInv, [Next]_vars PROVE FreshInv'
  OBVIOUS
<1>1. ASSUME NEW range \in Ranges, Read(range) PROVE FreshInv'
  <2>1. range \in SUBSET Days
    BY <1>1, ClockAssumption DEF Ranges, Days
  <2> QED
    BY <1>1, <2>1, ReadInv
<1> QED
  BY <1>1, AdvanceInv, ResetInv, StutterInv DEF Next

LEMMA Invariance == Spec => []FreshInv
BY InitInv, StepInv, PTL DEF Spec

(***************************************************************************)
(* Theorems                                                                 *)
(***************************************************************************)
\* state.py: the state keeps its shape through reads, advances and resets.
THEOREM TypeCorrect == Spec => []TypeOK
<1>1. FreshInv => TypeOK
  BY DEF FreshInv
<1> QED
  BY <1>1, Invariance, PTL

\* state.py, day: a cached day is what build_day would give now, though the
\* cache is keyed by the day alone.
THEOREM CacheIsFaithful == Spec => []CacheFaithful
<1>1. FreshInv => CacheFaithful
  BY DEF FreshInv
<1> QED
  BY <1>1, Invariance, PTL

LEMMA Later == ASSUME NEW i \in Int, NEW x \in Nat, NEW y \in Nat, x <= y  PROVE i + x <= i + y
OBVIOUS

\* A clock that does not go back only adds to what is visible of a day.
LEMMA VisibleGrows ==
  ASSUME FreshInv, FreshInv', offset <= offset', seed' = seed, NEW d \in Days
  PROVE  VisibleSessions(d) \subseteq VisibleSessions(d)'
<1>1. SUFFICES ASSUME NEW s \in VisibleSessions(d) PROVE s \in VisibleSessions(d)'
  OBVIOUS
<1>2. seed \in Seeds /\ offset \in Nat /\ offset' \in Nat
  BY DEF FreshInv, TypeOK
<1>3. s \in BuildDay(seed, d) /\ Visible(s)
  BY DayIsBuilt DEF VisibleSessions, FreshInv
<1>4. Instant(s) \in Int /\ s.lag \in Int
  BY <1>2, <1>3, DrawnSessions, InstantIsInt, ClockAssumption
<1>5. Visible(s)'
  <2>1. Instant(s)' = Instant(s)
    BY DEF Instant, ParisOffset
  <2>2. Now \in Int /\ Now' \in Int /\ Now <= Now'
    <3>1. Now = Anchor + offset /\ Now' = Anchor + offset'
      BY DEF Now
    <3>2. Anchor + offset <= Anchor + offset'
      BY <1>2, Later, ClockAssumption
    <3>3. Anchor + offset \in Int /\ Anchor + offset' \in Int
      BY <1>2, ClockAssumption
    <3> QED
      BY <3>1, <3>2, <3>3
  <2> QED
    BY <1>3, <1>4, <2>1, <2>2 DEF Visible
<1>6. Day(d)' = BuildDay(seed, d)
  BY DEF FreshInv, CacheFaithful, Day, BuildDay
<1> QED
  BY <1>3, <1>5, <1>6 DEF VisibleSessions

\* freshness.md:32: days grow monotonically as the clock advances, over any
\* change of the local offset; only a reset takes sessions back.
THEOREM DaysGrow == Spec => DaysOnlyGrow
<1>1. FreshInv /\ FreshInv' /\ [Next]_vars =>
        [offset' >= offset /\ seed' = seed =>
           \A d \in Days : VisibleSessions(d) \subseteq VisibleSessions(d)']_vars
  BY VisibleGrows
<1> QED
  BY <1>1, Invariance, PTL DEF Spec, DaysOnlyGrow

\* Whatever the past of the cache: once settled, all that is drawn is visible.
LEMMA SettledDays == FreshInv => SettledIsComplete
<1> SUFFICES ASSUME FreshInv, NEW d \in Days, Settled(d)
             PROVE  VisibleSessions(d) = BuildDay(seed, d)
  BY DEF SettledIsComplete
<1>1. seed \in Seeds /\ offset \in Nat
  BY DEF FreshInv, TypeOK
<1>2. ASSUME NEW s \in BuildDay(seed, d) PROVE Visible(s)
  <2>1. s.date = d /\ s.time \in 0 .. DayLength - 1 /\ s.lag \in 0 .. FreshnessTicks - 1
    BY <1>1, DrawnSessions
  <2>2. d \in Nat /\ DayLength \in Nat /\ FreshnessTicks \in Nat /\ ParisOffset(d) \in Nat
    BY OffsetIsNat, ClockAssumption DEF Days
  <2>3. d * DayLength \in Int /\ (d + 1) * DayLength = d * DayLength + DayLength
    BY <2>2
  <2>4. Now \in Int
    BY <1>1, ClockAssumption DEF Now
  <2>5. d * DayLength + DayLength - ParisOffset(d) + FreshnessTicks <= Now
    BY <2>2, <2>3, <2>4 DEF Settled
  <2>6. Instant(s) = d * DayLength + s.time - ParisOffset(d)
    BY <2>1 DEF Instant
  <2> QED
    BY <2>1, <2>2, <2>3, <2>4, <2>5, <2>6 DEF Visible
<1>3. Day(d) = BuildDay(seed, d)
  BY DayIsBuilt DEF FreshInv
<1> QED
  BY <1>2, <1>3 DEF VisibleSessions

\* freshness.md:31: a day out of its window is complete, whatever was drawn
\* for it and whichever offset its month has.
THEOREM SettledComplete == Spec => []SettledIsComplete
BY SettledDays, Invariance, PTL

(***************************************************************************)
(* Local days                                                               *)
(***************************************************************************)
LEMMA DivBounds ==
  ASSUME NEW i \in Int, NEW n \in Nat \ {0}
  PROVE  i \div n \in Int /\ n * (i \div n) <= i /\ i < n * (i \div n) + n
OBVIOUS

LEMMA TimesCancels ==
  ASSUME NEW i \in Int, NEW j \in Int, NEW n \in Nat \ {0}, i * n < j * n
  PROVE  i < j
OBVIOUS

LEMMA TimesGrows ==
  ASSUME NEW i \in Int, NEW j \in Int, NEW n \in Nat, i <= j
  PROVE  i * n <= j * n
OBVIOUS

\* The day of UTC that decides the clock's offset.
UtcDay == Now \div DayLength

\* Where the clock stands in its day of UTC and in its local one.
LEMMA ClockDays ==
  ASSUME TypeOK
  PROVE  /\ Now \in Int /\ UtcDay \in Int /\ Today \in Int
         /\ LocalNow = Now + ParisOffset(UtcDay)
         /\ UtcDay * DayLength <= Now /\ Now < UtcDay * DayLength + DayLength
         /\ Today * DayLength <= LocalNow /\ LocalNow < Today * DayLength + DayLength
<1>1. Now \in Int
  BY ClockAssumption DEF Now, TypeOK
<1>2. UtcDay \in Int /\ UtcDay * DayLength <= Now /\ Now < UtcDay * DayLength + DayLength
  BY <1>1, DivBounds, ClockAssumption DEF UtcDay
<1>3. LocalNow = Now + ParisOffset(UtcDay)
  BY DEF LocalNow, UtcDay
<1>4. LocalNow \in Int
  BY <1>1, <1>3, OffsetIsNat
<1>5. Today \in Int /\ Today * DayLength <= LocalNow /\ LocalNow < Today * DayLength + DayLength
  BY <1>4, DivBounds, ClockAssumption DEF Today
<1> QED
  BY <1>1, <1>2, <1>3, <1>5

\* sessions.py:636-638, "Future days need no guard": a session shows before its
\* local day on the night of the change to summer time only.
THEOREM FutureHidden == Spec => []FutureInvisible
<1>1. FreshInv => FutureInvisible
  <2> SUFFICES ASSUME FreshInv, NEW d \in Days, d > Today, NEW s \in VisibleSessions(d)
               PROVE  d = Today + 1 /\ SpringNight
    BY DEF FutureInvisible
  <2> DEFINE D == DayLength
             u == UtcDay
  <2>1. /\ Now \in Int /\ Today \in Int /\ LocalNow = Now + ParisOffset(u)
        /\ Today * D <= LocalNow /\ LocalNow < Today * D + D
    BY ClockDays DEF FreshInv
  <2>2. /\ d \in Int /\ d * D \in Int /\ Today * D \in Int /\ D \in Nat \ {0}
        /\ (Today + 1) * D = Today * D + D /\ (d - 1) * D = d * D - D
        /\ ParisOffset(u) \in Nat /\ ParisOffset(d) \in Nat
    BY <2>1, OffsetIsNat, ClockAssumption DEF Days
  <2>3. d * D - ParisOffset(d) <= Now
    <3>1. s \in BuildDay(seed, d) /\ Visible(s) /\ seed \in Seeds
      BY DayIsBuilt DEF VisibleSessions, FreshInv, TypeOK
    <3>2. s.date = d /\ s.time \in 0 .. D - 1 /\ s.lag \in 0 .. FreshnessTicks - 1
      BY <3>1, DrawnSessions
    <3>3. d * D + s.time - ParisOffset(d) + s.lag <= Now
      BY <3>1, <3>2 DEF Visible, Instant
    <3>4. s.time \in Nat /\ s.lag \in Nat
      BY <3>2, ClockAssumption
    <3> HIDE DEF D
    <3> QED
      BY <2>1, <2>2, <3>3, <3>4
  <2>4. (Today + 1) * D <= d * D
    BY <2>1, <2>2, TimesGrows
  <2> HIDE DEF D, u
  <2>5. ParisOffset(u) < ParisOffset(d)
    BY <2>1, <2>2, <2>3, <2>4
  <2>6. u \notin SummerDays /\ d \in SummerDays
        /\ ParisOffset(u) = WinterOffset /\ ParisOffset(d) = SummerOffset
    BY <2>5, ClockAssumption DEF ParisOffset
  <2>7. d = Today + 1
    <3>1. (d - 1) * D < (Today + 1) * D
      BY <2>1, <2>2, <2>3, <2>6, ClockAssumption DEF D
    <3>2. d - 1 < Today + 1
      BY <2>1, <2>2, <3>1, TimesCancels
    <3> QED
      BY <2>1, <2>2, <3>2
  <2>8. LocalNow + (SummerOffset - WinterOffset) >= (Today + 1) * D
    BY <2>1, <2>2, <2>3, <2>6, <2>7, ClockAssumption
  <2> QED
    BY <2>6, <2>7, <2>8 DEF SpringNight, UtcDay, D, u
<1> QED
  BY <1>1, Invariance, PTL

(***************************************************************************)
(* The consumer                                                             *)
(***************************************************************************)
\* The days of the window before its last two last as long as a lag may: four
\* days for 48 hours.
WideEnough == (Window - 2) * DayLength >= FreshnessTicks

(***************************************************************************)
(* The last extraction of a day                                             *)
(***************************************************************************)
\* On the last local day whose window still holds d, d is settled at any hour,
\* but for the change to summer time.
LEMMA LastChance ==
  ASSUME WideEnough, TypeOK, NEW d \in Days, Today = d + Window - 1, ~SpringBetween(d)
  PROVE  Settled(d)
<1> DEFINE D == DayLength
           T == Today
           u == UtcDay
<1>1. /\ Now \in Int /\ T \in Int /\ u \in Int /\ LocalNow = Now + ParisOffset(u)
      /\ u * D <= Now /\ Now < u * D + D /\ T * D <= LocalNow
  BY ClockDays
<1>2. /\ d \in Int /\ D \in Nat \ {0} /\ FreshnessTicks \in Nat /\ Window \in Nat
      /\ d * D \in Int /\ T * D \in Int /\ u * D \in Int
      /\ ParisOffset(u) \in Nat /\ ParisOffset(d) \in Nat /\ ParisOffset(u) < D
  <2>1. ParisOffset(u) < D
    BY ClockAssumption DEF ParisOffset
  <2> QED
    BY <1>1, <2>1, OffsetIsNat, ClockAssumption, WindowAssumption DEF Days
<1>3. (d + 1) * D + FreshnessTicks <= T * D
  <2>1. T * D = (d + 1) * D + (Window - 2) * D
    BY <1>2
  <2> QED
    BY <1>2, <2>1 DEF WideEnough
<1> HIDE DEF D, u, T
<1>4. T * D - ParisOffset(d) <= Now
  <2>1. CASE T * D <= Now
    BY <1>1, <1>2, <2>1
  <2>2. CASE Now < T * D
    <3>1. u < T
      <4>1. u * D < T * D
        BY <1>1, <1>2, <2>2
      <4> QED
        BY <1>1, <1>2, <4>1, TimesCancels
    <3>2. T - 1 < u + 1
      <4>1. (T - 1) * D = T * D - D /\ (u + 1) * D = u * D + D
        BY <1>1, <1>2
      <4>2. (T - 1) * D < (u + 1) * D
        BY <1>1, <1>2, <4>1
      <4> QED
        BY <1>1, <1>2, <4>2, TimesCancels
    <3>3. u = d + Window - 2
      BY <1>1, <1>2, <3>1, <3>2 DEF T
    <3>4. ParisOffset(u) <= ParisOffset(d)
      BY <3>3, ClockAssumption DEF SpringBetween, ParisOffset
    <3> QED
      BY <1>1, <1>2, <3>4
  <2> QED
    BY <1>1, <1>2, <2>1, <2>2
<1>5. (d + 1) * D \in Int
  BY <1>2
<1>6. (d + 1) * D - ParisOffset(d) + FreshnessTicks <= Now
  BY <1>1, <1>2, <1>3, <1>4, <1>5
<1> QED
  BY <1>6 DEF Settled, D

(***************************************************************************)
(* The inductive invariant                                                  *)
(***************************************************************************)
\* What was held stays visible, no local day went by without an extraction,
\* and a day whose last extraction is done is held complete.
HeldVisible == \A d \in DOMAIN store : store[d] \subseteq VisibleSessions(d)

NoDaySkipped == ~Broken => last = Never \/ Today = last \/ Today = last + 1

Done(d) == d <= last - Window + 1 /\ ~SpringBetween(d)

DoneIsComplete == \A d \in DOMAIN store : Done(d) => store[d] = BuildDay(seed, d)

StoreTyped == last \in Int /\ DOMAIN store \subseteq Days /\ \A d \in DOMAIN store : d <= last

ConsInv == FreshInv /\ StoreTyped /\ HeldVisible /\ NoDaySkipped /\ DoneIsComplete

LEMMA WindowDays ==
  ASSUME NEW t \in Int
  PROVE  /\ WindowOf(t) \in SUBSET Days
         /\ \A d \in Days : d \in WindowOf(t) <=> t - Window + 1 <= d /\ d <= t
BY WindowAssumption, ClockAssumption DEF WindowOf, Days

LEMMA ConsInit == CInit => ConsInv
<1> SUFFICES ASSUME CInit PROVE ConsInv
  OBVIOUS
<1>1. FreshInv
  BY InitInv DEF CInit
<1> QED
  BY <1>1 DEF CInit, ConsInv, StoreTyped, HeldVisible, NoDaySkipped, DoneIsComplete, Never

\* Reads and advances take nothing from what is visible.
LEMMA HeldStays ==
  ASSUME ConsInv, FreshInv', seed' = seed, offset <= offset', store' = store
  PROVE  HeldVisible'
<1> SUFFICES ASSUME NEW d \in DOMAIN store PROVE store[d] \subseteq VisibleSessions(d)'
  BY DEF HeldVisible
<1>1. d \in Days
  BY DEF ConsInv, StoreTyped
<1>2. VisibleSessions(d) \subseteq VisibleSessions(d)'
  BY <1>1, VisibleGrows DEF ConsInv
<1> QED
  BY <1>2 DEF ConsInv, HeldVisible

\* What an extraction leaves in the store.
LEMMA ExtractStores ==
  ASSUME ConsInv, Extract
  PROVE  /\ ~Broken /\ Today \in Int /\ last' = Today /\ seed' = seed /\ offset' = offset
         /\ Today' = Today /\ Broken' = Broken
         /\ FreshInv'
         /\ DOMAIN store' = DOMAIN store \cup WindowOf(Today)
         /\ \A d \in WindowOf(Today) : store'[d] = VisibleSessions(d)
         /\ \A d \in DOMAIN store \ WindowOf(Today) : store'[d] = store[d]
<1>1. Today \in Int
  BY ClockDays DEF ConsInv, FreshInv
<1>2. FreshInv'
  BY <1>1, WindowDays, ReadInv DEF Extract, ConsInv
<1>3. ~Broken /\ last' = Today /\ seed' = seed /\ offset' = offset
  BY DEF Extract, Read
<1>4. Today' = Today /\ Broken' = Broken
  BY <1>3 DEF Today, LocalNow, Now, Broken, ParisOffset
<1> QED
  BY <1>1, <1>2, <1>3, <1>4 DEF Extract

LEMMA ExtractInv ==
  ASSUME WideEnough, ConsInv, Extract  PROVE ConsInv'
<1>0. /\ last \in Int /\ Today \in Int /\ Window \in Nat \ {0}
      /\ last = Never \/ Today = last \/ Today = last + 1
  BY ExtractStores, WindowAssumption DEF ConsInv, StoreTyped, NoDaySkipped
<1>1. StoreTyped'
  <2>1. \A d \in DOMAIN store : d \in Days /\ d <= last /\ d \in Int
    BY ClockAssumption DEF ConsInv, StoreTyped, Days
  <2>2. \A d \in DOMAIN store : last # Never
    BY <2>1, ClockAssumption DEF Never, Days
  <2>3. \A d \in DOMAIN store : d <= Today
    BY <1>0, <2>1, <2>2
  <2> QED
    BY <1>0, <2>1, <2>3, WindowDays, ExtractStores DEF StoreTyped
<1>2. HeldVisible'
  <2> SUFFICES ASSUME NEW d \in DOMAIN store' PROVE store'[d] \subseteq VisibleSessions(d)'
    BY DEF HeldVisible
  <2>1. d \in Days
    BY <1>1 DEF StoreTyped
  <2>2. offset \in Nat /\ offset <= offset'
    BY ExtractStores DEF ConsInv, FreshInv, TypeOK
  <2>3. VisibleSessions(d) \subseteq VisibleSessions(d)'
    BY <2>1, <2>2, ExtractStores, VisibleGrows DEF ConsInv
  <2> QED
    BY <2>3, ExtractStores DEF ConsInv, HeldVisible
<1>3. NoDaySkipped'
  BY ExtractStores DEF NoDaySkipped
<1>4. DoneIsComplete'
  <2> SUFFICES ASSUME NEW d \in DOMAIN store', Done(d)' PROVE store'[d] = BuildDay(seed, d)'
    BY DEF DoneIsComplete
  <2>1. d \in Days /\ d \in Int
    BY <1>1, ClockAssumption DEF StoreTyped, Days
  <2>2. d <= Today - Window + 1 /\ ~SpringBetween(d)
    BY ExtractStores DEF Done, SpringBetween
  <2>3. BuildDay(seed, d)' = BuildDay(seed, d)
    BY ExtractStores DEF BuildDay
  <2>4. CASE d \in WindowOf(Today)
    <3>1. Today = d + Window - 1
      BY <1>0, <2>1, <2>2, <2>4, WindowDays
    <3>2. Settled(d)
      BY <2>1, <2>2, <3>1, LastChance DEF ConsInv, FreshInv
    <3>3. VisibleSessions(d) = BuildDay(seed, d)
      BY <2>1, <3>2, SettledDays DEF ConsInv, SettledIsComplete
    <3> QED
      BY <2>3, <2>4, <3>3, ExtractStores
  <2>5. CASE d \notin WindowOf(Today)
    <3>1. d \in DOMAIN store /\ store'[d] = store[d]
      BY <2>5, ExtractStores
    <3>2. d < Today - Window + 1
      BY <1>0, <2>1, <2>2, <2>5, WindowDays
    <3>3. last # Never
      BY <2>1, <3>1, ClockAssumption DEF ConsInv, StoreTyped, Never, Days
    <3>4. Done(d)
      BY <1>0, <2>1, <2>2, <3>2, <3>3 DEF Done
    <3> QED
      BY <2>3, <3>1, <3>4 DEF ConsInv, DoneIsComplete
  <2> QED
    BY <2>4, <2>5
<1> QED
  BY <1>1, <1>2, <1>3, <1>4, ExtractStores DEF ConsInv

\* The steps that are not the consumer's own leave its copy as it is.
LEMMA OthersInv ==
  ASSUME ConsInv, UNCHANGED <<store, last, seed>>, FreshInv', offset <= offset', NoDaySkipped'
  PROVE  ConsInv'
<1>1. HeldVisible'
  BY HeldStays
<1>2. StoreTyped' /\ DoneIsComplete'
  BY DEF ConsInv, StoreTyped, DoneIsComplete, Done, SpringBetween, BuildDay
<1> QED
  BY <1>1, <1>2 DEF ConsInv

LEMMA ConsStep ==
  ASSUME WideEnough, ConsInv, [CNext]_cvars  PROVE ConsInv'
<1>0. offset \in Nat /\ FreshInv
  BY DEF ConsInv, FreshInv, TypeOK
<1>1. CASE Extract
  BY <1>1, ExtractInv
<1>2. ASSUME NEW d \in Days, Dashboard(d) PROVE ConsInv'
  <2>1. FreshInv'
    BY <1>0, <1>2, ReadInv DEF Dashboard
  <2>2. offset' = offset /\ UNCHANGED <<store, last, seed>>
    BY <1>2 DEF Dashboard, Read
  <2>3. NoDaySkipped'
    BY <2>2 DEF ConsInv, NoDaySkipped, Today, LocalNow, Now, Broken, ParisOffset
  <2> QED
    BY <1>0, <2>1, <2>2, <2>3, OthersInv
<1>3. ASSUME NEW n \in Advances, Age(n) PROVE ConsInv'
  <2>1. FreshInv'
    BY <1>0, <1>3, AdvanceInv DEF Age
  <2>2. offset <= offset' /\ UNCHANGED <<store, last, seed>> /\ ~Broken
    BY <1>0, <1>3, ClockAssumption DEF Age, Advance
  <2>3. NoDaySkipped'
    BY <1>3, <2>2 DEF ConsInv, NoDaySkipped, Age
  <2> QED
    BY <2>1, <2>2, <2>3, OthersInv
<1>4. ASSUME NEW sd \in Seeds, Restart(sd) PROVE ConsInv'
  <2>1. FreshInv'
    BY <1>4, ResetInv DEF Restart
  <2> QED
    BY <1>4, <2>1 DEF Restart, ConsInv, StoreTyped, HeldVisible, NoDaySkipped, DoneIsComplete, Never
<1>5. CASE UNCHANGED cvars
  <2>1. FreshInv'
    BY <1>0, <1>5, StutterInv DEF cvars
  <2>2. UNCHANGED <<store, last, seed, offset>>
    BY <1>5 DEF cvars, vars
  <2>3. NoDaySkipped'
    BY <2>2 DEF ConsInv, NoDaySkipped, Today, LocalNow, Now, Broken, ParisOffset
  <2> QED
    BY <1>0, <2>1, <2>2, <2>3, OthersInv
<1> QED
  BY <1>1, <1>2, <1>3, <1>4, <1>5 DEF CNext

LEMMA ConsInvariance ==
  ASSUME WideEnough  PROVE CSpec => []ConsInv
<1>1. ConsInv /\ [CNext]_cvars => ConsInv'
  BY ConsStep
<1> QED
  BY <1>1, ConsInit, PTL DEF CSpec

(***************************************************************************)
(* Theorems                                                                 *)
(***************************************************************************)
\* freshness.md:49-53: with a wide enough window, what a consumer has left is
\* final, but for days whose last extraction falls on the change to summer time.
THEOREM LeftDaysFinal ==
  ASSUME WideEnough  PROVE CSpec => []LeftIsFinalInSeason
<1>1. ConsInv => LeftIsFinalInSeason
  <2> SUFFICES ASSUME ConsInv, NEW d \in Left, ~SpringBetween(d)
               PROVE  store[d] = BuildDay(seed, d)
    BY DEF LeftIsFinalInSeason
  <2>1. d \in DOMAIN store /\ d \in Int /\ last \in Int /\ Window \in Int /\ d <= last - Window
    BY WindowAssumption, ClockAssumption DEF Left, ConsInv, StoreTyped, Days
  <2>2. Done(d)
    BY <2>1 DEF Done
  <2> QED
    BY <2>1, <2>2 DEF ConsInv, DoneIsComplete
<1> QED
  BY <1>1, ConsInvariance, PTL

\* Abbreviations for the refinement mapping.
Held   == [d \in Days |-> IF d \in DOMAIN store THEN store[d] ELSE {}]
World  == [d \in Days |-> BuildDay(seed, d)]
Sealed == {d \in Left : ~SpringBetween(d)}

\* What is held is of the world, and all of it once sealed.
HeldRight ==
  \A d \in Days : Held[d] \subseteq World[d] /\ (d \in Sealed => Held[d] = World[d])

LEMMA HeldOfWorld == ConsInv => HeldRight
<1> SUFFICES ASSUME ConsInv, NEW d \in Days
             PROVE  Held[d] \subseteq World[d] /\ (d \in Sealed => Held[d] = World[d])
  BY DEF HeldRight
<1>1. d \in DOMAIN store => store[d] \subseteq BuildDay(seed, d)
  BY DayIsBuilt DEF ConsInv, HeldVisible, VisibleSessions, FreshInv
<1>2. d \in Sealed => d \in DOMAIN store /\ Done(d)
  <2>1. d \in Int /\ last \in Int /\ Window \in Int
    BY WindowAssumption, ClockAssumption DEF ConsInv, StoreTyped, Days
  <2> QED
    BY <2>1 DEF Sealed, Left, Done
<1> QED
  BY <1>1, <1>2 DEF Held, World, ConsInv, DoneIsComplete

LEMMA SealedAreDays == ConsInv => Sealed \subseteq Days
BY DEF Sealed, Left, ConsInv, StoreTyped

\* An extraction loads the archive.
LEMMA ExtractLoads ==
  ASSUME WideEnough, ConsInv, ConsInv', Extract
  PROVE  /\ \A d \in Days : Held[d] \subseteq Held'[d] /\ Held'[d] \subseteq World[d]
         /\ \A d \in Sealed : Held'[d] = Held[d]
         /\ Sealed \subseteq Sealed'
         /\ \A d \in Sealed' : Held'[d] = World[d]
         /\ World' = World
<1>1. World' = World
  BY ExtractStores DEF World, BuildDay
<1>2. HeldRight'
  BY HeldOfWorld, PTL
<1>3. Sealed \subseteq Days /\ Sealed' \subseteq Days
  <2>1. (Sealed \subseteq Days)'
    BY SealedAreDays, PTL
  <2> QED
    BY <2>1, SealedAreDays
<1>4. ASSUME NEW d \in Days PROVE Held[d] \subseteq Held'[d]
  <2>1. d \in DOMAIN store => d \in DOMAIN store' /\ store[d] \subseteq store'[d]
    BY ExtractStores DEF ConsInv, HeldVisible
  <2> QED
    BY <2>1 DEF Held
<1>5. ASSUME NEW d \in Sealed PROVE d \in Sealed' /\ Held'[d] = Held[d]
  <2>1. d \in Days /\ d \in DOMAIN store /\ d \in Int /\ last \in Int /\ Window \in Nat \ {0}
        /\ d <= last - Window /\ ~SpringBetween(d) /\ d >= 0
    BY WindowAssumption, ClockAssumption DEF Sealed, Left, ConsInv, StoreTyped, Days
  <2>2. last # Never
    BY <2>1 DEF Never
  <2>3. Today \in Int /\ last <= Today
    BY <2>1, <2>2, ExtractStores DEF ConsInv, NoDaySkipped
  <2>4. d \notin WindowOf(Today) /\ d <= Today - Window
    BY <2>1, <2>3, WindowDays
  <2>5. d \in DOMAIN store' /\ store'[d] = store[d]
    BY <2>1, <2>4, ExtractStores
  <2>6. d \in Sealed'
    BY <2>1, <2>4, <2>5, ExtractStores DEF Sealed, Left, SpringBetween
  <2> QED
    BY <2>1, <2>5, <2>6 DEF Held
<1> QED
  BY <1>1, <1>2, <1>3, <1>4, <1>5 DEF HeldRight

\* A step that changes neither the seed nor the store is one the archive does not see.
LEMMA OthersStutter ==
  ASSUME UNCHANGED <<store, last, seed>>
  PROVE  Held' = Held /\ World' = World /\ Sealed' = Sealed
BY DEF Held, World, Sealed, Left, SpringBetween, BuildDay

\* freshness.md: with a wide enough window the consumer's extraction implements
\* an archive of one world that only grows and whose sealed days are complete.
THEOREM ConsumerKeepsArchive ==
  ASSUME WideEnough  PROVE CSpec => ImplementsArchive
<1>1. ASSUME CInit PROVE Archive!Init
  <2>1. World \in {[d \in Days |-> BuildDay(sd, d)] : sd \in Seeds}
    BY <1>1, TrafficAssumption DEF CInit, Init, World
  <2>2. Held = [d \in Days |-> {}] /\ Sealed = {}
    BY <1>1 DEF CInit, Held, Sealed, Left
  <2> QED
    BY <2>1, <2>2 DEF Archive!Init, Archive!Empty, World, Held, Sealed
<1>2. ASSUME ConsInv, ConsInv', [CNext]_cvars PROVE [Archive!Next]_(Archive!vars)
  <2>1. CASE Extract
    <3>1. Archive!Load
      BY <1>2, <2>1, ExtractLoads DEF Archive!Load, World, Held, Sealed
    <3> QED
      BY <3>1 DEF Archive!Next
  <2>2. ASSUME NEW sd \in Seeds, Restart(sd) PROVE Archive!Restart
    <3>1. World' \in {[d \in Days |-> BuildDay(s, d)] : s \in Seeds}
      BY <2>2 DEF Restart, Reset, World, BuildDay
    <3>2. Held' = [d \in Days |-> {}] /\ Sealed' = {}
      BY <2>2 DEF Restart, Held, Sealed, Left
    <3> QED
      BY <3>1, <3>2 DEF Archive!Restart, Archive!Empty, World, Held, Sealed
  <2>3. CASE UNCHANGED <<store, last, seed>>
    BY <2>3, OthersStutter DEF Archive!vars, World, Held, Sealed
  <2>4. ASSUME NEW d \in Days, Dashboard(d) PROVE UNCHANGED <<store, last, seed>>
    BY <2>4 DEF Dashboard, Read
  <2>5. ASSUME NEW n \in Advances, Age(n) PROVE UNCHANGED <<store, last, seed>>
    BY <2>5 DEF Age, Advance
  <2>6. CASE UNCHANGED cvars
    BY <2>3, <2>6 DEF cvars, vars
  <2> QED
    BY <1>2, <2>1, <2>2, <2>3, <2>4, <2>5, <2>6 DEF CNext, Archive!Next
<1> QED
  BY <1>1, <1>2, ConsInvariance, PTL DEF CSpec, ImplementsArchive, Archive!Spec
=============================================================================
