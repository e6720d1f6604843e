------------------------ MODULE IncrementalConsumer ------------------------
(***************************************************************************)
(* The pipeline the freshness model exists for (docs/features/freshness.md, *)
(* tests/test_freshness.py): it comes back at least once on every local day *)
(* and re-extracts a sliding window, merging each day it read over what it  *)
(* held.  A test may reset the mock between two steps.                      *)
(***************************************************************************)
EXTENDS Freshness

CONSTANT Window     \* days re-extracted, today included
ASSUME WindowAssumption == Window \in Nat \ {0}

VARIABLES
  store,    \* the consumer's copy: the sessions of each day it extracted
  last      \* the local day of its last extraction

Never == -1

cvars == <<vars, store, last>>

\* Mutant: the window excludes its first day.
WindowShort(today) == (today - Window + 2 .. today) \cap Days

WindowOf(today) == (today - Window + 1 .. today) \cap Days

\* Mutant: new dates are appended, old ones left as they are.
ExtractAppending ==
  /\ Read(WindowOf(Today))
  /\ store' = [d \in DOMAIN store \cup WindowOf(Today) |->
                 IF d \in DOMAIN store THEN store[d] ELSE VisibleSessions(d)]
  /\ last' = Today

\* One report per day of the window; `merge' on the grain key.
Extract ==
  /\ Read(WindowOf(Today))
  /\ store' = [d \in DOMAIN store \cup WindowOf(Today) |->
                 IF d \in WindowOf(Today) THEN VisibleSessions(d) ELSE store[d]]
  /\ last' = Today

\* Another client reads any day, one that is not over or not begun included.
Dashboard(d) == Read({d}) /\ UNCHANGED <<store, last>>

\* No local day goes by without an extraction.
Age(n) ==
  /\ Advance(n)
  /\ ~Broken' => Today' = Today \/ (last = Today /\ Today' = Today + 1)
  /\ UNCHANGED <<store, last>>

Restart(sd) == Reset(sd) /\ store' = [d \in {} |-> {}] /\ last' = Never

CInit == Init /\ store = [d \in {} |-> {}] /\ last = Never

CNext ==
  \/ Extract
  \/ \E d \in Days : Dashboard(d)
  \/ \E n \in Advances : Age(n)
  \/ \E sd \in Seeds : Restart(sd)

CSpec == CInit /\ [][CNext]_cvars

(***************************************************************************)
(* Properties                                                               *)
(***************************************************************************)
Left == {d \in DOMAIN store : d <= last - Window}

\* When a winter month turns into a summer one between a day and its last
\* extraction, local midnight comes one offset too early for its last lags.
SpringBetween(d) == d \notin SummerDays /\ d + Window - 2 \in SummerDays

\* A day that has left the window is held complete (freshness.md:50-53): what
\* arrived after its last extraction is nothing.
LeftIsFinal == \A d \in Left : store[d] = BuildDay(seed, d)

LeftIsFinalInSeason ==
  \A d \in Left : ~SpringBetween(d) => store[d] = BuildDay(seed, d)

\* What the consumer holds only grows, days it has left are never touched
\* again and are complete: the extraction implements GrowingArchive.
Archive == INSTANCE GrowingArchive WITH
  Worlds  <- {[d \in Days |-> BuildDay(sd, d)] : sd \in Seeds},
  world   <- [d \in Days |-> BuildDay(seed, d)],
  archive <- [d \in Days |-> IF d \in DOMAIN store THEN store[d] ELSE {}],
  sealed  <- {d \in Left : ~SpringBetween(d)}

ImplementsArchive == Archive!Spec
=============================================================================
