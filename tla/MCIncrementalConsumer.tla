----------------------- MODULE MCIncrementalConsumer -----------------------
(***************************************************************************)
(* Eight days of six four-hour ticks, a 48 h window, an autumn change       *)
(* before day 2 and a spring change before day 5.  The busy seed draws      *)
(* sessions at the edges of the day with the shortest, the longest and a    *)
(* middling lag; the quiet one draws a part of them.                        *)
(***************************************************************************)
EXTENDS IncrementalConsumer

CONSTANTS busy, quiet

MCSeeds      == {busy, quiet}
MCSummerDays == {0, 1, 5, 6, 7}
MCAdvances   == {1, 4, 6, 25}

Drawn(d, times, lags) == {[date |-> d, time |-> t, lag |-> l] : t \in times, l \in lags}

MCTraffic == [sd \in MCSeeds |-> [d \in Days |->
  IF sd = busy THEN Drawn(d, {0, 3, 5}, {0, 5, 11}) ELSE Drawn(d, {5}, {11})]]
=============================================================================
