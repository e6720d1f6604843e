--------------------------- MODULE GrowingArchive ---------------------------
(***************************************************************************)
(* What re-extracting a window promises a consumer (freshness.md): its copy *)
(* of the world holds sessions of that world only, only grows, and a day    *)
(* it has sealed is complete and never written again.                       *)
(***************************************************************************)
CONSTANTS Days, Worlds

VARIABLES
  world,      \* world[d]   : the sessions of day d that there will ever be
  archive,    \* archive[d] : those the consumer holds
  sealed      \* days the consumer will not read again

vars == <<world, archive, sealed>>

Empty == [d \in Days |-> {}]

Init == world \in Worlds /\ archive = Empty /\ sealed = {}

\* More of the world arrives, and days are sealed once they are complete.
Load ==
  /\ \A d \in Days : archive[d] \subseteq archive'[d] /\ archive'[d] \subseteq world[d]
  /\ \A d \in sealed : archive'[d] = archive[d]
  /\ sealed \subseteq sealed'
  /\ \A d \in sealed' : archive'[d] = world[d]
  /\ UNCHANGED world

\* Another test begins: another world, nothing extracted.
Restart == world' \in Worlds /\ archive' = Empty /\ sealed' = {}

Next == Load \/ Restart

Spec == Init /\ [][Next]_vars
=============================================================================
