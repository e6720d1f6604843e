------------------------------- MODULE Rules -------------------------------
(***************************************************************************)
(* The failure-injection rules of injection.py and what `evaluate' makes of *)
(* them, as functions of a book of rules, a path and the number of requests *)
(* the path has received.  The Python list of rules is a set here: a rule's *)
(* id comes from a counter that only grows and rules are only appended, so  *)
(* "first in the list" is "least id" (InjectionEngine checks this of the    *)
(* list itself).  A glob scope is the set of paths it matches.              *)
(***************************************************************************)
EXTENDS Integers, FiniteSets

CONSTANTS
  Path,           \* the request paths of the served surface
  DataPaths,      \* those under /v1beta/, the scope of the baseline rule
  Persistent,     \* `times is None': the rule never runs out
  RateLimitAfter, \* settings.rate_limit_after
  Unset           \* rate_limit_after when the environment does not set it

ASSUME PathAssumption      == DataPaths \subseteq Path
ASSUME TimesAssumption     == Persistent \notin Int
ASSUME BaselineAssumption  == RateLimitAfter \in Nat \cup {Unset} /\ Unset \notin Nat

Kinds == {"rate_limit", "status", "latency", "auth_reject", "quota_exhausted"}

Rule == [id : Nat \ {0}, kind : Kinds, scope : SUBSET Path,
         times : Int \cup {Persistent}, after : Nat]

NoRule == 0    \* in the place of a rule id: nothing was injected

(***************************************************************************)
(* evaluate                                                                 *)
(***************************************************************************)
Active(book, p) == {r \in book : p \in r.scope}

OfKind(S, k) == {r \in S : r.kind = k}

\* The fixed order of the five loops.
Rank(r) == CASE r.kind = "auth_reject"     -> 1
             [] r.kind = "latency"         -> 2
             [] r.kind = "rate_limit"      -> 3
             [] r.kind = "quota_exhausted" -> 4
             [] OTHER                      -> 5

Precedes(r, s) == Rank(r) < Rank(s) \/ (Rank(r) = Rank(s) /\ r.id <= s.id)

\* The rules able to answer request number n of path p: latency never does ...
Refusing(book, p, n) ==
  {r \in Active(book, p) : /\ r.kind # "latency"
                           /\ r.kind = "rate_limit" => n > r.after}

\* ... and the one that does: a set of at most one rule.
Answering(book, p, n) ==
  {r \in Refusing(book, p, n) : \A s \in Refusing(book, p, n) : Precedes(r, s)}

\* Every latency rule applies, unless an auth_reject answers before them.
Delaying(book, p, n) ==
  IF OfKind(Answering(book, p, n), "auth_reject") # {}
    THEN {}
    ELSE OfKind(Active(book, p), "latency")

Consumed(book, p, n) == Answering(book, p, n) \cup Delaying(book, p, n)

(***************************************************************************)
(* _consume: a persistent rule stays as it is, a transient one loses a      *)
(* firing and leaves the book with its last.                                *)
(***************************************************************************)
\* Mutant: the firings are not counted down.
RenewedUnspent(r) == r

Renewed(r) == IF r.times = Persistent THEN r ELSE [r EXCEPT !.times = @ - 1]

Consume(book, S) ==
  (book \ S) \cup {Renewed(r) : r \in {s \in S : s.times = Persistent \/ s.times > 1}}

(***************************************************************************)
(* The baseline rule of reset, when the environment asks for one.           *)
(***************************************************************************)
Baseline(id) ==
  IF RateLimitAfter = Unset
    THEN {}
    ELSE {[id |-> id, kind |-> "rate_limit", scope |-> DataPaths,
           times |-> Persistent, after |-> RateLimitAfter]}
=============================================================================
