--------------------------- MODULE TokenEndpoint ---------------------------
(***************************************************************************)
(* The service-account flow (auth.py): assertions signed against one of two *)
(* clocks, the checks of validate_assertion in their order, and the         *)
(* stateless bearers that the data surface accepts by the virtual clock.    *)
(***************************************************************************)
EXTENDS Integers, Sequences, FiniteSets

CONSTANTS
  Accounts,            \* values of settings.sa_email
  TOLERANCE_SECONDS, MAX_ASSERTION_DURATION, BEARER_TTL_SECONDS,
  Anchor, WallStart,   \* where the virtual and the real clock start
  MaxOffset, MaxWall, MaxBoots, MaxTokens,   \* bounds
  Steps                \* how far a clock moves at once

ASSUME TokenAssumption ==
  /\ TOLERANCE_SECONDS \in Nat /\ MAX_ASSERTION_DURATION \in Nat
  /\ BEARER_TTL_SECONDS \in Nat \ {0}
  /\ Anchor \in Nat /\ WallStart \in Nat /\ Steps \subseteq Nat
  /\ MaxOffset \in Nat /\ MaxWall \in Nat /\ WallStart <= MaxWall
  /\ MaxBoots \in Nat \ {0} /\ MaxTokens \in Nat

VARIABLES
  account,   \* settings.sa_email
  boots,     \* processes started so far
  offset,    \* clock.offset_seconds
  wall,      \* time.time()
  tokens     \* what /token has handed out: they live in clients' hands

vars == <<account, boots, offset, wall, tokens>>

Virtual == Anchor + offset
Clocks  == {Virtual, wall}

(***************************************************************************)
(* Assertions                                                               *)
(***************************************************************************)
ACCEPTED_SCOPES == {"analytics.readonly", "analytics"}
Scopes          == ACCEPTED_SCOPES \cup {"other"}

\* Flaws of the compact form and of the header; those of the claims are in
\* the claims themselves.
Flaws == {"segments", "header", "payload", "encoding", "alg", "signature"}

\* A claim of time: a number, a string of digits, or anything else.
Forms == {"number", "digits", "other"}
Stamp(form, value) == [form |-> form, value |-> value]
\* The set of the number it denotes: empty when it is not set.
JwtInt(stamp) == IF stamp.form \in {"number", "digits"} THEN {stamp.value} ELSE {}

\* build_assertion, and a client's own signature: iat of either clock.
Build(iat, lifetime) ==
  [flaws |-> {}, iss |-> account, iat |-> Stamp("number", iat),
   exp |-> Stamp("number", iat + lifetime), scope |-> {"analytics.readonly"}, aud |-> TRUE]

\* Mutant: an expired assertion is not told from a fresh one.
WindowUnexpired(iat, exp, reference) ==
  /\ iat <= reference + TOLERANCE_SECONDS
  /\ exp > iat
  /\ exp - iat <= MAX_ASSERTION_DURATION + TOLERANCE_SECONDS

WindowValid(iat, exp, reference) ==
  /\ iat <= reference + TOLERANCE_SECONDS
  /\ exp >= reference - TOLERANCE_SECONDS
  /\ exp > iat
  /\ exp - iat <= MAX_ASSERTION_DURATION + TOLERANCE_SECONDS

\* Mutant: only the clock of the mock's world counts.
InWindowVirtual(iat, exp) == WindowValid(iat, exp, Virtual)

InWindow(iat, exp) == \E reference \in Clocks : WindowValid(iat, exp, reference)

\* Mutant: a scope of no words passes.
ScopeAskedAlways(scope) == TRUE

ScopeAsked(scope) == scope # {}

\* validate_assertion: the checks, in the order of the real endpoint.
Check(passes, code, message) == [passes |-> passes, code |-> code, message |-> message]
Accepted == Check(TRUE, "", "")

Checks(a) ==
  LET iat == JwtInt(a.iat)
      exp == JwtInt(a.exp)
  IN << Check(a.flaws \cap {"segments", "header", "payload", "encoding"} = {},
                                        "invalid_request", "Bad Request"),
        Check(a.flaws = {},             "invalid_grant",   "signature"),
        Check(a.iss = account,          "invalid_grant",   "account"),
        Check(iat # {},                 "invalid_grant",   "iat is not set"),
        Check(exp # {},                 "invalid_grant",   "exp is not set"),
        Check(\E i \in iat, e \in exp : InWindow(i, e),
                                        "invalid_grant",   "short-lived"),
        Check(ScopeAsked(a.scope),      "invalid_scope",   "scope"),
        Check(a.aud,                    "invalid_grant",   "audience") >>

\* The first that fails decides.
Verdict(a) ==
  LET checks == Checks(a)
      First(i) == ~checks[i].passes /\ \A j \in 1 .. i - 1 : checks[j].passes
  IN IF \A i \in DOMAIN checks : checks[i].passes THEN Accepted
     ELSE checks[CHOOSE i \in DOMAIN checks : First(i)]

(***************************************************************************)
(* Tokens                                                                   *)
(***************************************************************************)
\* Mutant: a key drawn when the process starts.
BearerKeyDrawn == <<account, boots>>

\* Derived from the configuration alone.
BearerKey == account

\* Mutant: one recognized scope is enough.
GrantsAny(scope) == scope \cap ACCEPTED_SCOPES # {}

\* One scope that is not Analytics' and the answer is an identity alone.
Grants(scope) == scope \subseteq ACCEPTED_SCOPES

\* The body of the answer, with the claims it was given for.
TokenResponse(a) ==
  [kind |-> IF Grants(a.scope) THEN "access_token" ELSE "id_token",
   key  |-> BearerKey,
   exp  |-> Virtual + BEARER_TTL_SECONDS,
   iss  |-> a.iss, scope |-> a.scope]

\* bearer_valid, by which the data surface opens.
Opens(token) ==
  /\ token.kind = "access_token"
  /\ token.key = BearerKey
  /\ token.exp > Virtual

(***************************************************************************)
(* Actions                                                                  *)
(***************************************************************************)
\* One thing a client may get wrong, or write differently.
Variants(a) ==
  {a} \cup {[a EXCEPT !.flaws = {f}] : f \in Flaws}
      \cup {[a EXCEPT !.iss = other] : other \in Accounts}
      \cup {[a EXCEPT !.iat.form = f] : f \in Forms}
      \cup {[a EXCEPT !.exp.form = f] : f \in Forms}
      \cup {[a EXCEPT !.scope = scope] : scope \in SUBSET Scopes}
      \cup {[a EXCEPT !.aud = FALSE]}

\* Signed just now, early or late, with a good or a bad lifetime.
Presented ==
  UNION {Variants(Build(clock + skew, lifetime)) :
    clock \in Clocks,
    skew \in {-1, 0, 1} \cup {TOLERANCE_SECONDS + 1},
    lifetime \in {-1, MAX_ASSERTION_DURATION, MAX_ASSERTION_DURATION + TOLERANCE_SECONDS + 1}}

Exchange(a) ==
  /\ Verdict(a) = Accepted
  /\ Cardinality(tokens \cup {TokenResponse(a)}) <= MaxTokens
  /\ tokens' = tokens \cup {TokenResponse(a)}
  /\ UNCHANGED <<account, boots, offset, wall>>

\* POST /__admin/clock.
Advance(n) ==
  /\ offset + n <= MaxOffset
  /\ offset' = offset + n
  /\ UNCHANGED <<account, boots, wall, tokens>>

\* The real clock runs.
Tick(n) ==
  /\ wall + n <= MaxWall
  /\ wall' = wall + n
  /\ UNCHANGED <<account, boots, offset, tokens>>

Reset == offset' = 0 /\ UNCHANGED <<account, boots, wall, tokens>>

\* The process starts again, perhaps for another account.
Restart(sa_email) ==
  /\ boots < MaxBoots
  /\ account' = sa_email
  /\ boots'   = boots + 1
  /\ offset'  = 0
  /\ UNCHANGED <<wall, tokens>>

Init ==
  /\ account \in Accounts
  /\ boots  = 1
  /\ offset = 0
  /\ wall   = WallStart
  /\ tokens = {}

Next ==
  \/ \E a \in Presented : Exchange(a)
  \/ \E n \in Steps : Advance(n) \/ Tick(n)
  \/ Reset
  \/ \E sa_email \in Accounts : Restart(sa_email)

Spec == Init /\ [][Next]_vars

(***************************************************************************)
(* Properties                                                               *)
(***************************************************************************)
TypeOK ==
  /\ account \in Accounts
  /\ boots \in 1 .. MaxBoots /\ offset \in 0 .. MaxOffset /\ wall \in WallStart .. MaxWall
  /\ \A t \in tokens : /\ t.kind \in {"access_token", "id_token"} /\ t.exp \in Nat
                       /\ t.iss \in Accounts /\ t.scope \in (SUBSET Scopes) \ {{}}

\* However far the mock's clock and the real one are apart, a client that
\* signs by either of them, with at most a tolerance of skew and a lifetime
\* of an hour, is accepted until the assertion expires (auth.py:160-166).
HonestAccepted ==
  \A clock \in Clocks, lifetime \in 1 .. MAX_ASSERTION_DURATION :
    \A age \in -TOLERANCE_SECONDS .. lifetime + TOLERANCE_SECONDS :
      Verdict(Build(clock - age, lifetime)) = Accepted

\* The assertions that expire at exp: of any lifetime, their times numbers or
\* digits, of any account and with anything else a client gets wrong.
Signed(exp, lifetime, f, g) ==
  [Build(exp - lifetime, lifetime) EXCEPT !.iat.form = f, !.exp.form = g]

Expiring(exp) ==
  UNION {Variants(Signed(exp, lifetime, f, g)) :
    lifetime \in 1 .. exp, f, g \in {"number", "digits"}}

\* "A genuinely expired assertion fails against both": from the moment it is
\* late on both clocks an assertion buys nothing, until the mock's clock is
\* turned back; a restart for the account that signed it does not revive it,
\* nor does the form its times are written in.
Late(exp) == \A clock \in Clocks : exp + TOLERANCE_SECONDS < clock

LateForGood ==
  /\ [](\A exp \in 1 .. MaxWall :
          Late(exp) => \A a \in Expiring(exp) : Verdict(a) # Accepted)
  /\ [][\A exp \in 1 .. MaxWall : Late(exp) /\ offset' >= offset => Late(exp)']_vars

\* The surface opens to whoever proved to be its account and asked for
\* Analytics alone, whatever other tokens that client was given.
OpensToItsAccount ==
  \A t \in tokens : Opens(t) => t.iss = account /\ t.scope \subseteq ACCEPTED_SCOPES

\* A bearer is lost by its age only: restarting the mock in the middle of a
\* test, or resetting it, leaves it valid (auth.py:80-84).
BearersSurvive ==
  [][\A t \in tokens :
       Opens(t) /\ account' = account /\ offset' <= offset => Opens(t)']_vars
=============================================================================
