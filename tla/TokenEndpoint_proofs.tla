------------------------ MODULE TokenEndpoint_proofs ------------------------
(***************************************************************************)
(* The token endpoint for all accounts, tolerances, lifetimes and clocks.   *)
(***************************************************************************)
EXTENDS TokenEndpoint, TLAPS

(***************************************************************************)
(* The verdict                                                              *)
(***************************************************************************)
LEMMA FirstOfEight ==
  ASSUME NEW S \in SUBSET (1 .. 8), S # {}
  PROVE  \E i \in 1 .. 8 : i \in S /\ \A j \in 1 .. i - 1 : j \notin S
<1>1. CASE 1 \in S
  BY <1>1
<1>2. CASE 1 \notin S /\ 2 \in S
  BY <1>2
<1>3. CASE 1 \notin S /\ 2 \notin S /\ 3 \in S
  BY <1>3
<1>4. CASE 1 \notin S /\ 2 \notin S /\ 3 \notin S /\ 4 \in S
  BY <1>4
<1>5. CASE 1 \notin S /\ 2 \notin S /\ 3 \notin S /\ 4 \notin S
  <2>1. CASE 5 \in S
    BY <1>5, <2>1
  <2>2. CASE 5 \notin S /\ 6 \in S
    BY <1>5, <2>2
  <2>3. CASE 5 \notin S /\ 6 \notin S /\ 7 \in S
    BY <1>5, <2>3
  <2>4. CASE 5 \notin S /\ 6 \notin S /\ 7 \notin S
    <3>1. PICK i \in 1 .. 8 : i \in S
      OBVIOUS
    <3>2. i = 1 \/ i = 2 \/ i = 3 \/ i = 4 \/ i = 5 \/ i = 6 \/ i = 7 \/ i = 8
      OBVIOUS
    <3>3. 8 \in S
      BY <1>5, <2>4, <3>1, <3>2
    <3> QED
      BY <1>5, <2>4, <3>3
  <2> QED
    BY <2>1, <2>2, <2>3, <2>4
<1> QED
  BY <1>1, <1>2, <1>3, <1>4, <1>5

\* An assertion is accepted if and only if it passes every check.
LEMMA AcceptedPassesAll ==
  ASSUME NEW a
  PROVE  Verdict(a) = Accepted <=> \A i \in 1 .. 8 : Checks(a)[i].passes
<1> DEFINE checks == Checks(a)
           First(i) == ~checks[i].passes /\ \A j \in 1 .. i - 1 : checks[j].passes
           first == CHOOSE i \in 1 .. 8 : First(i)
<1>1. DOMAIN checks = 1 .. 8
  BY DEF Checks
<1>2. Verdict(a) = IF \A i \in 1 .. 8 : checks[i].passes THEN Accepted ELSE checks[first]
  BY <1>1 DEF Verdict
<1> HIDE DEF checks
<1>3. ASSUME ~\A i \in 1 .. 8 : checks[i].passes PROVE Verdict(a) # Accepted
  <2>1. \E i \in 1 .. 8 : First(i)
    <3> DEFINE S == {i \in 1 .. 8 : ~checks[i].passes}
    <3>1. S \in SUBSET (1 .. 8) /\ S # {}
      BY <1>3
    <3>2. PICK i \in 1 .. 8 : i \in S /\ \A j \in 1 .. i - 1 : j \notin S
      BY <3>1, FirstOfEight
    <3>3. \A j \in 1 .. i - 1 : j \in 1 .. 8
      OBVIOUS
    <3> QED
      BY <3>2, <3>3
  <2>2. ~checks[first].passes
    BY <2>1
  <2>3. Accepted.passes
    BY DEF Accepted, Check
  <2> QED
    BY <1>2, <1>3, <2>2, <2>3
<1> QED
  BY <1>2, <1>3 DEF checks

\* What the checks of an accepted assertion come to.
LEMMA AcceptedMeans ==
  ASSUME NEW a
  PROVE  Verdict(a) = Accepted <=>
           /\ a.flaws \cap {"segments", "header", "payload", "encoding"} = {} /\ a.flaws = {}
           /\ a.iss = account /\ JwtInt(a.iat) # {} /\ JwtInt(a.exp) # {}
           /\ \E i \in JwtInt(a.iat), e \in JwtInt(a.exp) : InWindow(i, e)
           /\ ScopeAsked(a.scope) /\ a.aud
<1>1. /\ Checks(a)[1].passes = (a.flaws \cap {"segments", "header", "payload", "encoding"} = {})
      /\ Checks(a)[2].passes = (a.flaws = {})
      /\ Checks(a)[3].passes = (a.iss = account)
      /\ Checks(a)[4].passes = (JwtInt(a.iat) # {})
      /\ Checks(a)[5].passes = (JwtInt(a.exp) # {})
      /\ Checks(a)[6].passes = (\E i \in JwtInt(a.iat), e \in JwtInt(a.exp) : InWindow(i, e))
      /\ Checks(a)[7].passes = ScopeAsked(a.scope)
      /\ Checks(a)[8].passes = a.aud
  BY DEF Checks, Check
<1>2. (\A i \in 1 .. 8 : Checks(a)[i].passes) <=>
        /\ Checks(a)[1].passes /\ Checks(a)[2].passes /\ Checks(a)[3].passes /\ Checks(a)[4].passes
        /\ Checks(a)[5].passes /\ Checks(a)[6].passes /\ Checks(a)[7].passes /\ Checks(a)[8].passes
  <2>1. \A i \in 1 .. 8 : i = 1 \/ i = 2 \/ i = 3 \/ i = 4 \/ i = 5 \/ i = 6 \/ i = 7 \/ i = 8
    OBVIOUS
  <2>2. {1, 2, 3, 4, 5, 6, 7, 8} \subseteq 1 .. 8
    OBVIOUS
  <2> QED
    BY <2>1, <2>2, Zenon
<1> QED
  BY <1>1, <1>2, AcceptedPassesAll

(***************************************************************************)
(* Assertions by either clock                                               *)
(***************************************************************************)
LEMMA ClocksAreNumbers == TypeOK => Clocks \subseteq Nat
BY TokenAssumption DEF TypeOK, Clocks, Virtual

\* What a client signs by itself fails at no check but the window.
LEMMA BuiltAccepted ==
  ASSUME NEW iat, NEW lifetime
  PROVE  Verdict(Build(iat, lifetime)) = Accepted <=> InWindow(iat, iat + lifetime)
<1> DEFINE a == Build(iat, lifetime)
<1>1. /\ a.flaws = {} /\ a.iss = account /\ a.aud /\ ScopeAsked(a.scope)
      /\ JwtInt(a.iat) = {iat} /\ JwtInt(a.exp) = {iat + lifetime}
  BY DEF Build, ScopeAsked, JwtInt, Stamp
<1> HIDE DEF a
<1>2. Verdict(a) = Accepted <=> InWindow(iat, iat + lifetime)
  BY <1>1, AcceptedMeans
<1> QED
  BY <1>2 DEF a

LEMMA HonestInWindow == TypeOK => HonestAccepted
<1> SUFFICES ASSUME TypeOK, NEW clock \in Clocks, NEW lifetime \in 1 .. MAX_ASSERTION_DURATION,
                    NEW age \in -TOLERANCE_SECONDS .. lifetime + TOLERANCE_SECONDS
             PROVE  InWindow(clock - age, clock - age + lifetime)
  BY BuiltAccepted DEF HonestAccepted
<1>1. clock \in Nat /\ TOLERANCE_SECONDS \in Nat /\ MAX_ASSERTION_DURATION \in Nat
      /\ lifetime \in Nat /\ age \in Int
  BY ClocksAreNumbers, TokenAssumption
<1>2. WindowValid(clock - age, clock - age + lifetime, clock)
  BY <1>1 DEF WindowValid
<1> QED
  BY <1>2 DEF InWindow

\* Whatever a client writes differently, the assertion expires when it does.
LEMMA ExpiringExp ==
  ASSUME NEW exp \in Nat, NEW a \in Expiring(exp)
  PROVE  a.exp.value = exp
<1>1. PICK lifetime \in 1 .. exp, f \in {"number", "digits"}, g \in {"number", "digits"} :
        a \in Variants(Signed(exp, lifetime, f, g))
  <2>1. PICK S \in {Variants(Signed(exp, lifetime, f, g)) :
                      lifetime \in 1 .. exp, f, g \in {"number", "digits"}} : a \in S
    BY DEF Expiring
  <2> QED
    BY <2>1
<1> DEFINE b == Signed(exp, lifetime, f, g)
<1>2. exp - lifetime + lifetime = exp
  OBVIOUS
<1>3. b.exp = [form |-> g, value |-> exp]
  BY <1>2 DEF Signed, Build, Stamp
<1>4. DOMAIN b = {"flaws", "iss", "iat", "exp", "scope", "aud"}
  BY DEF Signed, Build
<1>5. a \in Variants(b)
  BY <1>1
<1> HIDE DEF b
<1>6. \A f1 : /\ [b EXCEPT !.flaws = f1].exp = b.exp /\ [b EXCEPT !.iss = f1].exp = b.exp
              /\ [b EXCEPT !.aud = f1].exp = b.exp /\ [b EXCEPT !.scope = f1].exp = b.exp
              /\ [b EXCEPT !.iat.form = f1].exp = b.exp
  BY <1>4
<1>7. \A f1 : [b EXCEPT !.exp.form = f1].exp.value = exp
  BY <1>3, <1>4
<1>8. \/ a = b
      \/ \E f1 : \/ a = [b EXCEPT !.flaws = f1] \/ a = [b EXCEPT !.iss = f1]
                \/ a = [b EXCEPT !.aud = f1] \/ a = [b EXCEPT !.scope = f1]
                \/ a = [b EXCEPT !.iat.form = f1] \/ a = [b EXCEPT !.exp.form = f1]
  BY <1>5, Zenon DEF Variants
<1>9. b.exp.value = exp
  BY <1>3
<1>10. CASE a.exp = b.exp
  BY <1>9, <1>10
<1>11. CASE \E f1 : a = [b EXCEPT !.exp.form = f1]
  BY <1>7, <1>11
<1> QED
  BY <1>6, <1>8, <1>10, <1>11

\* Too late for both clocks is out of either window, whenever it was signed.
LateRefused ==
  \A exp \in 1 .. MaxWall : Late(exp) => \A a \in Expiring(exp) : Verdict(a) # Accepted

LEMMA LateIsRefused == TypeOK => LateRefused
<1> SUFFICES ASSUME TypeOK, NEW exp \in 1 .. MaxWall, Late(exp), NEW a \in Expiring(exp)
             PROVE  Verdict(a) # Accepted
  BY DEF LateRefused
<1>1. exp \in Nat /\ TOLERANCE_SECONDS \in Nat
  BY TokenAssumption
<1>2. JwtInt(a.exp) \subseteq {exp}
  BY <1>1, ExpiringExp DEF JwtInt
<1>3. ASSUME NEW iat, NEW reference \in Clocks PROVE ~WindowValid(iat, exp, reference)
  <2>1. reference \in Nat /\ exp + TOLERANCE_SECONDS < reference
    BY ClocksAreNumbers DEF Late
  <2>2. ~(exp >= reference - TOLERANCE_SECONDS)
    BY <1>1, <2>1
  <2> QED
    BY <2>2 DEF WindowValid
<1>4. ~\E i \in JwtInt(a.iat), e \in JwtInt(a.exp) : InWindow(i, e)
  BY <1>2, <1>3 DEF InWindow
<1> QED
  BY <1>4, AcceptedMeans

(***************************************************************************)
(* The inductive invariant                                                  *)
(***************************************************************************)
\* A token carries the key of the account it was asked for, and an access
\* token only scopes of Analytics.
Earned ==
  \A t \in tokens : /\ t.key = t.iss
                    /\ t.kind = "access_token" => t.scope \subseteq ACCEPTED_SCOPES

TokenInv == TypeOK /\ Earned

LEMMA TokenInit == Init => TokenInv
BY TokenAssumption DEF Init, TokenInv, TypeOK, Earned

\* Whatever a client gets wrong, scopes are scopes.
LEMMA PresentedScopes == ASSUME NEW a \in Presented PROVE a.scope \in SUBSET Scopes
<1>1. PICK iat, lifetime : a \in Variants(Build(iat, lifetime))
  BY DEF Presented
<1> DEFINE b == Build(iat, lifetime)
<1>2. b.scope \in SUBSET Scopes
  BY DEF Build, Scopes, ACCEPTED_SCOPES
<1>3. \A f : [b EXCEPT !.flaws = f].scope = b.scope /\ [b EXCEPT !.iss = f].scope = b.scope
             /\ [b EXCEPT !.iat.form = f].scope = b.scope /\ [b EXCEPT !.exp.form = f].scope = b.scope
             /\ [b EXCEPT !.aud = f].scope = b.scope /\ [b EXCEPT !.scope = f].scope = f
  BY DEF Build
<1> HIDE DEF b
<1>4. a \in Variants(b)
  BY <1>1 DEF b
<1>5. \/ a = b
      \/ \E f : \/ a = [b EXCEPT !.flaws = f] \/ a = [b EXCEPT !.iss = f] \/ a = [b EXCEPT !.aud = f]
               \/ a = [b EXCEPT !.iat.form = f] \/ a = [b EXCEPT !.exp.form = f]
      \/ \E f \in SUBSET Scopes : a = [b EXCEPT !.scope = f]
  BY <1>4, Zenon DEF Variants
<1> QED
  BY <1>2, <1>3, <1>5

LEMMA ExchangeInv ==
  ASSUME TokenInv, NEW a \in Presented, Exchange(a)  PROVE TokenInv'
<1> DEFINE t == TokenResponse(a)
<1>1. a.iss = account /\ a.scope # {} /\ a.scope \in SUBSET Scopes
  BY AcceptedMeans, PresentedScopes DEF Exchange, ScopeAsked
<1>2. /\ t.kind \in {"access_token", "id_token"} /\ t.exp = Virtual + BEARER_TTL_SECONDS
      /\ t.iss = a.iss /\ t.scope = a.scope /\ t.key = account
      /\ t.kind = "access_token" => t.scope \subseteq ACCEPTED_SCOPES
  BY DEF TokenResponse, BearerKey, Grants
<1>3. t.exp \in Nat
  BY <1>2, TokenAssumption DEF TokenInv, TypeOK, Virtual
<1>4. tokens' = tokens \cup {t} /\ UNCHANGED <<account, boots, offset, wall>>
  BY DEF Exchange
<1> HIDE DEF t
<1>5. TypeOK'
  <2>1. t.iss \in Accounts /\ t.scope \in (SUBSET Scopes) \ {{}}
    BY <1>1, <1>2 DEF TokenInv, TypeOK
  <2>2. \A r \in tokens' : \/ r \in tokens
                           \/ r = t
    BY <1>4
  <2>3. \A r \in tokens' : /\ r.kind \in {"access_token", "id_token"} /\ r.exp \in Nat
                           /\ r.iss \in Accounts /\ r.scope \in (SUBSET Scopes) \ {{}}
    BY <1>2, <1>3, <2>1, <2>2 DEF TokenInv, TypeOK
  <2> QED
    BY <1>4, <2>3 DEF TokenInv, TypeOK
<1>6. Earned'
  BY <1>1, <1>2, <1>4 DEF TokenInv, Earned
<1> QED
  BY <1>5, <1>6 DEF TokenInv

LEMMA TokenStep == TokenInv /\ [Next]_vars => TokenInv'
<1> SUFFICES ASSUME TokenInv, [Next]_vars PROVE TokenInv'
  OBVIOUS
<1> USE DEF TokenInv
<1>1. ASSUME NEW n \in Steps, Advance(n) PROVE TokenInv'
  <2>1. offset' \in 0 .. MaxOffset
    BY <1>1, TokenAssumption DEF Advance, TypeOK
  <2> QED
    BY <1>1, <2>1 DEF Advance, TypeOK, Earned
<1>2. ASSUME NEW n \in Steps, Tick(n) PROVE TokenInv'
  <2>1. wall' \in WallStart .. MaxWall
    BY <1>2, TokenAssumption DEF Tick, TypeOK
  <2> QED
    BY <1>2, <2>1 DEF Tick, TypeOK, Earned
<1>3. CASE Reset
  BY <1>3, TokenAssumption DEF Reset, TypeOK, Earned
<1>4. ASSUME NEW sa_email \in Accounts, Restart(sa_email) PROVE TokenInv'
  <2>1. boots' \in 1 .. MaxBoots /\ offset' \in 0 .. MaxOffset
    BY <1>4, TokenAssumption DEF Restart, TypeOK
  <2> QED
    BY <1>4, <2>1 DEF Restart, TypeOK, Earned
<1>5. CASE UNCHANGED vars
  BY <1>5 DEF vars, TypeOK, Earned
<1> QED
  BY <1>1, <1>2, <1>3, <1>4, <1>5, ExchangeInv DEF Next

LEMMA TokenInvariance == Spec => []TokenInv
BY TokenInit, TokenStep, PTL DEF Spec

LEMMA Later == ASSUME NEW i \in Int, NEW x \in Nat, NEW y \in Nat, y >= x  PROVE i + x <= i + y
OBVIOUS

(***************************************************************************)
(* Theorems                                                                 *)
(***************************************************************************)
\* auth.py: tokens stay well formed: whatever a client presents, the account and
\* the scopes of what it gets are known ones.
THEOREM TypeCorrect == Spec => []TypeOK
<1>1. TokenInv => TypeOK
  BY DEF TokenInv
<1> QED
  BY <1>1, TokenInvariance, PTL

\* auth.py:160-166: whoever signs by the mock's clock or the real one, with at
\* most a tolerance of skew, is accepted until the assertion expires, however
\* far the two clocks have drifted apart.
THEOREM HonestGetIn == Spec => []HonestAccepted
<1>1. TokenInv => HonestAccepted
  BY HonestInWindow DEF TokenInv
<1> QED
  BY <1>1, TokenInvariance, PTL

\* auth.py:161-166, "a genuinely expired assertion fails against both": what is
\* late by both clocks is refused, whenever, by whom and however it was signed,
\* and stays late until the mock's clock is turned back.
THEOREM LateStaysLate == Spec => LateForGood
<1>1. TokenInv => \A exp \in 1 .. MaxWall : Late(exp) => \A a \in Expiring(exp) : Verdict(a) # Accepted
  BY LateIsRefused DEF TokenInv, LateRefused
<1>2. TokenInv /\ TokenInv' /\ [Next]_vars =>
        [\A exp \in 1 .. MaxWall : Late(exp) /\ offset' >= offset => Late(exp)']_vars
  <2> SUFFICES ASSUME TokenInv, TokenInv', [Next]_vars,
                      NEW exp \in 1 .. MaxWall, Late(exp), offset' >= offset
               PROVE  Late(exp)'
    OBVIOUS
  <2>1. wall \in Nat /\ wall' \in Nat /\ offset \in Nat /\ offset' \in Nat
    BY TokenAssumption DEF TokenInv, TypeOK
  <2>2. wall <= wall'
    <3>1. ASSUME NEW n \in Steps, Tick(n) PROVE wall <= wall'
      BY <2>1, <3>1, TokenAssumption DEF Tick
    <3>2. CASE wall' = wall
      BY <2>1, <3>2
    <3> QED
      BY <3>1, <3>2 DEF Next, vars, Exchange, Advance, Reset, Restart
  <2> DEFINE bound == exp + TOLERANCE_SECONDS
  <2>3. bound \in Int /\ Anchor \in Int
    BY TokenAssumption
  <2>4. bound < wall /\ bound < Anchor + offset
    BY DEF Late, Clocks, Virtual
  <2> HIDE DEF bound
  <2>5. bound < wall'
    BY <2>1, <2>2, <2>3, <2>4
  <2>6. bound < Anchor + offset'
    <3>1. Anchor + offset <= Anchor + offset'
      BY <2>1, <2>3, Later
    <3>2. Anchor + offset \in Int /\ Anchor + offset' \in Int
      BY <2>1, <2>3
    <3> QED
      BY <2>3, <2>4, <3>1, <3>2
  <2> QED
    BY <2>5, <2>6 DEF Late, Clocks, Virtual, bound
<1> QED
  BY <1>1, <1>2, TokenInvariance, PTL DEF Spec, LateForGood

\* auth.py:191-193: no token opens the surface but to the account whose
\* assertion asked for Analytics alone, over restarts for another account.
THEOREM OpensToOwner == Spec => []OpensToItsAccount
<1>1. TokenInv => OpensToItsAccount
  BY DEF TokenInv, Earned, OpensToItsAccount, Opens, BearerKey
<1> QED
  BY <1>1, TokenInvariance, PTL

\* auth.py:80-84: restarts and resets take no bearer from a client.
THEOREM BearersOutlive == Spec => BearersSurvive
<1>1. TokenInv /\ TokenInv' /\ [Next]_vars =>
        [\A t \in tokens :
           Opens(t) /\ account' = account /\ offset' <= offset => Opens(t)']_vars
  <2> SUFFICES ASSUME TokenInv, TokenInv', NEW t \in tokens, Opens(t),
                      account' = account, offset' <= offset
               PROVE  Opens(t)'
    OBVIOUS
  <2>1. t.exp \in Nat /\ offset \in Nat /\ offset' \in Nat /\ Anchor \in Nat
    BY TokenAssumption DEF TokenInv, TypeOK
  <2>2. t.exp > Anchor + offset'
    BY <2>1 DEF Opens, Virtual
  <2> QED
    BY <2>2 DEF Opens, Virtual, BearerKey
<1> QED
  BY <1>1, TokenInvariance, PTL DEF Spec, BearersSurvive
=============================================================================
