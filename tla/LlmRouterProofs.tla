-------------------------- MODULE LlmRouterProofs --------------------------
(***************************************************************************)
(* Proofs about LlmRouter, for any callers, chains, thresholds and good    *)
(* providers: its breakers bound an outage, and an outage is survived.     *)
(***************************************************************************)
EXTENDS LlmRouter, FiniteSetTheorems, TLAPS

\* The arithmetic of one more failure: of f so far and n calls under way,
\* one has failed, and at most n - 1 remain.
LEMMA OneMoreFailure ==
  ASSUME NEW f \in Nat, NEW n \in Nat, NEW m \in Nat, NEW c \in Nat,
         NEW t \in Nat \ {0}, NEW x \in Nat, n <= c, m <= n - 1,
         f < t \/ f <= t - 1 + x \/ f + n <= t - 1 + (x + c)
  PROVE  f + 1 + m <= t - 1 + (x + c)
  OBVIOUS

\* One more cooldown allows one more failure of each of c callers.
LEMMA OneMoreWave ==
  ASSUME NEW c \in Nat, NEW w \in Nat
  PROVE  c * w \in Nat /\ c * (w + 1) = c * w + c
  OBVIOUS

\* What most steps need to know of the constants.
LEMMA ConstantTypes == FailureThreshold \in Nat \ {0} /\ Solid \subseteq Providers
  BY RouterAssumption DEF RouterAssumption

USE ConstantTypes

----------------------------------------------------------------------------
(* The inductive invariant *)

\* The requests that wait for p.
InFlight(p) == {r \in Requests : pc[r] = "call" /\ ProviderOf(r) = p}

Callers == Cardinality(Requests)

\* What the breaker of p knows of its failures and of those to come.
BreakerInv(p) ==
  /\ opened[p] = "none" => failures[p] < FailureThreshold
  /\ opened[p] # "none" => failures[p] >= FailureThreshold
  /\ opened[p] = "cooled" =>
       failures[p] <= FailureThreshold - 1 + Callers * waves[p]
  /\ opened[p] = "recent" =>
       failures[p] + Cardinality(InFlight(p))
         <= FailureThreshold - 1 + (Callers * waves[p] + Callers)

ShedInv == \A p \in Providers : BreakerInv(p)

\* Nothing is held against a good provider, and no request has passed one.
SolidInv ==
  /\ \A p \in Solid : opened[p] = "none" /\ failures[p] = 0
  /\ \A r \in Requests : pc[r] = "call" =>
       \A j \in DOMAIN Provider[r] : j < idx[r] => Provider[r][j] \notin Solid

----------------------------------------------------------------------------
(* What a step does *)

\* Where a request may go: to a call that its breaker lets through, after
\* every usable model before it, or to an end.
Goes(r, i) ==
  \/ \E j \in DOMAIN Provider[r] :
       /\ j >= i /\ Provider[r][j] \in Providers /\ opened'[Provider[r][j]] # "recent"
       /\ \A k \in DOMAIN Provider[r] :
            k >= i /\ k < j => Provider[r][k] \notin Providers
                               \/ opened'[Provider[r][k]] = "recent"
       /\ Call(r, j)
  \/ /\ \A k \in DOMAIN Provider[r] :
          k >= i => Provider[r][k] \notin Providers \/ opened'[Provider[r][k]] = "recent"
     /\ End(r, Refusal(r))
  \/ \E how \in {"answered", "raised"} : End(r, how)

\* What becomes of the breaker of the provider that was called.
Records(p) ==
  \/ UNCHANGED breakerVars
  \/ RecordFailure(p) /\ p \notin Solid
  \/ RecordSuccess(p)

\* Positions in a chain are numbers.
LEMMA Positions ==
  ASSUME NEW r \in Requests
  PROVE  DOMAIN Provider[r] \subseteq Nat \ {0}
<1>1. Chain[r] \in Seq([provider : STRING, name : STRING])
  BY RouterAssumption DEF RouterAssumption
<1>2. Len(Chain[r]) \in Nat
  BY <1>1
<1> QED
  BY <1>2 DEF Provider

\* TryFrom, read as a fact about where the request goes.
LEMMA TryGoes ==
  ASSUME NEW r \in Requests, NEW i \in Nat, TryFrom(r, Usable(r, i, opened'))
  PROVE  Goes(r, i)
<1> DEFINE usable == Usable(r, i, opened')
<1>1. \A k : k \in usable <=> /\ k \in DOMAIN Provider[r] /\ k >= i
                              /\ Provider[r][k] \in Providers
                              /\ opened'[Provider[r][k]] # "recent"
  BY DEF Usable, IsOpen
<1>2. CASE usable = {} /\ End(r, Refusal(r))
  BY <1>1, <1>2 DEF Goes
<1>3. ASSUME NEW j \in usable, \A k \in usable : j <= k, Call(r, j)
      PROVE  Goes(r, i)
  <2>1. \A k \in DOMAIN Provider[r] : k < j => ~(j <= k)
    BY <1>1, Positions
  <2> QED
    BY <1>1, <1>3, <2>1 DEF Goes
<1> QED
  BY <1>2, <1>3 DEF TryFrom

\* Every step of a request is of this form.
LEMMA RequestSteps ==
  ASSUME TypeOK, NEW r \in Requests, Send(r) \/ Outcome(r)
  PROVE  \/ pc[r] # "call" /\ UNCHANGED breakerVars /\ Goes(r, 1)
         \/ /\ pc[r] = "call" /\ Records(ProviderOf(r))
            /\ \/ ProviderOf(r) \notin Solid /\ Goes(r, idx[r] + 1)
               \/ \E how \in {"answered", "raised"} : End(r, how)
<1>0. idx[r] + 1 \in Nat
  BY DEF TypeOK
<1>1. CASE Send(r)
  <2>1. TryFrom(r, Usable(r, 1, opened'))
    BY <1>1 DEF Send, breakerVars
  <2> QED
    BY <1>1, <2>1, TryGoes DEF Send
<1>2. CASE FallThrough(r)
  <2>1. Goes(r, idx[r] + 1)
    BY <1>0, <1>2, TryGoes DEF FallThrough
  <2>2. CASE RateLimited(r) \/ Unparseable(r)
    BY <2>1, <2>2 DEF RateLimited, Unparseable, Replies, Records
  <2>3. CASE Fails(r)
    BY <2>1, <2>3 DEF Fails, Replies, Records
  <2>4. CASE LowConfidence(r)
    BY <2>1, <2>4 DEF LowConfidence, Replies, Records
  <2>5. CASE Send(r)
    BY <1>1, <2>5
  <2>6. CASE OddJson(r) \/ Answers(r)
    BY <2>6 DEF OddJson, Answers, Replies, Records
  <2> QED
    BY <2>2, <2>3, <2>4, <2>5, <2>6 DEF Outcome
<1>3. CASE OddJson(r) \/ Answers(r)
  BY <1>3 DEF OddJson, Answers, Replies, Records
<1> QED
  BY <1>1, <1>2, <1>3 DEF Outcome, RateLimited, Unparseable, Fails, LowConfidence

\* A step of a request changes no other request.
LEMMA GoesIsLocal ==
  ASSUME TypeOK, NEW r \in Requests, NEW i,
         Goes(r, i) \/ \E how \in {"answered", "raised"} : End(r, how)
  PROVE  \A q \in Requests \ {r} : pc'[q] = pc[q] /\ idx'[q] = idx[q]
  BY DEF Goes, Call, End, TypeOK

----------------------------------------------------------------------------
(* Types *)

\* The initial states are well typed.
LEMMA TypeInit == Init => TypeOK
  BY DEF Init, TypeOK, Opened, Ended

\* What is recorded keeps the breakers well typed.
LEMMA RecordTypes ==
  ASSUME TypeOK, NEW p \in Providers, Records(p)
  PROVE  /\ failures' \in [Providers -> Nat] /\ opened' \in [Providers -> Opened]
         /\ waves' \in [Providers -> Nat]
<1>1. CASE UNCHANGED breakerVars
  BY <1>1 DEF breakerVars, TypeOK
<1>2. CASE RecordFailure(p)
  BY <1>2 DEF RecordFailure, TypeOK, Opened
<1>3. CASE RecordSuccess(p)
  BY <1>3 DEF RecordSuccess, TypeOK, Opened
<1> QED
  BY <1>1, <1>2, <1>3 DEF Records

\* Where a request goes keeps its control well typed.
LEMMA GoesTypes ==
  ASSUME TypeOK, NEW r \in Requests, NEW i \in Nat,
         Goes(r, i) \/ \E how \in {"answered", "raised"} : End(r, how)
  PROVE  /\ pc' \in [Requests -> {"unsent", "call"} \cup Ended]
         /\ idx' \in [Requests -> Nat \ {0}]
         /\ \A q \in Requests : pc'[q] = "call" =>
              idx'[q] \in DOMAIN Provider[q] /\ Provider[q][idx'[q]] \in Providers
<1>1. CASE \E how \in Ended : End(r, how)
  <2>1. PICK how \in Ended : End(r, how)
    BY <1>1
  <2>2. how # "call"
    BY DEF Ended, Refusals
  <2> QED
    BY <2>1, <2>2 DEF End, TypeOK, ProviderOf
<1>2. ASSUME NEW j \in DOMAIN Provider[r], Provider[r][j] \in Providers, Call(r, j)
      PROVE  /\ pc' \in [Requests -> {"unsent", "call"} \cup Ended]
             /\ idx' \in [Requests -> Nat \ {0}]
             /\ \A q \in Requests : pc'[q] = "call" =>
                  idx'[q] \in DOMAIN Provider[q] /\ Provider[q][idx'[q]] \in Providers
  BY <1>2, Positions DEF Call, TypeOK, ProviderOf
<1>3. Refusal(r) \in Ended /\ {"answered", "raised"} \subseteq Ended
  BY DEF Refusal, Ended, Refusals
<1> QED
  BY <1>1, <1>2, <1>3 DEF Goes

\* Every step keeps the types.
LEMMA TypeStep == TypeOK /\ [Next]_vars => TypeOK'
<1> SUFFICES ASSUME TypeOK, [Next]_vars PROVE TypeOK'
  OBVIOUS
<1>1. ASSUME NEW r \in Requests, Send(r) \/ Outcome(r)
      PROVE  TypeOK'
  <2>1. \E i \in Nat : Goes(r, i) \/ \E how \in {"answered", "raised"} : End(r, how)
    BY <1>1, RequestSteps DEF TypeOK
  <2>2. /\ failures' \in [Providers -> Nat] /\ opened' \in [Providers -> Opened]
        /\ waves' \in [Providers -> Nat]
    <3>1. CASE UNCHANGED breakerVars
      BY <3>1 DEF breakerVars, TypeOK
    <3>2. CASE pc[r] = "call" /\ Records(ProviderOf(r))
      BY <3>2, RecordTypes DEF TypeOK
    <3> QED
      BY <1>1, <3>1, <3>2, RequestSteps
  <2> QED
    BY <2>1, <2>2, GoesTypes DEF TypeOK, ProviderOf
<1>2. ASSUME NEW p \in Providers, CoolDown(p)
      PROVE  TypeOK'
  BY <1>2 DEF CoolDown, TypeOK, Opened, ProviderOf
<1>3. CASE UNCHANGED vars
  BY <1>3 DEF vars, breakerVars, TypeOK, ProviderOf
<1> QED
  BY <1>1, <1>2, <1>3 DEF Next

\* The types of the variables hold in every reachable state.
THEOREM TypeCorrect == Spec => []TypeOK
<1> QED
  BY TypeInit, TypeStep, PTL DEF Spec

----------------------------------------------------------------------------
(* An outage is shed *)

\* There are finitely many callers, and fewer without the one that ended.
LEMMA InFlightBound ==
  ASSUME NEW p, NEW S \in SUBSET Requests
  PROVE  /\ Callers \in Nat /\ Cardinality(S) \in Nat /\ Cardinality(S) <= Callers
         /\ \A r \in S : Cardinality(S \ {r}) = Cardinality(S) - 1
<1>1. IsFiniteSet(Requests)
  BY RouterAssumption DEF RouterAssumption
<1>2. IsFiniteSet(S) /\ Cardinality(S) <= Cardinality(Requests)
  BY <1>1, FS_Subset
<1>3. Cardinality(Requests) \in Nat /\ Cardinality(S) \in Nat
  BY <1>1, <1>2, FS_CardinalityType
<1>4. \A r \in S : Cardinality(S \ {r}) = Cardinality(S) - 1
  BY <1>2, FS_RemoveElement
<1> QED
  BY <1>2, <1>3, <1>4 DEF Callers

\* Nobody starts to wait for a provider whose breaker is open, and r, which
\* moved, waits for it no longer.
LEMMA RecentShrinks ==
  ASSUME TypeOK, NEW r \in Requests, NEW i, NEW p,
         Goes(r, i) \/ \E how \in {"answered", "raised"} : End(r, how),
         opened'[p] = "recent"
  PROVE  InFlight(p)' \subseteq InFlight(p) \ {r}
<1>1. \A q \in Requests \ {r} : q \in InFlight(p)' => q \in InFlight(p)
  BY GoesIsLocal DEF InFlight, ProviderOf
<1>2. r \notin InFlight(p)'
  <2>1. CASE \E how \in {"answered", "raised"} \cup Refusals : End(r, how)
    BY <2>1 DEF End, InFlight, TypeOK, Refusals
  <2>2. ASSUME NEW j \in DOMAIN Provider[r], Call(r, j),
               opened'[Provider[r][j]] # "recent"
        PROVE  r \notin InFlight(p)'
    BY <2>2 DEF Call, InFlight, TypeOK, ProviderOf
  <2> QED
    BY <2>1, <2>2 DEF Goes, Refusal, Refusals
<1> QED
  BY <1>1, <1>2 DEF InFlight

\* The initial states satisfy it.
LEMMA ShedInit == Init => ShedInv
  BY DEF Init, ShedInv, BreakerInv

\* Every step of a request keeps it: p is the breaker in question, and it is
\* either that of the provider that was called or untouched.
LEMMA ShedRequest ==
  ASSUME TypeOK, ShedInv, NEW r \in Requests, Send(r) \/ Outcome(r),
         NEW p \in Providers
  PROVE  BreakerInv(p)'
<1> DEFINE n == Cardinality(InFlight(p))
           m == Cardinality(InFlight(p)')
<1>0. BreakerInv(p) /\ opened[p] \in Opened /\ failures[p] \in Nat /\ waves[p] \in Nat
  BY DEF ShedInv, TypeOK
<1>1. /\ Callers \in Nat /\ n \in Nat /\ m \in Nat /\ n <= Callers
      /\ \A q \in InFlight(p) : Cardinality(InFlight(p) \ {q}) = n - 1
  BY InFlightBound DEF InFlight
<1>2. PICK i : Goes(r, i) \/ \E how \in {"answered", "raised"} : End(r, how)
  BY RequestSteps
<1>3. opened'[p] = "recent" =>
        m <= n /\ (r \in InFlight(p) => m <= n - 1)
  <2> SUFFICES ASSUME opened'[p] = "recent"
               PROVE  m <= n /\ (r \in InFlight(p) => m <= n - 1)
    OBVIOUS
  <2>1. InFlight(p)' \subseteq InFlight(p) \ {r}
    BY <1>2, RecentShrinks
  <2>2. IsFiniteSet(InFlight(p)) /\ IsFiniteSet(InFlight(p) \ {r})
    <3>1. IsFiniteSet(Requests) /\ InFlight(p) \subseteq Requests
      BY RouterAssumption DEF RouterAssumption, InFlight
    <3> QED
      BY <3>1, FS_Subset
  <2>3. m <= Cardinality(InFlight(p) \ {r}) /\ m <= n
    BY <2>1, <2>2, FS_Subset
  <2> QED
    BY <1>1, <2>3
<1>4. CASE failures'[p] = failures[p] /\ opened'[p] = opened[p] /\ waves'[p] = waves[p]
  BY <1>0, <1>1, <1>3, <1>4 DEF BreakerInv
<1>5. CASE /\ r \in InFlight(p)
           /\ failures'[p] = failures[p] + 1 /\ waves'[p] = waves[p]
           /\ opened'[p] = IF failures[p] + 1 >= FailureThreshold
                           THEN "recent" ELSE opened[p]
  <2>1. Callers * waves[p] \in Nat
    BY <1>0, <1>1, OneMoreWave
  <2>2. CASE opened[p] = "none" /\ failures[p] + 1 < FailureThreshold
    BY <1>0, <1>5, <2>2 DEF BreakerInv
  <2>3. CASE failures[p] + 1 >= FailureThreshold
    <3>1. opened'[p] = "recent" /\ m <= n - 1
      BY <1>3, <1>5, <2>3
    <3>2. \/ failures[p] < FailureThreshold
          \/ failures[p] <= FailureThreshold - 1 + Callers * waves[p]
          \/ failures[p] + n <= FailureThreshold - 1 + (Callers * waves[p] + Callers)
      BY <1>0, <2>1 DEF BreakerInv, Opened
    <3>3. failures[p] + 1 + m <= FailureThreshold - 1 + (Callers * waves[p] + Callers)
      <4> HIDE DEF n, m
      <4> QED
        BY <1>0, <1>1, <2>1, <3>1, <3>2, OneMoreFailure
    <3>4. failures'[p] >= FailureThreshold
          /\ failures'[p] + m <= FailureThreshold - 1 + (Callers * waves'[p] + Callers)
      <4> HIDE DEF n, m
      <4> QED
        BY <1>0, <1>5, <2>1, <2>3, <3>3
    <3> QED
      BY <3>1, <3>4 DEF BreakerInv
  <2> QED
    BY <1>0, <2>2, <2>3 DEF BreakerInv
<1>6. CASE failures'[p] = 0 /\ opened'[p] = "none"
  BY <1>6 DEF BreakerInv
<1>7. CASE UNCHANGED breakerVars
  BY <1>4, <1>7 DEF breakerVars
<1>8. CASE pc[r] = "call" /\ Records(ProviderOf(r))
  <2>1. CASE ProviderOf(r) = p
    <3>1. r \in InFlight(p)
      BY <1>8, <2>1 DEF InFlight
    <3>2. CASE RecordFailure(p)
      BY <1>5, <3>1, <3>2 DEF RecordFailure, TypeOK
    <3>3. CASE RecordSuccess(p)
      BY <1>6, <3>3 DEF RecordSuccess, TypeOK
    <3> QED
      BY <1>7, <1>8, <2>1, <3>2, <3>3 DEF Records
  <2>2. CASE ProviderOf(r) # p
    <3>1. CASE UNCHANGED breakerVars
      BY <1>7, <3>1
    <3>2. CASE RecordFailure(ProviderOf(r)) \/ RecordSuccess(ProviderOf(r))
      BY <1>4, <2>2, <3>2 DEF RecordFailure, RecordSuccess, TypeOK
    <3> QED
      BY <1>8, <3>1, <3>2 DEF Records
  <2> QED
    BY <2>1, <2>2
<1> QED
  BY <1>7, <1>8, RequestSteps

\* Every step keeps it.
LEMMA ShedStep == TypeOK /\ ShedInv /\ [Next]_vars => ShedInv'
<1> SUFFICES ASSUME TypeOK, ShedInv, [Next]_vars, NEW p \in Providers
             PROVE  BreakerInv(p)'
  BY DEF ShedInv
<1>0. BreakerInv(p) /\ failures[p] \in Nat /\ waves[p] \in Nat
  BY DEF ShedInv, TypeOK
<1>1. Callers \in Nat /\ Cardinality(InFlight(p)) \in Nat
  BY InFlightBound DEF InFlight
<1>2. CASE \E r \in Requests : Send(r) \/ Outcome(r)
  BY <1>2, ShedRequest
<1>3. ASSUME NEW q \in Providers, CoolDown(q)
      PROVE  BreakerInv(p)'
  <2>1. failures' = failures /\ InFlight(p)' = InFlight(p)
    BY <1>3 DEF CoolDown, InFlight, ProviderOf
  <2>2. CASE q = p
    <3>1. opened[p] = "recent" /\ opened'[p] = "cooled" /\ waves'[p] = waves[p] + 1
      BY <1>3, <2>2 DEF CoolDown, TypeOK
    <3>2. /\ failures[p] >= FailureThreshold
          /\ failures[p] + Cardinality(InFlight(p))
               <= FailureThreshold - 1 + (Callers * waves[p] + Callers)
      BY <1>0, <3>1 DEF BreakerInv
    <3>3. Callers * waves[p] \in Nat /\ Callers * waves'[p] = Callers * waves[p] + Callers
      BY <1>0, <1>1, <3>1, OneMoreWave
    <3>4. failures[p] <= FailureThreshold - 1 + Callers * waves'[p]
      BY <1>0, <1>1, <3>2, <3>3
    <3> QED
      BY <2>1, <3>1, <3>2, <3>4 DEF BreakerInv
  <2>3. CASE q # p
    <3>1. opened'[p] = opened[p] /\ waves'[p] = waves[p]
      BY <1>3, <2>3 DEF CoolDown, TypeOK
    <3> QED
      BY <1>0, <2>1, <3>1 DEF BreakerInv
  <2> QED
    BY <2>2, <2>3
<1>4. CASE UNCHANGED vars
  BY <1>0, <1>4 DEF vars, breakerVars, BreakerInv, InFlight, ProviderOf
<1> QED
  BY <1>2, <1>3, <1>4 DEF Next

\* From reset to reset, and whatever the callers do, an outage costs at most
\* FailureThreshold - 1 failures, and one per caller and cooldown.
THEOREM OutageIsShedThm == Spec => []OutageIsShed
<1>1. TypeOK /\ ShedInv => OutageIsShed
  <2> SUFFICES ASSUME TypeOK, ShedInv, NEW p \in Providers
               PROVE  failures[p] <= FailureThreshold - 1 + Callers * (waves[p] + 1)
    BY DEF OutageIsShed, Callers
  <2>1. /\ BreakerInv(p) /\ opened[p] \in Opened
        /\ failures[p] \in Nat /\ waves[p] \in Nat
    BY DEF ShedInv, TypeOK
  <2>2. Callers \in Nat /\ Cardinality(InFlight(p)) \in Nat
    BY InFlightBound DEF InFlight
  <2> DEFINE x == Callers * waves[p]
             n == Cardinality(InFlight(p))
  <2>3. x \in Nat /\ Callers * (waves[p] + 1) = x + Callers
    BY <2>1, <2>2, OneMoreWave
  <2>4. \/ failures[p] < FailureThreshold
        \/ failures[p] <= FailureThreshold - 1 + x
        \/ failures[p] + n <= FailureThreshold - 1 + (x + Callers)
    BY <2>1 DEF BreakerInv, Opened
  <2>5. n \in Nat
    BY <2>2
  <2> HIDE DEF x, n
  <2>6. failures[p] <= FailureThreshold - 1 + (x + Callers)
    BY <2>1, <2>2, <2>3, <2>4, <2>5
  <2> QED
    BY <2>3, <2>6
<1> QED
  BY <1>1, TypeInit, TypeStep, ShedInit, ShedStep, PTL DEF Spec

----------------------------------------------------------------------------
(* An outage is survived *)

\* A request that may not have passed a good provider goes on to none behind
\* the first good one, so its chain does not end before it.
LEMMA SolidGoes ==
  ASSUME NEW r \in Requests, NEW i \in Nat, TypeOK, Goes(r, i),
         \A p \in Solid : opened'[p] = "none",
         \A k \in DOMAIN Provider[r] : k < i => Provider[r][k] \notin Solid
  PROVE  /\ pc'[r] = "call" =>
              \A k \in DOMAIN Provider[r] : k < idx'[r] => Provider[r][k] \notin Solid
         /\ pc'[r] \in Refusals =>
              \A k \in DOMAIN Provider[r] : Provider[r][k] \notin Solid
<1>1. \A k \in DOMAIN Provider[r] :
        Provider[r][k] \notin Providers \/ opened'[Provider[r][k]] = "recent"
          => Provider[r][k] \notin Solid
  OBVIOUS
<1>2. \A k \in DOMAIN Provider[r] : k \in Nat
  BY Positions
<1>3. ASSUME NEW j \in DOMAIN Provider[r], Call(r, j),
             \A k \in DOMAIN Provider[r] :
               k >= i /\ k < j => Provider[r][k] \notin Solid
      PROVE  /\ pc'[r] = "call" /\ "call" \notin Refusals
             /\ \A k \in DOMAIN Provider[r] : k < idx'[r] => Provider[r][k] \notin Solid
  BY <1>2, <1>3 DEF Call, TypeOK, Refusals
<1>4. ASSUME End(r, Refusal(r)),
             \A k \in DOMAIN Provider[r] : k >= i => Provider[r][k] \notin Solid
      PROVE  /\ pc'[r] # "call"
             /\ \A k \in DOMAIN Provider[r] : Provider[r][k] \notin Solid
  BY <1>2, <1>4 DEF End, Refusal, TypeOK
<1>5. CASE \E how \in {"answered", "raised"} : End(r, how)
  BY <1>5 DEF End, Refusals, TypeOK
<1> QED
  BY <1>1, <1>3, <1>4, <1>5 DEF Goes

\* The initial states satisfy SolidInv.
LEMMA SolidInit == Init => SolidInv /\ SolidServes
  BY DEF Init, SolidInv, SolidServes, Refusals

\* Every step keeps SolidInv, and refuses no request it speaks of.
LEMMA SolidStep ==
  TypeOK /\ SolidInv /\ SolidServes /\ [Next]_vars => SolidInv' /\ SolidServes'
<1> SUFFICES ASSUME TypeOK, SolidInv, SolidServes, [Next]_vars
             PROVE  SolidInv' /\ SolidServes'
  OBVIOUS
<1>1. ASSUME NEW r \in Requests, Send(r) \/ Outcome(r)
      PROVE  SolidInv' /\ SolidServes'
  <2>1. \A p \in Solid : opened'[p] = "none" /\ failures'[p] = 0
    <3>1. CASE UNCHANGED breakerVars
      BY <3>1 DEF breakerVars, SolidInv
    <3>2. CASE RecordFailure(ProviderOf(r)) /\ ProviderOf(r) \notin Solid
      BY <3>2 DEF RecordFailure, SolidInv, TypeOK
    <3>3. CASE RecordSuccess(ProviderOf(r))
      BY <3>3 DEF RecordSuccess, SolidInv, TypeOK
    <3> QED
      BY <1>1, <3>1, <3>2, <3>3, RequestSteps DEF Records
  <2>2. \A q \in Requests \ {r} : pc'[q] = pc[q] /\ idx'[q] = idx[q]
    BY <1>1, RequestSteps, GoesIsLocal
  <2>3. /\ pc'[r] = "call" =>
             \A k \in DOMAIN Provider[r] : k < idx'[r] => Provider[r][k] \notin Solid
        /\ pc'[r] \in Refusals =>
             \A k \in DOMAIN Provider[r] : Provider[r][k] \notin Solid
    <3>1. CASE Goes(r, 1)
      BY <2>1, <3>1, SolidGoes, Positions
    <3>2. CASE pc[r] = "call" /\ ProviderOf(r) \notin Solid /\ Goes(r, idx[r] + 1)
      <4>1. \A k \in DOMAIN Provider[r] : k < idx[r] + 1 => Provider[r][k] \notin Solid
        BY <3>2, Positions DEF SolidInv, ProviderOf, TypeOK
      <4>2. idx[r] + 1 \in Nat
        BY DEF TypeOK
      <4> QED
        BY <2>1, <3>2, <4>1, <4>2, SolidGoes
    <3>3. CASE \E how \in {"answered", "raised"} : End(r, how)
      BY <3>3 DEF End, Refusals, TypeOK
    <3> QED
      BY <1>1, <3>1, <3>2, <3>3, RequestSteps
  <2>4. SolidInv'
    BY <2>1, <2>2, <2>3 DEF SolidInv
  <2>5. SolidServes'
    BY <2>2, <2>3 DEF SolidServes
  <2> QED
    BY <2>4, <2>5
<1>2. ASSUME NEW p \in Providers, CoolDown(p)
      PROVE  SolidInv' /\ SolidServes'
  BY <1>2 DEF CoolDown, SolidInv, SolidServes, TypeOK
<1>3. CASE UNCHANGED vars
  BY <1>3 DEF vars, breakerVars, SolidInv, SolidServes
<1> QED
  BY <1>1, <1>2, <1>3 DEF Next

\* No outage of others keeps a request from a good provider in its chain.
THEOREM SolidServesThm == Spec => []SolidServes
<1> QED
  BY TypeInit, TypeStep, SolidInit, SolidStep, PTL DEF Spec

============================================================================
