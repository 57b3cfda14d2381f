----------------------------- MODULE LlmRouter -----------------------------
(***************************************************************************)
(* agents/llm_router.py: callers that ask again and again, each request    *)
(* walking its task's chain of models, behind one circuit breaker per      *)
(* provider that all of them share.                                        *)
(*                                                                         *)
(* A request suspends only while a provider works.  What it does with the  *)
(* outcome, up to the next call or to its answer, is one step: record it   *)
(* in the breaker, then go to the next model whose breaker is not open.    *)
(* The usage log is left out: it is awaited after the breaker is updated,  *)
(* its failures are swallowed, and the router in use has none.             *)
(***************************************************************************)
EXTENDS Integers, Sequences, FiniteSets

CONSTANTS
  Requests,          \* callers of complete(), one request of each at a time
  Chain,             \* Chain[r]: the models their task asks, in this order
  Quotes,            \* those whose task is to parse quotes
  Json,              \* those with require_json
  Gated,             \* those of them with a positive min_confidence
  FailureThreshold,
  Solid,             \* providers that are up, answer well, and do not limit
  MaxWaves           \* bound: cooldowns of a breaker between two resets

Providers == {"anthropic", "openai", "gemini", "groq"}

ASSUME RouterAssumption ==
  /\ IsFiniteSet(Requests)
  /\ Chain \in [Requests -> Seq([provider : STRING, name : STRING])]
  /\ Quotes \subseteq Requests
  /\ Gated \subseteq Json /\ Json \subseteq Requests
  /\ FailureThreshold \in Nat \ {0}
  /\ Solid \subseteq Providers
  /\ MaxWaves \in Nat

VARIABLES
  failures,  \* failures[p]: CircuitBreaker._failures
  opened,    \* opened[p]: _opened_at is None, recent, or past the cooldown
  pc, idx,   \* where r's request is, and the model it is at
  waves      \* waves[p]: cooldowns since p's breaker was reset (history)

breakerVars == <<failures, opened, waves>>
vars == <<breakerVars, pc, idx>>

Opened == {"none", "recent", "cooled"}
Refusals == {"ambiguous", "failed"}
Ended == {"answered", "raised"} \cup Refusals

\* The providers of a chain's models: all that is known of a model here.
Provider == [r \in Requests |-> [j \in 1..Len(Chain[r]) |-> Chain[r][j].provider]]

ProviderOf(r) == Provider[r][idx[r]]

Init ==
  /\ failures = [p \in Providers |-> 0]
  /\ opened = [p \in Providers |-> "none"]
  /\ waves = [p \in Providers |-> 0]
  /\ pc = [r \in Requests |-> "unsent"]
  /\ idx = [r \in Requests |-> 1]

----------------------------------------------------------------------------
(* The circuit breaker *)

\* is_open, of a breaker whose _opened_at is such.
IsOpen(since) == since = "recent"

\* Wrong variant: it opens one failure late.
RecordFailureLate(p) ==
  /\ failures' = [failures EXCEPT ![p] = @ + 1]
  /\ opened' = IF failures[p] + 1 > FailureThreshold
               THEN [opened EXCEPT ![p] = "recent"] ELSE opened
  /\ UNCHANGED waves

\* Wrong variant: one provider's failures open every breaker.
RecordFailureShared(p) ==
  /\ failures' = [failures EXCEPT ![p] = @ + 1]
  /\ opened' = IF failures[p] + 1 >= FailureThreshold
               THEN [q \in Providers |-> "recent"] ELSE opened
  /\ UNCHANGED waves

RecordFailure(p) ==
  /\ failures' = [failures EXCEPT ![p] = @ + 1]
  /\ opened' = IF failures[p] + 1 >= FailureThreshold
               THEN [opened EXCEPT ![p] = "recent"] ELSE opened
  /\ UNCHANGED waves

RecordSuccess(p) ==
  /\ failures' = [failures EXCEPT ![p] = 0]
  /\ opened' = [opened EXCEPT ![p] = "none"]
  /\ waves' = [waves EXCEPT ![p] = 0]

\* recovery_timeout passes: the breaker lets calls through again.
CoolDown(p) ==
  /\ waves[p] < MaxWaves
  /\ opened[p] = "recent"
  /\ opened' = [opened EXCEPT ![p] = "cooled"]
  /\ waves' = [waves EXCEPT ![p] = @ + 1]
  /\ UNCHANGED <<failures, pc, idx>>

----------------------------------------------------------------------------
(* complete() *)

\* The models from i on with a handler and, as the breakers are, none open.
Usable(r, i, breakers) ==
  {j \in DOMAIN Provider[r] :
     /\ j >= i
     /\ Provider[r][j] \in Providers /\ ~IsOpen(breakers[Provider[r][j]])}

Refusal(r) == IF r \in Quotes THEN "ambiguous" ELSE "failed"

Call(r, j) ==
  /\ pc' = [pc EXCEPT ![r] = "call"]
  /\ idx' = [idx EXCEPT ![r] = j]

End(r, how) ==
  /\ pc' = [pc EXCEPT ![r] = how]
  /\ idx' = [idx EXCEPT ![r] = 1]

\* Call the first usable model, or give up.
TryFrom(r, usable) ==
  \/ \E j \in usable : (\A k \in usable : j <= k) /\ Call(r, j)
  \/ usable = {} /\ End(r, Refusal(r))

Send(r) ==
  /\ pc[r] # "call"
  /\ TryFrom(r, Usable(r, 1, opened))
  /\ UNCHANGED breakerVars

\* The next model, as the breakers are once the outcome is recorded.
FallThrough(r) == TryFrom(r, Usable(r, idx[r] + 1, opened'))

Replies(r) == pc[r] = "call" /\ ProviderOf(r) \notin Solid

\* The handlers that tell a rate limit from an outage: gemini's does not.
TellRateLimits == {"anthropic", "openai", "groq"}

RateLimited(r) ==
  /\ Replies(r)
  /\ ProviderOf(r) \in TellRateLimits
  /\ UNCHANGED breakerVars
  /\ FallThrough(r)

Fails(r) ==
  /\ Replies(r)
  /\ RecordFailure(ProviderOf(r))
  /\ FallThrough(r)

\* A reply that is no JSON counts neither way.
Unparseable(r) ==
  /\ Replies(r)
  /\ r \in Json
  /\ UNCHANGED breakerVars
  /\ FallThrough(r)

\* A reply that is JSON, but no object, or whose confidence is no number: an
\* exception that nothing here catches.
OddJson(r) ==
  /\ Replies(r)
  /\ r \in Json
  /\ UNCHANGED breakerVars
  /\ End(r, "raised")

\* A confidence below the gate: the provider is fine, the next model is asked.
LowConfidence(r) ==
  /\ Replies(r)
  /\ r \in Gated
  /\ RecordSuccess(ProviderOf(r))
  /\ FallThrough(r)

Answers(r) ==
  /\ pc[r] = "call"
  /\ RecordSuccess(ProviderOf(r))
  /\ End(r, "answered")

\* The provider's call comes to an end.
Outcome(r) ==
  \/ RateLimited(r) \/ Fails(r) \/ Unparseable(r) \/ OddJson(r)
  \/ LowConfidence(r) \/ Answers(r)

Next ==
  \/ \E r \in Requests : Send(r) \/ Outcome(r)
  \/ \E p \in Providers : CoolDown(p)

Spec == Init /\ [][Next]_vars

----------------------------------------------------------------------------
(* Properties *)

TypeOK ==
  /\ failures \in [Providers -> Nat]
  /\ opened \in [Providers -> Opened]
  /\ waves \in [Providers -> Nat]
  /\ pc \in [Requests -> {"unsent", "call"} \cup Ended]
  /\ idx \in [Requests -> Nat \ {0}]
  /\ \A r \in Requests : pc[r] = "call" =>
       idx[r] \in DOMAIN Provider[r] /\ ProviderOf(r) \in Providers

\* The breaker sheds an outage (agents/llm_router.py:6-7, 141-168): from
\* reset to reset a provider fails at most FailureThreshold - 1 times, and
\* once more for each request that was under way or let through as a trial.
OutageIsShed ==
  \A p \in Providers :
    failures[p] <= FailureThreshold - 1 + Cardinality(Requests) * (waves[p] + 1)

\* "keep a single provider outage from taking the whole system down"
\* (agents/llm_router.py:6-7): a request with a good provider anywhere in its
\* chain is not refused, whatever the others and other requests do.
SolidServes ==
  \A r \in Requests :
    (\E j \in DOMAIN Provider[r] : Provider[r][j] \in Solid)
      => pc[r] \notin Refusals
============================================================================
