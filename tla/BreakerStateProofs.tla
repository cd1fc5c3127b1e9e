---- MODULE BreakerStateProofs ----
(***************************************************************************)
(* Lemmas about the state of one breaker key, for every set of             *)
(* generations: HealthGate tags states with vectors, HealthPersistence     *)
(* with numbers.                                                           *)
(***************************************************************************)
EXTENDS BreakerState, TLAPS

\* The neutral states and the state after a success are breaker states.
LEMMA NeutralTypes ==
  ASSUME NEW Gen, NEW gen \in Gen, NEW t \in Nat
  PROVE  /\ NoHealth(gen) \in RouteHealth(Gen)
         /\ Neutral(gen) \in RouteHealth(Gen)
         /\ AfterSuccess(gen, t) \in RouteHealth(Gen)
BY BreakerAssumption DEF NoHealth, Neutral, AfterSuccess, RouteHealth

\* An estimated delay is a positive natural number, never above the cap.
LEMMA FailureDelayType ==
  ASSUME NEW failures \in Nat \ {0}, NEW cause \in Cause
  PROVE  /\ FailureDelay(failures, cause) \in Nat \ {0}
         /\ FailureDelay(failures, cause) <= MaxDelay
<1>1. BaseDelay[cause] \in Nat \ {0} /\ MaxDelay \in Nat \ {0}
  BY BreakerAssumption
<1>2. failures * BaseDelay[cause] \in Nat \ {0}
  BY <1>1
<1> QED
  BY <1>1, <1>2 DEF FailureDelay, Smaller

\* Whatever an outcome does to a breaker state, the result is one.
LEMMA AfterOutcomeType ==
  ASSUME NEW Gen, NEW state \in RouteHealth(Gen), NEW gen \in Gen,
         NEW outcome \in OutcomeType, NEW t \in Nat
  PROVE  AfterOutcome(state, gen, outcome, t) \in RouteHealth(Gen)
<1>1. CASE LimitHolds(state, outcome, t)
  BY <1>1 DEF AfterOutcome, RouteHealth
<1>2. CASE ~LimitHolds(state, outcome, t) /\ outcome.cause = "success"
  BY <1>2, NeutralTypes DEF AfterOutcome
<1>3. CASE ~LimitHolds(state, outcome, t) /\ outcome.cause # "success"
  <2>1. outcome.cause \in Cause /\ outcome.retryIn \in Nat
    BY <1>3 DEF OutcomeType
  <2>2. state.failures + 1 \in Nat \ {0} /\ state.until \in Nat /\ state.invalid \in BOOLEAN
    BY DEF RouteHealth
  <2>3. FailureDelay(state.failures + 1, outcome.cause) \in Nat
    BY <2>1, <2>2, FailureDelayType
  <2>4. PermanentlyInvalidates(outcome) \in BOOLEAN
    BY DEF PermanentlyInvalidates
  <2>5. AfterFailure(state, gen, outcome, t) \in RouteHealth(Gen)
    BY <2>1, <2>2, <2>3, <2>4 DEF AfterFailure, RouteHealth
  <2> QED
    BY <1>3, <2>5 DEF AfterOutcome
<1> QED
  BY <1>1, <1>2, <1>3

\* An outcome observed at time t leaves a known state of the installed
\* generation whose attempt is t, the running limit that survives a success
\* included: only a known key has a cooldown.
LEMMA AfterOutcomeFacts ==
  ASSUME NEW state, NEW gen, NEW outcome, NEW t \in Nat,
         state \in RouteHealth(Nat),
         state.until # 0 => state.known /\ state.gen = gen
  PROVE  /\ AfterOutcome(state, gen, outcome, t).known
         /\ AfterOutcome(state, gen, outcome, t).gen = gen
         /\ AfterOutcome(state, gen, outcome, t).attempt = t
<1> DEFINE after == AfterOutcome(state, gen, outcome, t)
<1>1. CASE LimitHolds(state, outcome, t)
  <2>1. state.until \in Nat /\ state.until > t
    BY <1>1 DEF LimitHolds, RouteHealth
  <2>2. state.known /\ state.gen = gen
    BY <2>1
  <2>3. after = [state EXCEPT !.attempt = t]
    BY <1>1 DEF AfterOutcome
  <2> QED
    BY <2>2, <2>3 DEF RouteHealth
<1>2. CASE ~LimitHolds(state, outcome, t) /\ outcome.cause = "success"
  BY <1>2 DEF AfterOutcome, AfterSuccess
<1>3. CASE ~LimitHolds(state, outcome, t) /\ outcome.cause # "success"
  BY <1>3 DEF AfterOutcome, AfterFailure
<1> QED
  BY <1>1, <1>2, <1>3
====
