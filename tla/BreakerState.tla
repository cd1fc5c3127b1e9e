---- MODULE BreakerState ----
(***************************************************************************)
(* The state kept for one breaker key and the pure functions that update   *)
(* it: type RouteHealth of internal/runtime/health.go, read by HealthGate  *)
(* (all keys of a gate) and by HealthPersistence (the durable copies).     *)
(*                                                                         *)
(* Time is a natural number; 0 stands for Go's zero time.Time, so a        *)
(* cooldown of 0 is "no cooldown" and an attempt of 0 "never attempted".   *)
(* Confidence, evidence, the error text and the success counter are left   *)
(* out: nothing that decides eligibility reads them.                       *)
(***************************************************************************)
EXTENDS Integers

CONSTANTS
  Cause,        \* causes a classifier can report besides "success"
  LimitCause,   \* the subset rate_limited, quota_exhausted
  BaseDelay,    \* [Cause -> Nat]: first-failure delay of failureDelay
  MaxDelay      \* cap of an estimated delay (10 minutes in the code)

ASSUME BreakerAssumption ==
  /\ LimitCause \subseteq Cause
  /\ "success" \notin Cause
  /\ "unknown" \in Cause
  /\ BaseDelay \in [Cause -> Nat \ {0}]
  /\ MaxDelay \in Nat \ {0}

Scope == {"operation", "route", "route_connection", "connection", "provider"}
Lane == {"operational", "authentication"}

\* Causes whose confirmed rejection invalidates the key until it is reset.
InvalidatingCause == {"auth", "permission", "model_not_found"}

(***************************************************************************)
(* ClassifiedOutcome: "retryIn" is the authoritative delay (RetryAt - now, *)
(* 0 when the answer carried none), "rejected" is Effect = EffectRejected  *)
(* and "never" is Retry = RetryNever. A request-scoped outcome has scope   *)
(* "request".                                                              *)
(***************************************************************************)
OutcomeType ==
  [cause: Cause \cup {"success"}, scope: Scope \cup {"request"},
   retryIn: Nat, rejected: BOOLEAN, never: BOOLEAN]

RouteHealth(Gen) ==
  [known: BOOLEAN, failures: Nat, invalid: BOOLEAN, until: Nat,
   cause: Cause \cup {"success"}, attempt: Nat, gen: Gen]

\* A missing map entry reads as the zero value.
NoHealth(gen) ==
  [known |-> FALSE, failures |-> 0, invalid |-> FALSE, until |-> 0,
   cause |-> "unknown", attempt |-> 0, gen |-> gen]

Blocks(state, now) == state.invalid \/ state.until > now

\* The condition under which Acquire treats a key as half-open.
HalfOpen(state) == state.failures > 0 /\ state.until # 0

Smaller(a, b) == IF a < b THEN a ELSE b

FailureDelay(failures, cause) == Smaller(failures * BaseDelay[cause], MaxDelay)

PermanentlyInvalidates(outcome) ==
  outcome.scope # "request" /\ outcome.rejected /\ outcome.cause \in InvalidatingCause

\* Mutant: a success always reopens the key.
LimitNeverHolds(state, outcome, now) == FALSE

\* A success that arrives while a rate-limit or quota cooldown runs.
LimitHolds(state, outcome, now) ==
  /\ outcome.cause = "success"
  /\ state.until > now /\ ~state.invalid
  /\ state.cause \in LimitCause

AfterSuccess(gen, now) ==
  [known |-> TRUE, failures |-> 0, invalid |-> FALSE, until |-> 0,
   cause |-> "success", attempt |-> now, gen |-> gen]

\* Mutant: the failure counter goes the wrong way.
AfterFailureUncounted(state, gen, outcome, now) ==
  [known |-> TRUE, failures |-> state.failures - 1, invalid |-> state.invalid,
   until |-> now + outcome.retryIn, cause |-> outcome.cause, attempt |-> now, gen |-> gen]

\* Mutant: a transient failure turns an invalid key back into a cooldown.
AfterFailureForgetsInvalid(state, gen, outcome, now) ==
  LET invalid == PermanentlyInvalidates(outcome)
  IN [known |-> TRUE, failures |-> state.failures + 1, invalid |-> invalid,
      until |-> IF invalid THEN 0
                ELSE now + FailureDelay(state.failures + 1, outcome.cause),
      cause |-> outcome.cause, attempt |-> now, gen |-> gen]

AfterFailure(state, gen, outcome, now) ==
  LET failures == state.failures + 1
      invalid  == state.invalid \/ PermanentlyInvalidates(outcome)
  IN [known |-> TRUE, failures |-> failures, invalid |-> invalid,
      until |-> IF invalid THEN 0
                ELSE IF outcome.retryIn > 0 THEN now + outcome.retryIn
                ELSE IF ~outcome.never THEN now + FailureDelay(failures, outcome.cause)
                ELSE state.until,
      cause |-> outcome.cause, attempt |-> now, gen |-> gen]

\* What ObserveOutcome stores at the key of the outcome.
AfterOutcome(state, gen, outcome, now) ==
  IF LimitHolds(state, outcome, now) THEN [state EXCEPT !.attempt = now]
  ELSE IF outcome.cause = "success" THEN AfterSuccess(gen, now)
  ELSE AfterFailure(state, gen, outcome, now)

\* The neutral state that a reset or a new generation leaves behind.
Neutral(gen) == [NoHealth(gen) EXCEPT !.known = TRUE]

\* Mutant: the stored entry always wins.
RestoreOverwrites(current, state) == TRUE

\* Restore keeps the entry in memory unless the stored one is newer.
RestoreAccepts(current, state) ==
  ~ /\ current.known
    /\ current.gen = state.gen
    /\ current.attempt # 0
    /\ state.attempt <= current.attempt
====
