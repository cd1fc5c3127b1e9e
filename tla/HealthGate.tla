---- MODULE HealthGate ----
(***************************************************************************)
(* The passive circuit breaker of internal/runtime/health.go, driven by    *)
(* the requests of internal/kernel and by configuration reloads of         *)
(* internal/daemon. Every exported method of HealthGate takes g.mu for its *)
(* whole body, so each is one action; the steps of a request (plan, admit, *)
(* observe, release) and of a reload (install generations, publish) are    *)
(* separate actions that interleave.                                       *)
(***************************************************************************)
EXTENDS BreakerState, FiniteSets

CONSTANTS
  Route, Connection, Provider, Operation, Flow, Request,
  ConnectionOf,   \* [Route -> Connection]
  ProviderOf,     \* [Connection -> Provider]
  FlowOf,         \* [Connection -> Flow]: sign-in flow of its credential type
  Outcome,        \* outcomes the upstream can produce
  Admission,      \* TRUE: the scheduler's gate has Acquire and Release
  MaxTime,        \* bound on the clock
  MaxChanges      \* bound on reloads and explicit resets

ASSUME GateAssumption ==
  /\ ConnectionOf \in [Route -> Connection]
  /\ ProviderOf \in [Connection -> Provider]
  /\ FlowOf \in [Connection -> Flow]
  /\ Outcome \subseteq OutcomeType
  /\ Admission \in BOOLEAN
  /\ MaxTime \in Nat /\ MaxChanges \in Nat
  /\ Route # {} /\ Operation # {}

VARIABLES
  scoped,       \* [Key -> RouteHealth]
  trials,       \* keys with a half-open trial in flight
  generations,  \* installed generation per key (a partial function)
  config,       \* routes and vectors in the store at the last reload
  snapshot,     \* the published kernel snapshot
  reloading,    \* a reload is between SetGenerations and PublishSnapshot
  changes,      \* reloads and resets made so far
  req,          \* per request: phase, route, operation, pinned vector, trial
  now

vars == <<scoped, trials, generations, config, snapshot, reloading,
          changes, req, now>>
gateVars == <<scoped, trials, generations>>
configVars == <<config, snapshot, reloading, changes>>

(***************************************************************************)
(* Generations. A vector is kernel.RouteHealthGeneration; the provider     *)
(* part also hashes the connection's sign-in flow. Components that a scope *)
(* does not look at are blanked.                                           *)
(***************************************************************************)
Vector == [provider: {0, 1}, flow: Flow, connection: Nat, credential: Nat, model: {0, 1}]

For(v, scope) ==
  [v EXCEPT !.connection = IF scope = "provider" THEN 0 ELSE @,
            !.credential = 0,
            !.model = IF scope \in {"provider", "connection"} THEN 0 ELSE @]

ForAuthentication(v, scope) ==
  [v EXCEPT !.connection = IF scope = "provider" THEN 0 ELSE @,
            !.credential = IF scope = "provider" THEN 0 ELSE @,
            !.model = IF scope \in {"provider", "connection"} THEN 0 ELSE @]

\* Mutant: operational evidence is fenced by the credential as well.
CredentialGeneration(v, scope, lane) == ForAuthentication(v, scope)

LaneGeneration(v, scope, lane) ==
  IF lane = "authentication" THEN ForAuthentication(v, scope) ELSE For(v, scope)

Zero == [provider |-> 0, flow |-> CHOOSE f \in Flow : TRUE,
         connection |-> 0, credential |-> 0, model |-> 0]

(***************************************************************************)
(* Breaker keys.                                                           *)
(***************************************************************************)
OutcomeLaneKey(r, o, scope, lane) ==
  [scope |-> scope, lane |-> lane,
   subject |-> CASE scope = "operation"  -> <<r, o>>
                 [] scope = "connection" -> ConnectionOf[r]
                 [] scope = "provider"   -> ProviderOf[ConnectionOf[r]]
                 [] OTHER                -> r]

KeysOf ==
  [r \in Route |-> [o \in Operation |->
     {OutcomeLaneKey(r, o, sl[1], sl[2]) : sl \in Scope \X Lane}]]
HealthKeys(r, o) == KeysOf[r][o]
Key == UNION {HealthKeys(r, o) : r \in Route, o \in Operation}

LaneGenerationCurrent(r, o, v, scope, lane) ==
  LET k == OutcomeLaneKey(r, o, scope, lane)
  IN scope # "request" /\ k \in DOMAIN generations
     /\ generations[k] = LaneGeneration(v, scope, lane)

Usable(r, o, v) ==
  /\ LaneGenerationCurrent(r, o, v, "operation", "operational")
  /\ LaneGenerationCurrent(r, o, v, "route", "operational")
  /\ \A k \in HealthKeys(r, o) : ~Blocks(scoped[k], now)

(***************************************************************************)
(* SetGenerations. Routes are visited in map order and the last one to     *)
(* visit a shared key decides its value. Only provider keys can differ     *)
(* between the routes that share them (connections of one provider may use *)
(* different sign-in flows); "last" names the deciding route.              *)
(***************************************************************************)
MapOrder(snap) ==
  {last \in [Provider -> Route] :
     \A r \in snap.routes :
       LET p == ProviderOf[ConnectionOf[r]]
       IN last[p] \in snap.routes /\ ProviderOf[ConnectionOf[last[p]]] = p}

InstalledKeys(snap) == UNION {HealthKeys(r, o) : r \in snap.routes, o \in Operation}

NextGeneration(snap, last, k) ==
  LET r == IF k.scope = "provider" THEN last[k.subject]
           ELSE CHOOSE x \in snap.routes : \E o \in Operation : k \in HealthKeys(x, o)
  IN LaneGeneration(snap.vector[r], k.scope, k.lane)

\* Mutant: entries of a superseded generation survive the reload.
AnyGeneration(k, value) == TRUE

\* An entry survives when neither its key's generation nor its own changed.
SameGeneration(k, value) ==
  k \in DOMAIN generations /\ generations[k] = value /\ scoped[k].gen = value

SetGenerations(snap) ==
  \E last \in MapOrder(snap) :
    LET next == [k \in InstalledKeys(snap) |-> NextGeneration(snap, last, k)]
        Kept(k) == ~scoped[k].known \/ SameGeneration(k, next[k])
    IN /\ generations' = next
       /\ scoped' = [k \in Key |-> IF k \notin DOMAIN next THEN NoHealth(Zero)
                                   ELSE IF Kept(k) THEN scoped[k]
                                   ELSE Neutral(next[k])]
       /\ trials' = {k \in trials : k \in DOMAIN next /\ Kept(k)}

(***************************************************************************)
(* A request: planned on the published snapshot, admitted, given a         *)
(* credential, answered by the upstream, observed, released.               *)
(***************************************************************************)
Phase == {"idle", "planned", "admitted", "inflight", "observed", "done"}

Plan(q, r, o) ==
  /\ req[q].phase = "idle"
  /\ r \in snapshot.routes
  /\ Usable(r, o, snapshot.vector[r])
  /\ req' = [req EXCEPT ![q] = [phase |-> "planned", route |-> r, op |-> o,
                                vector |-> snapshot.vector[r], trial |-> {}]]
  /\ UNCHANGED <<gateVars, configVars, now>>

\* Mutant: every key of an admitted request is marked.
AllTrialKeys(r, o) == HealthKeys(r, o)

\* The keys an admitted request is a half-open trial of.
TrialKeys(r, o) == {k \in HealthKeys(r, o) : HalfOpen(scoped[k])}

Admissible(r, o, v) ==
  /\ Usable(r, o, v)
  /\ TrialKeys(r, o) \cap trials = {}

\* Scheduler.Acquire asks the gate only when it implements RouteAdmission.
Acquire(q) ==
  LET r == req[q].route
      o == req[q].op
  IN /\ req[q].phase = "planned"
     /\ Admission => Admissible(r, o, req[q].vector)
     /\ trials' = IF Admission THEN trials \cup TrialKeys(r, o) ELSE trials
     /\ req' = [req EXCEPT ![q].phase = "admitted",
                           ![q].trial = {k \in TrialKeys(r, o) : ~Blocks(scoped[k], now)}]
     /\ UNCHANGED <<scoped, generations, configVars, now>>

\* A refused candidate is skipped; partial trial marks are rolled back.
Refuse(q) ==
  /\ req[q].phase = "planned"
  /\ Admission /\ ~Admissible(req[q].route, req[q].op, req[q].vector)
  /\ req' = [req EXCEPT ![q].phase = "done"]
  /\ UNCHANGED <<gateVars, configVars, now>>

\* The credential lease before the dispatch, or the one a refresh returns: a
\* new principal ends the attempt; otherwise its outcome is attributed to the
\* credential revision in the store, which may be newer than the snapshot's.
Lease(q) ==
  LET stored == config.vector[req[q].route]
  IN /\ \/ req[q].phase = "admitted"
        \/ req[q].phase = "inflight" /\ req[q].vector.credential # stored.credential
     /\ req[q].vector.connection = stored.connection
     /\ req' = [req EXCEPT ![q].phase = "inflight", ![q].vector.credential = stored.credential]
     /\ UNCHANGED <<gateVars, configVars, now>>

\* Keys of the same lane whose expired cooldown this success ends.
RecoveredKeys(r, o, key) ==
  {k \in HealthKeys(r, o) \cap trials :
     k # key /\ k.lane = key.lane /\ ~Blocks(scoped[k], now)}

OutcomeLane(outcome) == IF outcome.cause = "auth" THEN "authentication" ELSE "operational"

\* Mutant: late evidence is applied whatever its generation.
AcceptsLateOutcome(r, o, v, outcome) == outcome.scope # "request"

\* Evidence of a superseded generation is dropped. PolicyGate, the gate without
\* admission, also asks for the operational generation of the scope.
AcceptsOutcome(r, o, v, outcome) ==
  /\ LaneGenerationCurrent(r, o, v, outcome.scope, OutcomeLane(outcome))
  /\ Admission \/ LaneGenerationCurrent(r, o, v, outcome.scope, "operational")

ObserveOutcome(r, o, v, outcome) ==
  LET lane == OutcomeLane(outcome)
      key == OutcomeLaneKey(r, o, outcome.scope, lane)
      recovered == IF outcome.cause = "success" /\ ~LimitHolds(scoped[key], outcome, now)
                   THEN RecoveredKeys(r, o, key) ELSE {}
  IN IF AcceptsOutcome(r, o, v, outcome)
     THEN /\ scoped' = [k \in Key |->
                IF k = key
                THEN AfterOutcome(scoped[k], LaneGeneration(v, outcome.scope, lane), outcome, now)
                ELSE IF k \in recovered THEN AfterSuccess(scoped[k].gen, now)
                ELSE scoped[k]]
          /\ trials' = trials \ ({key} \cup recovered)
     ELSE UNCHANGED <<scoped, trials>>

Observe(q, outcome) ==
  /\ req[q].phase = "inflight"
  /\ ObserveOutcome(req[q].route, req[q].op, req[q].vector, outcome)
  /\ req' = [req EXCEPT ![q].phase = "observed"]
  /\ UNCHANGED <<generations, configVars, now>>

\* Also the end of a cancelled or locally failed attempt, which is neutral.
Release(q) ==
  LET r == req[q].route
      o == req[q].op
      current == LaneGenerationCurrent(r, o, req[q].vector, "route", "operational")
  IN /\ req[q].phase \in {"admitted", "inflight", "observed"}
     /\ trials' = IF Admission /\ current THEN trials \ HealthKeys(r, o) ELSE trials
     /\ req' = [req EXCEPT ![q].phase = "done"]
     /\ UNCHANGED <<scoped, generations, configVars, now>>

(***************************************************************************)
(* Explicit resets by the control plane, on routes of the live snapshot.   *)
(***************************************************************************)
ResetScopeLanes(r, o, scope, lanes) ==
  LET v == snapshot.vector[r]
      reset == {l \in lanes : LaneGenerationCurrent(r, o, v, scope, l)}
      keys == {OutcomeLaneKey(r, o, scope, l) : l \in reset}
  IN /\ scoped' = [k \in Key |-> IF k \in keys THEN Neutral(LaneGeneration(v, scope, k.lane))
                                 ELSE scoped[k]]
     /\ trials' = trials \ keys

\* The code locks once per lane; the two lanes of a scope share no key.
ResetScope(r, o, scope) ==
  /\ r \in snapshot.routes
  /\ scope \in {"route", "route_connection", "connection", "provider"}
  /\ changes < MaxChanges
  /\ changes' = changes + 1
  /\ ResetScopeLanes(r, o, scope, Lane)
  /\ UNCHANGED <<generations, config, snapshot, reloading, req, now>>

ClearInvalid(r, o, scope) ==
  /\ r \in snapshot.routes
  /\ scope \in {"route", "route_connection"}
  /\ scoped[OutcomeLaneKey(r, o, scope, "operational")].invalid
  /\ changes < MaxChanges
  /\ changes' = changes + 1
  /\ ResetScopeLanes(r, o, scope, {"operational"})
  /\ UNCHANGED <<generations, config, snapshot, reloading, req, now>>

(***************************************************************************)
(* Configuration. Provider and model generations hash their settings, so   *)
(* changing a setting back restores the old value; principal and           *)
(* credential revisions are fresh.                                         *)
(***************************************************************************)
RoutesOn(c) == {r \in Route : ConnectionOf[r] = c}

\* The store is updated, then the reload hook installs the generations of the
\* new configuration before it publishes the snapshot built from it.
Reload(next) ==
  /\ ~reloading /\ changes < MaxChanges
  /\ config' = next
  /\ changes' = changes + 1
  /\ reloading' = TRUE
  /\ SetGenerations(next)
  /\ UNCHANGED <<snapshot, req, now>>

\* The configuration with new vectors on some routes.
WithVectors(routes, edited) ==
  [config EXCEPT !.vector = [r \in Route |-> IF r \in routes THEN edited[r] ELSE config.vector[r]]]

EditProvider(p) ==
  Reload(WithVectors({r \in Route : ProviderOf[ConnectionOf[r]] = p},
    [r \in Route |-> [config.vector[r] EXCEPT !.provider = 1 - @]]))

EditModel(m) ==
  Reload(WithVectors({m}, [r \in Route |-> [config.vector[r] EXCEPT !.model = 1 - @]]))

ReplacePrincipal(c) ==
  Reload(WithVectors(RoutesOn(c),
    [r \in Route |-> [config.vector[r] EXCEPT !.connection = @ + 1, !.credential = @ + 1]]))

RotateCredential(c) ==
  Reload(WithVectors(RoutesOn(c),
    [r \in Route |-> [config.vector[r] EXCEPT !.credential = @ + 1]]))

ToggleRoute(r) ==
  Reload([config EXCEPT !.routes = IF r \in @ THEN @ \ {r} ELSE @ \cup {r}])

PublishSnapshot ==
  /\ reloading
  /\ snapshot' = config
  /\ reloading' = FALSE
  /\ UNCHANGED <<gateVars, config, changes, req, now>>

\* Restoring health or publishing failed: the old generations come back, the
\* stored configuration stays.
AbortReload ==
  /\ reloading
  /\ reloading' = FALSE
  /\ SetGenerations(snapshot)
  /\ UNCHANGED <<config, snapshot, changes, req, now>>

Tick ==
  /\ now < MaxTime
  /\ now' = now + 1
  /\ UNCHANGED <<gateVars, configVars, req>>

(***************************************************************************)
(* Specification.                                                          *)
(***************************************************************************)
InitialConfig ==
  [routes |-> Route,
   vector |-> [r \in Route |-> [Zero EXCEPT !.flow = FlowOf[ConnectionOf[r]]]]]

Init ==
  /\ config = InitialConfig /\ snapshot = InitialConfig
  /\ reloading = FALSE /\ changes = 0
  /\ scoped = [k \in Key |-> NoHealth(Zero)]
  /\ trials = {}
  /\ \E last \in MapOrder(InitialConfig) :
       generations = [k \in InstalledKeys(InitialConfig) |->
                        NextGeneration(InitialConfig, last, k)]
  /\ req = [q \in Request |-> [phase |-> "idle", route |-> CHOOSE r \in Route : TRUE,
                               op |-> CHOOSE o \in Operation : TRUE,
                               vector |-> Zero, trial |-> {}]]
  /\ now = 1

Next ==
  \/ \E q \in Request :
       \/ \E r \in Route, o \in Operation : Plan(q, r, o)
       \/ Acquire(q)
       \/ Refuse(q)
       \/ Lease(q)
       \/ \E outcome \in Outcome : Observe(q, outcome)
       \/ Release(q)
  \/ \E r \in Route, o \in Operation, scope \in Scope : ResetScope(r, o, scope)
  \/ \E r \in Route, o \in Operation, scope \in Scope : ClearInvalid(r, o, scope)
  \/ \E p \in Provider : EditProvider(p)
  \/ \E r \in Route : EditModel(r)
  \/ \E c \in Connection : ReplacePrincipal(c)
  \/ \E c \in Connection : RotateCredential(c)
  \/ \E r \in Route : ToggleRoute(r)
  \/ PublishSnapshot
  \/ AbortReload
  \/ Tick

Spec == Init /\ [][Next]_vars

(***************************************************************************)
(* Properties.                                                             *)
(***************************************************************************)
Configuration == [routes: SUBSET Route, vector: [Route -> Vector]]
RequestState == [phase: Phase, route: Route, op: Operation, vector: Vector,
                 trial: SUBSET Key]

\* Every variable keeps its type.
TypeOK ==
  /\ scoped \in [Key -> RouteHealth(Vector)]
  /\ trials \subseteq Key
  /\ DOMAIN generations \subseteq Key
  /\ \A k \in DOMAIN generations : generations[k] \in Vector
  /\ config \in Configuration /\ snapshot \in Configuration
  /\ reloading \in BOOLEAN /\ changes \in Nat
  /\ req \in [Request -> RequestState]
  /\ now \in Nat

\* Every health entry in memory belongs to the generation installed for its
\* key, whatever late outcomes, resets and half-done reloads came before:
\* the fence of SetGenerations, ObserveOutcome and resetScopeLane.
GenerationFence ==
  \A k \in Key : scoped[k].known =>
    k \in DOMAIN generations /\ scoped[k].gen = generations[k]

\* A trial mark exists only on a key that still waits for its recovery trial:
\* known, failed before, with a cooldown on record and not invalidated. A mark
\* on a recovered or reset key would refuse the next real trial of that key.
TrialsAreHalfOpen ==
  \A k \in trials : scoped[k].known /\ HalfOpen(scoped[k]) /\ ~scoped[k].invalid

\* Once a reload is over, whatever blocks a published route below provider
\* scope was observed under that route's own published generation (docs
\* PASSIVE_HEALTH_ROUTING.md, invariant 13).
SuppressionIsCurrent ==
  ~reloading =>
    \A r \in snapshot.routes, o \in Operation : \A k \in HealthKeys(r, o) :
      k.scope # "provider" /\ Blocks(scoped[k], now) =>
        scoped[k].gen = LaneGeneration(snapshot.vector[r], k.scope, k.lane)

SameButCredential(a, b) ==
  /\ a.routes = b.routes
  /\ \A r \in Route : a.vector[r] = [b.vector[r] EXCEPT !.credential = a.vector[r].credential]

\* A reload that only rotates credentials leaves all operational evidence and
\* its trials alone, and no authentication evidence of the old credential
\* blocks a route of the rotated connection (contract.go, comment of
\* ForAuthentication).
RotationSparesOperational ==
  [][~reloading /\ reloading' /\ SameButCredential(snapshot, config') =>
       /\ \A k \in Key : k.lane = "operational" =>
            scoped'[k] = scoped[k] /\ (k \in trials => k \in trials')
       /\ \A r \in config'.routes, o \in Operation :
            snapshot.vector[r].credential # config'.vector[r].credential =>
              \A k \in HealthKeys(r, o) :
                k.lane = "authentication" /\ k.scope # "provider" => ~Blocks(scoped'[k], now)]_vars

\* While a rate-limit or quota cooldown runs, no success of a concurrent
\* request reopens the key; only failures, resets and new generations replace
\* it.
LimitSurvivesSuccess ==
  [][\A k \in Key :
       scoped[k].known /\ scoped[k].cause \in LimitCause /\ scoped[k].until > now
       /\ scoped'[k].cause = "success" => FALSE]_vars

\* An invalidated key reopens only through a success observed at that key, an
\* explicit reset or a new generation: neither time nor a later failure of
\* another kind turns it back into a cooldown.
InvalidIsSticky ==
  [][\A k \in Key :
       scoped[k].invalid /\ ~scoped'[k].invalid =>
         \/ scoped'[k].attempt = 0
         \/ /\ scoped'[k].cause = "success"
            /\ \E q \in Request :
                 /\ req[q].phase = "inflight" /\ req'[q].phase = "observed"
                 /\ k \in HealthKeys(req[q].route, req[q].op)]_vars

\* docs/PASSIVE_HEALTH_ROUTING.md, invariant 11: a half-open key has at most
\* one real trial in flight.
OneTrialPerKey ==
  \A p, q \in Request :
    p # q /\ req[p].phase = "inflight" /\ req[q].phase = "inflight" =>
      req[p].trial \cap req[q].trial = {}

\* docs/PASSIVE_HEALTH_ROUTING.md, invariant 4: an authoritative reset time is
\* not replaced by a local estimate. Whenever an observation shortens a
\* running cooldown, its key must have been reset, succeeded or reconfigured.
ResetTimesAreKept ==
  [][\A k \in Key :
       /\ scoped[k].known /\ scoped[k].cause \in LimitCause /\ scoped[k].until > now
       /\ scoped'[k].gen = scoped[k].gen /\ scoped'[k].attempt # 0
       /\ scoped'[k].cause \notin LimitCause /\ ~scoped'[k].invalid
       => scoped'[k].until >= scoped[k].until]_vars

\* docs/PASSIVE_HEALTH_ROUTING.md, invariant 2: client errors do not degrade
\* route health. An answer that blames the request adds no failure to a key,
\* so that it cannot lengthen the cooldown of the next real failure.
ClientErrorsAreNeutral ==
  [][\A k \in Key :
       scoped'[k] # scoped[k] /\ scoped'[k].cause = "request_invalid" =>
         scoped'[k].failures <= scoped[k].failures]_vars
====
