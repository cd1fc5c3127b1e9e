---- MODULE HealthGateProofs ----
(***************************************************************************)
(* Theorems about HealthGate, for every set of routes, connections,        *)
(* providers, operations, requests and outcomes and every bound.           *)
(***************************************************************************)
EXTENDS HealthGate, BreakerStateProofs

(***************************************************************************)
(* Lemmas about the pure operators.                                        *)
(***************************************************************************)

\* The keys of a route are the keys of its scopes and lanes.
LEMMA KeysAreScoped ==
  ASSUME NEW r \in Route, NEW o \in Operation, NEW s \in Scope, NEW l \in Lane
  PROVE  /\ OutcomeLaneKey(r, o, s, l) \in HealthKeys(r, o)
         /\ HealthKeys(r, o) \subseteq Key
<1>1. <<s, l>> \in Scope \X Lane
  OBVIOUS
<1>2. HealthKeys(r, o) = {OutcomeLaneKey(r, o, sl[1], sl[2]) : sl \in Scope \X Lane}
  BY DEF HealthKeys, KeysOf
<1> QED
  BY <1>1, <1>2 DEF Key

\* A key of a route names its scope, its lane and one of the route's subjects.
LEMMA KeyShape ==
  ASSUME NEW r \in Route, NEW o \in Operation, NEW k \in HealthKeys(r, o)
  PROVE  /\ k.scope \in Scope
         /\ k.lane \in Lane
         /\ k = OutcomeLaneKey(r, o, k.scope, k.lane)
         /\ k.scope = "provider" => k.subject = ProviderOf[ConnectionOf[r]]
<1>1. HealthKeys(r, o) = {OutcomeLaneKey(r, o, sl[1], sl[2]) : sl \in Scope \X Lane}
  BY DEF HealthKeys, KeysOf
<1>2. PICK sl \in Scope \X Lane : k = OutcomeLaneKey(r, o, sl[1], sl[2])
  BY <1>1
<1>3. k.scope = sl[1] /\ k.lane = sl[2]
  BY <1>2 DEF OutcomeLaneKey
<1>4. k.scope = "provider" => k.subject = ProviderOf[ConnectionOf[r]]
  BY <1>2, <1>3 DEF OutcomeLaneKey
<1> QED
  BY <1>2, <1>3, <1>4

\* Blanking the components a scope ignores yields a generation vector again.
LEMMA LaneGenerationType ==
  ASSUME NEW v \in Vector, NEW s, NEW l
  PROVE  LaneGeneration(v, s, l) \in Vector
BY DEF LaneGeneration, For, ForAuthentication, Vector

\* There is a route, so there is a sign-in flow and Zero is a vector.
LEMMA ZeroType == Zero \in Vector
<1>1. PICK r \in Route : TRUE
  BY GateAssumption
<1>2. FlowOf[ConnectionOf[r]] \in Flow
  BY GateAssumption
<1>3. (CHOOSE f \in Flow : TRUE) \in Flow
  BY <1>2
<1> QED
  BY <1>3 DEF Zero, Vector

(***************************************************************************)
(* The inductive invariant. A key without an entry has no failures and no  *)
(* cooldown, which is why a half-open key is always a known one; an        *)
(* invalidated key has no cooldown, so no limit can be running on it.      *)
(***************************************************************************)
GateType ==
  /\ scoped \in [Key -> RouteHealth(Vector)]
  /\ trials \subseteq Key
  /\ DOMAIN generations \subseteq Key
  /\ \A k \in DOMAIN generations : generations[k] \in Vector

UnknownIsEmpty ==
  \A k \in Key : ~scoped[k].known => scoped[k].failures = 0 /\ scoped[k].until = 0

InvalidHasNoCooldown == \A k \in Key : scoped[k].invalid => scoped[k].until = 0

GateInv ==
  /\ GateType
  /\ GenerationFence
  /\ UnknownIsEmpty
  /\ InvalidHasNoCooldown
  /\ TrialsAreHalfOpen

\* The generation that SetGenerations installs at a key is a vector.
LEMMA NextGenerationType ==
  ASSUME NEW snap \in Configuration, NEW last \in MapOrder(snap),
         NEW k \in InstalledKeys(snap)
  PROVE  NextGeneration(snap, last, k) \in Vector
<1>1. PICK r \in snap.routes, o \in Operation : k \in HealthKeys(r, o)
  BY DEF InstalledKeys
<1>2. snap.routes \subseteq Route /\ snap.vector \in [Route -> Vector]
  BY DEF Configuration
<1>3. CASE k.scope = "provider"
  <2>1. k.subject = ProviderOf[ConnectionOf[r]]
    BY <1>1, <1>2, <1>3, KeyShape
  <2>2. last[k.subject] \in snap.routes
    BY <1>1, <2>1 DEF MapOrder
  <2> QED
    BY <1>2, <1>3, <2>2, LaneGenerationType DEF NextGeneration
<1>4. CASE k.scope # "provider"
  <2> DEFINE x == CHOOSE y \in snap.routes : \E p \in Operation : k \in HealthKeys(y, p)
  <2>1. x \in snap.routes
    BY <1>1
  <2>2. NextGeneration(snap, last, k) = LaneGeneration(snap.vector[x], k.scope, k.lane)
    BY <1>4 DEF NextGeneration
  <2> HIDE DEF x
  <2> QED
    BY <1>2, <2>1, <2>2, LaneGenerationType
<1> QED
  BY <1>3, <1>4

\* Installing the generations of a configuration keeps the gate invariant:
\* every surviving entry carries the generation installed at its key.
LEMMA SetGenerationsKeepsGate ==
  ASSUME GateInv, NEW snap \in Configuration, SetGenerations(snap)
  PROVE  GateInv'
<1>1. PICK last \in MapOrder(snap) :
        LET next == [k \in InstalledKeys(snap) |-> NextGeneration(snap, last, k)]
            Kept(k) == ~scoped[k].known \/ SameGeneration(k, next[k])
        IN /\ generations' = next
           /\ scoped' = [k \in Key |-> IF k \notin DOMAIN next THEN NoHealth(Zero)
                                       ELSE IF Kept(k) THEN scoped[k]
                                       ELSE Neutral(next[k])]
           /\ trials' = {k \in trials : k \in DOMAIN next /\ Kept(k)}
  BY DEF SetGenerations
<1> DEFINE next == [k \in InstalledKeys(snap) |-> NextGeneration(snap, last, k)]
           Kept(k) == ~scoped[k].known \/ SameGeneration(k, next[k])
<1>2. /\ generations' = next
      /\ scoped' = [k \in Key |-> IF k \notin DOMAIN next THEN NoHealth(Zero)
                                  ELSE IF Kept(k) THEN scoped[k]
                                  ELSE Neutral(next[k])]
      /\ trials' = {k \in trials : k \in DOMAIN next /\ Kept(k)}
  BY <1>1
<1>3. \A k \in DOMAIN next : next[k] \in Vector
  BY NextGenerationType
<1>4. DOMAIN next \subseteq Key
  <2>1. snap.routes \subseteq Route
    BY DEF Configuration
  <2> QED
    BY <2>1 DEF InstalledKeys, Key
<1> HIDE DEF next
<1>5. GateType'
  <2>1. scoped' \in [Key -> RouteHealth(Vector)]
    BY <1>2, <1>3, NeutralTypes, ZeroType DEF GateInv, GateType
  <2> QED
    BY <1>2, <1>3, <1>4, <2>1 DEF GateInv, GateType
<1>6. GenerationFence'
  <2> SUFFICES ASSUME NEW k \in Key, scoped'[k].known
               PROVE  k \in DOMAIN next /\ scoped'[k].gen = next[k]
    BY <1>2 DEF GenerationFence
  <2>1. k \in DOMAIN next
    BY <1>2 DEF NoHealth
  <2>2. CASE Kept(k)
    BY <1>2, <2>1, <2>2 DEF SameGeneration
  <2>3. CASE ~Kept(k)
    BY <1>2, <2>1, <2>3 DEF Neutral, NoHealth
  <2> QED
    BY <2>1, <2>2, <2>3
<1>7. UnknownIsEmpty' /\ InvalidHasNoCooldown'
  BY <1>2 DEF GateInv, UnknownIsEmpty, InvalidHasNoCooldown, NoHealth, Neutral
<1>8. TrialsAreHalfOpen'
  <2> SUFFICES ASSUME NEW k \in trials'
               PROVE  scoped'[k] = scoped[k] /\ k \in trials
    BY DEF GateInv, TrialsAreHalfOpen
  <2> QED
    BY <1>2 DEF GateInv, GateType
<1> QED
  BY <1>5, <1>6, <1>7, <1>8 DEF GateInv

\* An observed outcome keeps the gate invariant: it is applied only under the
\* installed generation, and the keys it settles lose their trial mark.
LEMMA ObserveKeepsGate ==
  ASSUME GateInv, now \in Nat, NEW r \in Route, NEW o \in Operation,
         NEW v \in Vector, NEW outcome \in OutcomeType,
         ObserveOutcome(r, o, v, outcome), UNCHANGED generations
  PROVE  GateInv'
<1> DEFINE lane == OutcomeLane(outcome)
           key == OutcomeLaneKey(r, o, outcome.scope, lane)
           gen == LaneGeneration(v, outcome.scope, lane)
           recovered == IF outcome.cause = "success" /\ ~LimitHolds(scoped[key], outcome, now)
                        THEN RecoveredKeys(r, o, key) ELSE {}
<1>1. CASE ~AcceptsOutcome(r, o, v, outcome)
  <2>1. scoped' = scoped /\ trials' = trials /\ generations' = generations
    BY <1>1 DEF ObserveOutcome
  <2> QED
    BY <2>1 DEF GateInv, GateType, GenerationFence, UnknownIsEmpty,
                InvalidHasNoCooldown, TrialsAreHalfOpen
<1>2. CASE AcceptsOutcome(r, o, v, outcome)
  <2>1. /\ scoped' = [k \in Key |->
              IF k = key THEN AfterOutcome(scoped[k], gen, outcome, now)
              ELSE IF k \in recovered THEN AfterSuccess(scoped[k].gen, now)
              ELSE scoped[k]]
        /\ trials' = trials \ ({key} \cup recovered)
    BY <1>2 DEF ObserveOutcome
  <2>2. /\ outcome.scope \in Scope /\ lane \in Lane
        /\ key \in DOMAIN generations /\ generations[key] = gen
    BY <1>2 DEF AcceptsOutcome, LaneGenerationCurrent, OutcomeType, OutcomeLane, Lane
  <2>3. gen \in Vector
    BY LaneGenerationType
  <2>4. recovered \subseteq trials
    BY DEF RecoveredKeys
  <2>5. \A k \in recovered : scoped[k].known /\ scoped[k].gen \in Vector
    BY <2>4 DEF GateInv, GateType, TrialsAreHalfOpen, RouteHealth
  <2>6. \A k \in Key : AfterOutcome(scoped[k], gen, outcome, now) \in RouteHealth(Vector)
    BY <2>3, AfterOutcomeType DEF GateInv, GateType
  <2>7. /\ AfterOutcome(scoped[key], gen, outcome, now).known
        /\ AfterOutcome(scoped[key], gen, outcome, now).gen = gen
        /\ AfterOutcome(scoped[key], gen, outcome, now).invalid
             => AfterOutcome(scoped[key], gen, outcome, now).until = 0
    <3>1. scoped[key] \in RouteHealth(Vector) /\ (scoped[key].known => scoped[key].gen = gen)
      BY <2>2 DEF GateInv, GateType, GenerationFence
    <3>2. CASE LimitHolds(scoped[key], outcome, now)
      <4>1. scoped[key].known
        \* A key without an entry has no cooldown to hold.
        BY <2>2, <3>2 DEF GateInv, GateType, UnknownIsEmpty, LimitHolds
      <4> QED
        BY <3>1, <3>2, <4>1 DEF AfterOutcome, LimitHolds, RouteHealth
    <3>3. CASE ~LimitHolds(scoped[key], outcome, now)
      BY <3>3 DEF AfterOutcome, AfterSuccess, AfterFailure
    <3> QED
      BY <3>2, <3>3
  <2> HIDE DEF key, gen, recovered, lane
  <2>8. GateType'
    <3>1. scoped' \in [Key -> RouteHealth(Vector)]
      BY <2>1, <2>5, <2>6, NeutralTypes DEF GateInv, GateType
    <3> QED
      BY <2>1, <3>1 DEF GateInv, GateType
  <2>9. GenerationFence'
    BY <2>1, <2>2, <2>5, <2>7 DEF GateInv, GenerationFence, AfterSuccess
  <2>10. UnknownIsEmpty' /\ InvalidHasNoCooldown'
    BY <2>1, <2>7 DEF GateInv, UnknownIsEmpty, InvalidHasNoCooldown, AfterSuccess
  <2>11. TrialsAreHalfOpen'
    <3> SUFFICES ASSUME NEW k \in trials'
                 PROVE  scoped'[k] = scoped[k] /\ k \in trials
      BY DEF GateInv, TrialsAreHalfOpen
    <3> QED
      BY <2>1 DEF GateInv, GateType
  <2> QED
    BY <2>8, <2>9, <2>10, <2>11 DEF GateInv
<1> QED
  BY <1>1, <1>2

\* An explicit reset keeps the gate invariant.
LEMMA ResetKeepsGate ==
  ASSUME GateInv, snapshot \in Configuration, NEW r \in Route, NEW o \in Operation,
         NEW scope, NEW lanes,
         ResetScopeLanes(r, o, scope, lanes), UNCHANGED generations
  PROVE  GateInv'
<1> DEFINE v == snapshot.vector[r]
           reset == {l \in lanes : LaneGenerationCurrent(r, o, v, scope, l)}
           keys == {OutcomeLaneKey(r, o, scope, l) : l \in reset}
<1>1. /\ scoped' = [k \in Key |-> IF k \in keys THEN Neutral(LaneGeneration(v, scope, k.lane))
                                  ELSE scoped[k]]
      /\ trials' = trials \ keys
  BY DEF ResetScopeLanes
<1>2. v \in Vector
  BY DEF Configuration
<1>3. \A k \in keys : k \in DOMAIN generations
                     /\ generations[k] = LaneGeneration(v, scope, k.lane)
  <2> SUFFICES ASSUME NEW k \in keys
               PROVE  k \in DOMAIN generations
                      /\ generations[k] = LaneGeneration(v, scope, k.lane)
    OBVIOUS
  <2>1. PICK l \in lanes : LaneGenerationCurrent(r, o, v, scope, l)
                           /\ k = OutcomeLaneKey(r, o, scope, l)
    OBVIOUS
  <2>2. k.lane = l
    BY <2>1 DEF OutcomeLaneKey
  <2> QED
    BY <2>1, <2>2 DEF LaneGenerationCurrent
<1>4. \A k \in keys : LaneGeneration(v, scope, k.lane) \in Vector
  BY <1>2, LaneGenerationType
<1> HIDE DEF keys
<1>5. GateType'
  <2>1. scoped' \in [Key -> RouteHealth(Vector)]
    BY <1>1, <1>4, NeutralTypes DEF GateInv, GateType
  <2> QED
    BY <1>1, <2>1 DEF GateInv, GateType
<1>6. \A k \in keys : /\ Neutral(LaneGeneration(v, scope, k.lane)).known
                      /\ ~Neutral(LaneGeneration(v, scope, k.lane)).invalid
                      /\ Neutral(LaneGeneration(v, scope, k.lane)).gen = generations[k]
  BY <1>3 DEF Neutral, NoHealth
<1>7. GenerationFence'
  BY <1>1, <1>3, <1>6 DEF GateInv, GenerationFence
<1>8. UnknownIsEmpty' /\ InvalidHasNoCooldown'
  BY <1>1, <1>6 DEF GateInv, UnknownIsEmpty, InvalidHasNoCooldown
<1>9. TrialsAreHalfOpen'
  <2> SUFFICES ASSUME NEW k \in trials'
               PROVE  scoped'[k] = scoped[k] /\ k \in trials
    BY DEF GateInv, TrialsAreHalfOpen
  <2> QED
    BY <1>1 DEF GateInv, GateType
<1> QED
  BY <1>5, <1>7, <1>8, <1>9 DEF GateInv

\* Admission marks only half-open keys of a usable route.
LEMMA AcquireKeepsGate ==
  ASSUME GateInv, now \in Nat, NEW r \in Route, NEW o \in Operation, NEW v,
         Admission => Admissible(r, o, v),
         trials' = IF Admission THEN trials \cup TrialKeys(r, o) ELSE trials,
         UNCHANGED <<scoped, generations>>
  PROVE  GateInv'
<1>1. TrialKeys(r, o) \subseteq Key
  <2>1. HealthKeys(r, o) \subseteq Key
    BY KeysAreScoped DEF Scope, Lane
  <2> QED
    BY <2>1 DEF TrialKeys
<1>2. GateType' /\ GenerationFence' /\ UnknownIsEmpty' /\ InvalidHasNoCooldown'
  BY <1>1 DEF GateInv, GateType, GenerationFence, UnknownIsEmpty, InvalidHasNoCooldown
<1>3. TrialsAreHalfOpen'
  <2> SUFFICES ASSUME NEW k \in trials', k \notin trials
               PROVE  scoped[k].known /\ HalfOpen(scoped[k]) /\ ~scoped[k].invalid
    BY DEF GateInv, TrialsAreHalfOpen, HalfOpen
  <2>1. Admission /\ k \in HealthKeys(r, o) /\ k \in Key /\ HalfOpen(scoped[k])
    BY <1>1 DEF TrialKeys
  <2>2. ~scoped[k].invalid
    BY <2>1 DEF Admissible, Usable, Blocks
  <2>3. scoped[k].known
    BY <2>1 DEF GateInv, GateType, RouteHealth, UnknownIsEmpty, HalfOpen
  <2> QED
    BY <2>1, <2>2, <2>3
<1> QED
  BY <1>2, <1>3 DEF GateInv

\* Dropping trial marks keeps the gate invariant.
LEMMA ReleaseKeepsGate ==
  ASSUME GateInv, trials' \subseteq trials, UNCHANGED <<scoped, generations>>
  PROVE  GateInv'
BY DEF GateInv, GateType, GenerationFence, UnknownIsEmpty, InvalidHasNoCooldown,
       TrialsAreHalfOpen

\* The rest of the state: configurations, requests and the clock.
EnvType ==
  /\ config \in Configuration /\ snapshot \in Configuration
  /\ reloading \in BOOLEAN /\ changes \in Nat
  /\ req \in [Request -> RequestState]
  /\ now \in Nat

IInv == EnvType /\ GateInv

\* The initial configuration publishes every route at revision zero.
LEMMA InitialConfigType == InitialConfig \in Configuration
<1>1. \A r \in Route : [Zero EXCEPT !.flow = FlowOf[ConnectionOf[r]]] \in Vector
  <2> TAKE r \in Route
  <2>1. FlowOf[ConnectionOf[r]] \in Flow
    BY GateAssumption
  <2> QED
    BY <2>1, ZeroType DEF Vector
<1> QED
  BY <1>1 DEF InitialConfig, Configuration

\* The invariant holds initially.
LEMMA InitIInv == Init => IInv
<1> SUFFICES ASSUME Init PROVE IInv
  OBVIOUS
<1>1. EnvType
  <2>1. (CHOOSE r \in Route : TRUE) \in Route
    BY GateAssumption
  <2>2. (CHOOSE o \in Operation : TRUE) \in Operation
    BY GateAssumption
  <2>3. req \in [Request -> RequestState]
    BY <2>1, <2>2, ZeroType DEF Init, RequestState, Phase
  <2> QED
    BY <2>3, InitialConfigType DEF Init, EnvType
<1>2. PICK last \in MapOrder(InitialConfig) :
        generations = [k \in InstalledKeys(InitialConfig) |->
                         NextGeneration(InitialConfig, last, k)]
  BY DEF Init
<1>3. InstalledKeys(InitialConfig) \subseteq Key
  BY DEF InstalledKeys, InitialConfig, Key
<1>4. scoped = [k \in Key |-> NoHealth(Zero)] /\ trials = {}
  BY DEF Init
<1>5. GateType
  BY <1>2, <1>3, <1>4, InitialConfigType, NextGenerationType, NeutralTypes, ZeroType
     DEF GateType
<1>6. GenerationFence /\ UnknownIsEmpty /\ InvalidHasNoCooldown /\ TrialsAreHalfOpen
  BY <1>4 DEF NoHealth, GenerationFence, UnknownIsEmpty, InvalidHasNoCooldown, TrialsAreHalfOpen
<1> QED
  BY <1>1, <1>5, <1>6 DEF IInv, GateInv

\* New vectors on some routes make a configuration again.
LEMMA WithVectorsType ==
  ASSUME config \in Configuration, NEW routes, NEW edited \in [Route -> Vector]
  PROVE  WithVectors(routes, edited) \in Configuration
BY DEF WithVectors, Configuration

\* A reload keeps the invariant, whatever configuration it loads.
LEMMA ReloadKeepsIInv ==
  ASSUME IInv, NEW next \in Configuration, Reload(next)
  PROVE  IInv'
<1>1. GateInv'
  BY SetGenerationsKeepsGate DEF IInv, Reload
<1>2. EnvType'
  BY DEF IInv, EnvType, Reload
<1> QED
  BY <1>1, <1>2 DEF IInv

\* A step that leaves the gate alone keeps the gate invariant.
LEMMA GateUnchanged ==
  ASSUME GateInv, UNCHANGED gateVars
  PROVE  GateInv'
BY DEF gateVars, GateInv, GateType, GenerationFence, UnknownIsEmpty,
       InvalidHasNoCooldown, TrialsAreHalfOpen

\* The steps of one request keep the invariant.
LEMMA RequestKeepsIInv ==
  ASSUME IInv, NEW q \in Request,
         \/ \E r \in Route, o \in Operation : Plan(q, r, o)
         \/ Acquire(q)
         \/ Refuse(q)
         \/ Lease(q)
         \/ \E outcome \in Outcome : Observe(q, outcome)
         \/ Release(q)
  PROVE  IInv'
<1>1. /\ req[q].route \in Route /\ req[q].op \in Operation /\ req[q].vector \in Vector
      /\ now \in Nat /\ req \in [Request -> RequestState]
  BY DEF IInv, EnvType, RequestState
<1>2. ASSUME NEW r \in Route, NEW o \in Operation, Plan(q, r, o) PROVE IInv'
  <2>1. snapshot.vector[r] \in Vector
    BY DEF IInv, EnvType, Configuration
  <2>2. EnvType'
    BY <1>1, <1>2, <2>1 DEF IInv, EnvType, Plan, configVars, RequestState, Phase
  <2> QED
    BY <1>2, <2>2, GateUnchanged DEF IInv, Plan
<1>3. CASE Acquire(q)
  <2>1. {k \in TrialKeys(req[q].route, req[q].op) : ~Blocks(scoped[k], now)} \subseteq Key
    BY <1>1, KeysAreScoped DEF TrialKeys, Scope, Lane
  <2>2. EnvType'
    BY <1>1, <1>3, <2>1 DEF IInv, EnvType, Acquire, configVars, RequestState, Phase
  <2>3. GateInv'
    BY <1>1, <1>3, AcquireKeepsGate DEF IInv, Acquire
  <2> QED
    BY <2>2, <2>3 DEF IInv
<1>4. CASE Refuse(q)
  <2>1. EnvType'
    BY <1>1, <1>4 DEF IInv, EnvType, Refuse, configVars, RequestState, Phase
  <2> QED
    BY <1>4, <2>1, GateUnchanged DEF IInv, Refuse
<1>5. ASSUME NEW outcome \in Outcome, Observe(q, outcome) PROVE IInv'
  <2>1. outcome \in OutcomeType
    BY GateAssumption
  <2>2. GateInv'
    BY <1>1, <1>5, <2>1, ObserveKeepsGate DEF IInv, Observe
  <2>3. EnvType'
    BY <1>1, <1>5 DEF IInv, EnvType, Observe, configVars, RequestState, Phase
  <2> QED
    BY <2>2, <2>3 DEF IInv
<1>6. CASE Release(q)
  <2>1. trials' \subseteq trials
    BY <1>6 DEF Release
  <2>2. EnvType'
    BY <1>1, <1>6 DEF IInv, EnvType, Release, configVars, RequestState, Phase
  <2>3. GateInv'
    BY <1>6, <2>1, ReleaseKeepsGate DEF IInv, Release
  <2> QED
    BY <2>2, <2>3 DEF IInv
<1>7. CASE Lease(q)
  <2>1. config.vector[req[q].route] \in Vector
    BY <1>1 DEF IInv, EnvType, Configuration
  <2>2. [req[q].vector EXCEPT !.credential = config.vector[req[q].route].credential] \in Vector
    BY <1>1, <2>1 DEF Vector
  <2>3. EnvType'
    BY <1>1, <1>7, <2>2 DEF IInv, EnvType, Lease, configVars, RequestState, Phase
  <2> QED
    BY <1>7, <2>3, GateUnchanged DEF IInv, Lease
<1> QED
  BY <1>2, <1>3, <1>4, <1>5, <1>6, <1>7

\* A configuration change, with its reload, keeps the invariant.
LEMMA ConfigurationKeepsIInv ==
  ASSUME IInv,
         \/ \E p \in Provider : EditProvider(p)
         \/ \E r \in Route : EditModel(r)
         \/ \E c \in Connection : ReplacePrincipal(c)
         \/ \E c \in Connection : RotateCredential(c)
         \/ \E r \in Route : ToggleRoute(r)
  PROVE  IInv'
<1>1. config \in Configuration /\ \A r \in Route : config.vector[r] \in Vector
  BY DEF IInv, EnvType, Configuration
<1>2. ASSUME NEW p \in Provider, EditProvider(p) PROVE IInv'
  <2>1. [r \in Route |-> [config.vector[r] EXCEPT !.provider = 1 - @]] \in [Route -> Vector]
    BY <1>1 DEF Vector
  <2> QED
    BY <1>1, <1>2, <2>1, WithVectorsType, ReloadKeepsIInv DEF EditProvider
<1>3. ASSUME NEW m \in Route, EditModel(m) PROVE IInv'
  <2>1. [r \in Route |-> [config.vector[r] EXCEPT !.model = 1 - @]] \in [Route -> Vector]
    BY <1>1 DEF Vector
  <2> QED
    BY <1>1, <1>3, <2>1, WithVectorsType, ReloadKeepsIInv DEF EditModel
<1>4. ASSUME NEW c \in Connection, ReplacePrincipal(c) PROVE IInv'
  <2>1. [r \in Route |-> [config.vector[r] EXCEPT !.connection = @ + 1, !.credential = @ + 1]]
          \in [Route -> Vector]
    <3>1. ASSUME NEW v \in Vector
          PROVE  [v EXCEPT !.connection = @ + 1, !.credential = @ + 1] \in Vector
      <4> DEFINE w == [v EXCEPT !.connection = @ + 1]
      <4>1. w \in Vector
        BY DEF Vector
      <4>2. [v EXCEPT !.connection = @ + 1, !.credential = @ + 1] = [w EXCEPT !.credential = @ + 1]
        BY DEF Vector
      <4> HIDE DEF w
      <4>3. [w EXCEPT !.credential = @ + 1] \in Vector
        BY <4>1 DEF Vector
      <4> QED
        BY <4>2, <4>3
    <3> QED
      BY <1>1, <3>1
  <2> QED
    BY <1>1, <1>4, <2>1, WithVectorsType, ReloadKeepsIInv DEF ReplacePrincipal
<1>5. ASSUME NEW c \in Connection, RotateCredential(c) PROVE IInv'
  <2>1. [r \in Route |-> [config.vector[r] EXCEPT !.credential = @ + 1]] \in [Route -> Vector]
    BY <1>1 DEF Vector
  <2> QED
    BY <1>1, <1>5, <2>1, WithVectorsType, ReloadKeepsIInv DEF RotateCredential
<1>6. ASSUME NEW r \in Route, ToggleRoute(r) PROVE IInv'
  <2>1. [config EXCEPT !.routes = IF r \in @ THEN @ \ {r} ELSE @ \cup {r}] \in Configuration
    BY <1>1 DEF Configuration
  <2> QED
    BY <1>6, <2>1, ReloadKeepsIInv DEF ToggleRoute
<1> QED
  BY <1>2, <1>3, <1>4, <1>5, <1>6

\* Every step keeps the invariant.
LEMMA NextKeepsIInv == IInv /\ [Next]_vars => IInv'
<1> SUFFICES ASSUME IInv, [Next]_vars PROVE IInv'
  OBVIOUS
<1>1. snapshot \in Configuration /\ config \in Configuration
  BY DEF IInv, EnvType
<1>2. ASSUME NEW r \in Route, NEW o \in Operation, NEW scope \in Scope,
             ResetScope(r, o, scope) \/ ClearInvalid(r, o, scope)
      PROVE  IInv'
  <2>1. \E lanes : ResetScopeLanes(r, o, scope, lanes)
    BY <1>2 DEF ResetScope, ClearInvalid
  <2>2. GateInv'
    BY <1>1, <1>2, <2>1, ResetKeepsGate DEF IInv, ResetScope, ClearInvalid
  <2>3. EnvType'
    BY <1>2 DEF IInv, EnvType, ResetScope, ClearInvalid
  <2> QED
    BY <2>2, <2>3 DEF IInv
<1>3. CASE PublishSnapshot
  <2>1. EnvType'
    BY <1>3 DEF IInv, EnvType, PublishSnapshot
  <2> QED
    BY <1>3, <2>1, GateUnchanged DEF IInv, PublishSnapshot
<1>4. CASE AbortReload
  <2>1. EnvType'
    BY <1>4 DEF IInv, EnvType, AbortReload
  <2> QED
    BY <1>1, <1>4, <2>1, SetGenerationsKeepsGate DEF IInv, AbortReload
<1>5. CASE Tick
  <2>1. EnvType'
    BY <1>5 DEF IInv, EnvType, Tick, configVars
  <2> QED
    BY <1>5, <2>1, GateUnchanged DEF IInv, Tick
<1>6. CASE UNCHANGED vars
  <2>1. EnvType'
    BY <1>6 DEF IInv, EnvType, vars
  <2> QED
    BY <1>6, <2>1, GateUnchanged DEF IInv, vars, gateVars
<1> QED
  BY <1>2, <1>3, <1>4, <1>5, <1>6, RequestKeepsIInv, ConfigurationKeepsIInv DEF Next

\* The inductive invariant holds in every reachable state.
THEOREM GateInvariant == Spec => []IInv
<1> QED
  BY InitIInv, NextKeepsIInv, PTL DEF Spec

\* Every variable of the gate, its requests and its configuration keeps its
\* type, whatever the routes, outcomes and bounds are.
THEOREM TypeCorrect == Spec => []TypeOK
<1>1. IInv => TypeOK
  BY DEF IInv, EnvType, GateInv, GateType, TypeOK
<1> QED
  BY <1>1, GateInvariant, PTL

\* No health entry of a superseded generation is ever in memory: late
\* outcomes, resets and reloads that abort half-way included.
THEOREM FenceCorrect == Spec => []GenerationFence
<1>1. IInv => GenerationFence
  BY DEF IInv, GateInv
<1> QED
  BY <1>1, GateInvariant, PTL

\* A trial mark is only ever on a key that waits for its recovery trial.
THEOREM TrialsCorrect == Spec => []TrialsAreHalfOpen
<1>1. IInv => TrialsAreHalfOpen
  BY DEF IInv, GateInv
<1> QED
  BY <1>1, GateInvariant, PTL

(***************************************************************************)
(* What one step may do to the entry of one key.                           *)
(***************************************************************************)
Cleared(k) == scoped'[k].attempt = 0 /\ scoped'[k].cause = "unknown"

Recovered(k) == k \in trials /\ ~Blocks(scoped[k], now)

Observed(k) ==
  \E q \in Request, outcome \in Outcome :
    /\ req[q].phase = "inflight" /\ req'[q].phase = "observed"
    /\ k \in HealthKeys(req[q].route, req[q].op)
    /\ \/ \E gen : scoped'[k] = AfterOutcome(scoped[k], gen, outcome, now)
       \/ Recovered(k)

\* SetGenerations keeps an entry or clears it.
LEMMA SetGenerationsEffect ==
  ASSUME NEW snap, SetGenerations(snap), NEW k \in Key
  PROVE  scoped'[k] = scoped[k] \/ Cleared(k)
<1>1. PICK last \in MapOrder(snap) :
        LET next == [x \in InstalledKeys(snap) |-> NextGeneration(snap, last, x)]
            Kept(x) == ~scoped[x].known \/ SameGeneration(x, next[x])
        IN scoped' = [x \in Key |-> IF x \notin DOMAIN next THEN NoHealth(Zero)
                                    ELSE IF Kept(x) THEN scoped[x]
                                    ELSE Neutral(next[x])]
  BY DEF SetGenerations
<1>2. \/ scoped'[k] = scoped[k]
      \/ scoped'[k] = NoHealth(Zero)
      \/ \E g : scoped'[k] = Neutral(g)
  BY <1>1
<1>3. \A g : /\ NoHealth(g).attempt = 0 /\ NoHealth(g).cause = "unknown"
             /\ Neutral(g).attempt = 0 /\ Neutral(g).cause = "unknown"
  BY DEF NoHealth, Neutral
<1> QED
  BY <1>2, <1>3 DEF Cleared

\* A reset keeps an entry or clears it.
LEMMA ResetEffect ==
  ASSUME NEW r, NEW o, NEW scope, NEW lanes, ResetScopeLanes(r, o, scope, lanes),
         NEW k \in Key
  PROVE  scoped'[k] = scoped[k] \/ Cleared(k)
<1>1. scoped'[k] = scoped[k] \/ \E g : scoped'[k] = Neutral(g)
  BY DEF ResetScopeLanes
<1>2. \A g : Neutral(g).attempt = 0 /\ Neutral(g).cause = "unknown"
  BY DEF NoHealth, Neutral
<1> QED
  BY <1>1, <1>2 DEF Cleared

\* An observation touches only keys of its own request.
LEMMA ObserveEffect ==
  ASSUME IInv, NEW q \in Request, NEW outcome \in Outcome, Observe(q, outcome),
         NEW k \in Key
  PROVE  scoped'[k] = scoped[k] \/ Observed(k)
<1> DEFINE r == req[q].route
           o == req[q].op
           v == req[q].vector
           lane == OutcomeLane(outcome)
           key == OutcomeLaneKey(r, o, outcome.scope, lane)
           gen == LaneGeneration(v, outcome.scope, lane)
           recovered == IF outcome.cause = "success" /\ ~LimitHolds(scoped[key], outcome, now)
                        THEN RecoveredKeys(r, o, key) ELSE {}
<1>1. /\ req[q].phase = "inflight" /\ req'[q].phase = "observed"
      /\ r \in Route /\ o \in Operation
  BY DEF Observe, IInv, EnvType, RequestState
<1>2. CASE ~AcceptsOutcome(r, o, v, outcome)
  BY <1>2 DEF Observe, ObserveOutcome
<1>3. CASE AcceptsOutcome(r, o, v, outcome)
  <2>1. scoped'[k] = IF k = key THEN AfterOutcome(scoped[k], gen, outcome, now)
                     ELSE IF k \in recovered THEN AfterSuccess(scoped[k].gen, now)
                     ELSE scoped[k]
    BY <1>3 DEF Observe, ObserveOutcome
  <2>2. outcome.scope \in Scope /\ lane \in Lane
    BY <1>3, GateAssumption
       DEF AcceptsOutcome, LaneGenerationCurrent, OutcomeType, OutcomeLane, Lane
  <2>3. key \in HealthKeys(r, o)
    BY <1>1, <2>2, KeysAreScoped
  <2>4. k \in recovered => k \in HealthKeys(r, o) /\ Recovered(k)
    BY DEF RecoveredKeys, Recovered
  <2> HIDE DEF key, gen, recovered
  <2>5. CASE k = key
    BY <1>1, <2>1, <2>3, <2>5 DEF Observed
  <2>6. CASE k # key /\ k \in recovered
    BY <1>1, <2>4, <2>6 DEF Observed
  <2> QED
    BY <2>1, <2>5, <2>6
<1> QED
  BY <1>2, <1>3

\* One step keeps the entry of a key, clears it, or applies evidence of a
\* request in flight on that key.
LEMMA StepEffect ==
  ASSUME IInv, [Next]_vars, NEW k \in Key
  PROVE  scoped'[k] = scoped[k] \/ Cleared(k) \/ Observed(k)
<1>1. CASE scoped' = scoped
  BY <1>1
<1>2. ASSUME NEW snap, SetGenerations(snap) PROVE scoped'[k] = scoped[k] \/ Cleared(k)
  BY <1>2, SetGenerationsEffect
<1>3. ASSUME NEW r, NEW o, NEW scope, NEW lanes, ResetScopeLanes(r, o, scope, lanes)
      PROVE  scoped'[k] = scoped[k] \/ Cleared(k)
  BY <1>3, ResetEffect
<1>4. ASSUME NEW q \in Request, NEW outcome \in Outcome, Observe(q, outcome)
      PROVE  scoped'[k] = scoped[k] \/ Observed(k)
  BY <1>4, ObserveEffect
<1>5. \/ scoped' = scoped
      \/ \E snap : SetGenerations(snap)
      \/ \E r, o, scope, lanes : ResetScopeLanes(r, o, scope, lanes)
      \/ \E q \in Request, outcome \in Outcome : Observe(q, outcome)
  BY DEF Next, vars, gateVars, Plan, Acquire, Refuse, Lease, Release, ResetScope, ClearInvalid,
         EditProvider, EditModel, ReplacePrincipal, RotateCredential, ToggleRoute, Reload,
         PublishSnapshot, AbortReload, Tick
<1> QED
  BY <1>1, <1>2, <1>3, <1>4, <1>5

\* While a rate-limit or quota cooldown runs no success reopens its key,
\* whichever requests are in flight when the limit is reported.
THEOREM LimitCorrect == Spec => LimitSurvivesSuccess
<1>1. ASSUME IInv, [Next]_vars, NEW k \in Key,
             scoped[k].known, scoped[k].cause \in LimitCause, scoped[k].until > now
      PROVE  scoped'[k].cause # "success"
  <2>1. /\ scoped[k] \in RouteHealth(Vector) /\ now \in Nat
        /\ scoped[k].cause # "success" /\ "unknown" # "success"
    BY <1>1, BreakerAssumption DEF IInv, EnvType, GateInv, GateType
  <2>2. ~scoped[k].invalid
    BY <1>1, <2>1 DEF IInv, GateInv, InvalidHasNoCooldown, RouteHealth
  <2>3. ~Recovered(k)
    BY <1>1, <2>1 DEF Recovered, Blocks
  <2>4. ASSUME NEW outcome \in Outcome, NEW gen
        PROVE  AfterOutcome(scoped[k], gen, outcome, now).cause # "success"
    <3>1. CASE outcome.cause = "success"
      BY <1>1, <2>1, <2>2, <3>1 DEF AfterOutcome, LimitHolds, RouteHealth
    <3>2. CASE outcome.cause # "success"
      BY <3>2 DEF AfterOutcome, LimitHolds, AfterFailure
    <3> QED
      BY <3>1, <3>2
  <2>5. CASE Observed(k)
    BY <2>3, <2>4, <2>5 DEF Observed
  <2> QED
    BY <1>1, <2>1, <2>5, StepEffect DEF Cleared
<1>2. IInv /\ [Next]_vars =>
        [\A k \in Key :
           scoped[k].known /\ scoped[k].cause \in LimitCause /\ scoped[k].until > now
           /\ scoped'[k].cause = "success" => FALSE]_vars
  BY <1>1
<1> QED
  BY <1>2, GateInvariant, PTL DEF Spec, LimitSurvivesSuccess

\* An invalidated key reopens only by a reset, a new generation or a success
\* observed on it.
THEOREM StickyCorrect == Spec => InvalidIsSticky
<1>1. ASSUME IInv, [Next]_vars, NEW k \in Key, scoped[k].invalid, ~scoped'[k].invalid
      PROVE  \/ scoped'[k].attempt = 0
             \/ /\ scoped'[k].cause = "success"
                /\ \E q \in Request :
                     /\ req[q].phase = "inflight" /\ req'[q].phase = "observed"
                     /\ k \in HealthKeys(req[q].route, req[q].op)
  <2>1. ~Recovered(k)
    BY <1>1 DEF Recovered, Blocks
  <2>2. ASSUME NEW outcome \in Outcome, NEW gen,
               ~AfterOutcome(scoped[k], gen, outcome, now).invalid
        PROVE  AfterOutcome(scoped[k], gen, outcome, now).cause = "success"
    <3>1. ~LimitHolds(scoped[k], outcome, now)
      BY <1>1 DEF LimitHolds
    <3>2. CASE outcome.cause = "success"
      BY <3>1, <3>2 DEF AfterOutcome, AfterSuccess
    <3>3. CASE outcome.cause # "success"
      <4>1. AfterFailure(scoped[k], gen, outcome, now).invalid
        BY <1>1 DEF AfterFailure
      <4> QED
        BY <2>2, <3>1, <3>3, <4>1 DEF AfterOutcome
    <3> QED
      BY <3>2, <3>3
  <2>3. CASE Observed(k)
    BY <1>1, <2>1, <2>2, <2>3 DEF Observed
  <2> QED
    BY <1>1, <2>3, StepEffect DEF Cleared
<1>2. IInv /\ [Next]_vars =>
        [\A k \in Key :
           scoped[k].invalid /\ ~scoped'[k].invalid =>
             \/ scoped'[k].attempt = 0
             \/ /\ scoped'[k].cause = "success"
                /\ \E q \in Request :
                     /\ req[q].phase = "inflight" /\ req'[q].phase = "observed"
                     /\ k \in HealthKeys(req[q].route, req[q].op)]_vars
  BY <1>1
<1> QED
  BY <1>2, GateInvariant, PTL DEF Spec, InvalidIsSticky

(***************************************************************************)
(* The installed generations are those of the live configuration: of the   *)
(* published one, or of the one whose reload is in progress. Routes of one *)
(* connection, and of one provider, agree on what they share; only the     *)
(* sign-in flow of a provider key depends on the order of SetGenerations,  *)
(* unless the connections of a provider sign in alike (SameFlows).         *)
(***************************************************************************)
SameFlows ==
  \A c, d \in Connection : ProviderOf[c] = ProviderOf[d] => FlowOf[c] = FlowOf[d]

Uniform(snap) ==
  \A r, s \in Route :
    LET v == snap.vector[r]
        w == snap.vector[s]
    IN /\ v.flow = FlowOf[ConnectionOf[r]]
       /\ ProviderOf[ConnectionOf[r]] = ProviderOf[ConnectionOf[s]] => v.provider = w.provider
       /\ ConnectionOf[r] = ConnectionOf[s] =>
            v.connection = w.connection /\ v.credential = w.credential

Installed(gens, snap) ==
  /\ DOMAIN gens = InstalledKeys(snap)
  /\ \A r \in snap.routes, o \in Operation : \A k \in HealthKeys(r, o) :
       k.scope # "provider" \/ SameFlows =>
         gens[k] = LaneGeneration(snap.vector[r], k.scope, k.lane)

InstallInv ==
  /\ Uniform(config) /\ Uniform(snapshot)
  /\ Installed(generations, IF reloading THEN config ELSE snapshot)
  /\ \A k \in Key : ~scoped[k].known => scoped[k] = NoHealth(Zero)

\* The components of a vector that a scope and a lane look at.
LEMMA LaneGenerationIs ==
  ASSUME NEW v \in Vector, NEW s, NEW l
  PROVE  LaneGeneration(v, s, l) =
           [provider |-> v.provider, flow |-> v.flow,
            connection |-> IF s = "provider" THEN 0 ELSE v.connection,
            credential |-> IF l = "authentication" /\ s # "provider" THEN v.credential ELSE 0,
            model |-> IF s \in {"provider", "connection"} THEN 0 ELSE v.model]
BY DEF LaneGeneration, For, ForAuthentication, Vector

\* Two routes that share a key agree on its generation.
LEMMA SharedKeysAgree ==
  ASSUME NEW snap \in Configuration, Uniform(snap),
         NEW r \in Route, NEW s \in Route, NEW o \in Operation, NEW p \in Operation,
         NEW k \in HealthKeys(r, o), k \in HealthKeys(s, p), k.scope # "provider" \/ SameFlows
  PROVE  LaneGeneration(snap.vector[r], k.scope, k.lane) = LaneGeneration(snap.vector[s], k.scope, k.lane)
<1>1. /\ snap.vector[r] \in Vector /\ snap.vector[s] \in Vector
      /\ ConnectionOf[r] \in Connection /\ ConnectionOf[s] \in Connection
  BY GateAssumption DEF Configuration
<1>2. /\ k = OutcomeLaneKey(r, o, k.scope, k.lane) /\ k = OutcomeLaneKey(s, p, k.scope, k.lane)
      /\ k.scope \in Scope
  BY KeyShape
<1>3. k.subject = CASE k.scope = "operation"  -> <<r, o>>
                    [] k.scope = "connection" -> ConnectionOf[r]
                    [] k.scope = "provider"   -> ProviderOf[ConnectionOf[r]]
                    [] OTHER                  -> r
  BY <1>2 DEF OutcomeLaneKey
<1>4. k.subject = CASE k.scope = "operation"  -> <<s, p>>
                    [] k.scope = "connection" -> ConnectionOf[s]
                    [] k.scope = "provider"   -> ProviderOf[ConnectionOf[s]]
                    [] OTHER                  -> s
  BY <1>2 DEF OutcomeLaneKey
<1>5. CASE k.scope = "operation"
  BY <1>3, <1>4, <1>5
<1>6. CASE k.scope = "connection"
  <2>1. ConnectionOf[r] = ConnectionOf[s]
    BY <1>3, <1>4, <1>6
  <2> QED
    BY <1>1, <1>6, <2>1, LaneGenerationIs DEF Uniform
<1>7. CASE k.scope = "provider"
  <2>1. ProviderOf[ConnectionOf[r]] = ProviderOf[ConnectionOf[s]]
    BY <1>3, <1>4, <1>7
  <2>2. SameFlows
    BY <1>7
  <2>3. FlowOf[ConnectionOf[r]] = FlowOf[ConnectionOf[s]]
    BY <1>1, <2>1, <2>2 DEF SameFlows
  <2>4. snap.vector[r].flow = snap.vector[s].flow /\ snap.vector[r].provider = snap.vector[s].provider
    BY <2>1, <2>3 DEF Uniform
  <2> QED
    BY <1>1, <1>7, <2>4, LaneGenerationIs
<1>8. CASE k.scope \in {"route", "route_connection"}
  BY <1>3, <1>4, <1>8
<1> QED
  BY <1>2, <1>5, <1>6, <1>7, <1>8 DEF Scope

\* The generation installed at a key is that of any route that has the key.
LEMMA NextGenerationIs ==
  ASSUME NEW snap \in Configuration, Uniform(snap), NEW last \in MapOrder(snap),
         NEW r \in snap.routes, NEW o \in Operation, NEW k \in HealthKeys(r, o),
         k.scope # "provider" \/ SameFlows
  PROVE  NextGeneration(snap, last, k) = LaneGeneration(snap.vector[r], k.scope, k.lane)
<1>1. snap.routes \subseteq Route /\ r \in Route
  BY DEF Configuration
<1>2. CASE k.scope = "provider"
  <2>1. k.subject = ProviderOf[ConnectionOf[r]]
    BY <1>1, <1>2, KeyShape
  <2> DEFINE x == last[k.subject]
  <2>2. x \in snap.routes /\ ProviderOf[ConnectionOf[x]] = ProviderOf[ConnectionOf[r]]
    BY <2>1 DEF MapOrder
  <2>3. k \in HealthKeys(x, o)
    <3>1. /\ k = OutcomeLaneKey(r, o, "provider", k.lane) /\ k.lane \in Lane /\ "provider" \in Scope
      BY <1>1, <1>2, KeyShape DEF Scope
    <3>2. OutcomeLaneKey(x, o, "provider", k.lane) = OutcomeLaneKey(r, o, "provider", k.lane)
      BY <2>2 DEF OutcomeLaneKey
    <3> QED
      BY <1>1, <2>2, <3>1, <3>2, KeysAreScoped
  <2>4. NextGeneration(snap, last, k) = LaneGeneration(snap.vector[x], k.scope, k.lane)
    BY <1>2 DEF NextGeneration
  <2> HIDE DEF x
  <2> QED
    BY <1>1, <2>2, <2>3, <2>4, SharedKeysAgree
<1>3. CASE k.scope # "provider"
  <2> DEFINE x == CHOOSE y \in snap.routes : \E p \in Operation : k \in HealthKeys(y, p)
  <2>1. x \in snap.routes /\ \E p \in Operation : k \in HealthKeys(x, p)
    OBVIOUS
  <2>2. NextGeneration(snap, last, k) = LaneGeneration(snap.vector[x], k.scope, k.lane)
    BY <1>3 DEF NextGeneration
  <2> HIDE DEF x
  <2> QED
    BY <1>1, <2>1, <2>2, SharedKeysAgree
<1> QED
  BY <1>2, <1>3

\* What SetGenerations leaves in the gate.
LEMMA SetGenerationsInstalls ==
  ASSUME NEW snap \in Configuration, Uniform(snap), SetGenerations(snap)
  PROVE  /\ Installed(generations', snap)
         /\ \A k \in Key :
              \/ k \notin DOMAIN generations' /\ scoped'[k] = NoHealth(Zero)
              \/ /\ k \in DOMAIN generations' /\ scoped'[k] = scoped[k]
                 /\ ~scoped[k].known \/ SameGeneration(k, generations'[k])
                 /\ k \in trials => k \in trials'
              \/ /\ k \in DOMAIN generations' /\ scoped'[k] = Neutral(generations'[k])
                 /\ scoped[k].known /\ ~SameGeneration(k, generations'[k])
<1>1. PICK last \in MapOrder(snap) :
        LET next == [k \in InstalledKeys(snap) |-> NextGeneration(snap, last, k)]
            Kept(k) == ~scoped[k].known \/ SameGeneration(k, next[k])
        IN /\ generations' = next
           /\ scoped' = [k \in Key |-> IF k \notin DOMAIN next THEN NoHealth(Zero)
                                       ELSE IF Kept(k) THEN scoped[k]
                                       ELSE Neutral(next[k])]
           /\ trials' = {k \in trials : k \in DOMAIN next /\ Kept(k)}
  BY DEF SetGenerations
<1>2. /\ generations' = [k \in InstalledKeys(snap) |-> NextGeneration(snap, last, k)]
      /\ scoped' = [k \in Key |-> IF k \notin DOMAIN generations' THEN NoHealth(Zero)
                                  ELSE IF ~scoped[k].known \/ SameGeneration(k, generations'[k])
                                       THEN scoped[k]
                                  ELSE Neutral(generations'[k])]
      /\ trials' = {k \in trials : /\ k \in DOMAIN generations'
                                   /\ ~scoped[k].known \/ SameGeneration(k, generations'[k])}
  BY <1>1
<1>4. Installed(generations', snap)
  <2>1. \A r \in snap.routes, o \in Operation : \A k \in HealthKeys(r, o) : k \in InstalledKeys(snap)
    BY DEF InstalledKeys
  <2> QED
    BY <1>2, <2>1, NextGenerationIs DEF Installed
<1> QED
  BY <1>2, <1>4

\* The initial generations are those of the initial configuration.
LEMMA InitInstallInv == Init => InstallInv
<1> SUFFICES ASSUME Init PROVE InstallInv
  OBVIOUS
<1>1. Uniform(InitialConfig)
  BY ZeroType DEF Uniform, InitialConfig, Vector
<1>2. PICK last \in MapOrder(InitialConfig) :
        generations = [k \in InstalledKeys(InitialConfig) |-> NextGeneration(InitialConfig, last, k)]
  BY DEF Init
<1>3. Installed(generations, InitialConfig)
  <2>1. \A r \in InitialConfig.routes, o \in Operation :
          \A k \in HealthKeys(r, o) : k \in InstalledKeys(InitialConfig)
    BY DEF InstalledKeys
  <2> QED
    BY <1>1, <1>2, <2>1, InitialConfigType, NextGenerationIs DEF Installed
<1> QED
  BY <1>1, <1>3 DEF Init, InstallInv

\* A reload of a uniform configuration keeps the invariant.
LEMMA ReloadInstalls ==
  ASSUME InstallInv, NEW next \in Configuration, Uniform(next), Reload(next)
  PROVE  InstallInv'
<1>1. SetGenerations(next) /\ config' = next /\ snapshot' = snapshot /\ reloading' = TRUE
  BY DEF Reload
<1>2. Installed(generations', next)
  BY <1>1, SetGenerationsInstalls
<1>3. \A k \in Key : ~scoped'[k].known => scoped'[k] = NoHealth(Zero)
  <2>1. \A g : Neutral(g).known
    BY DEF Neutral, NoHealth
  <2> QED
    BY <1>1, <2>1, SetGenerationsInstalls DEF InstallInv
<1> QED
  BY <1>1, <1>2, <1>3 DEF InstallInv

\* Every change of the configuration changes all the routes that share what it
\* changes.
LEMMA EditsInstall ==
  ASSUME IInv, InstallInv,
         \/ \E p \in Provider : EditProvider(p)
         \/ \E r \in Route : EditModel(r)
         \/ \E c \in Connection : ReplacePrincipal(c)
         \/ \E c \in Connection : RotateCredential(c)
         \/ \E r \in Route : ToggleRoute(r)
  PROVE  InstallInv'
<1>1. config \in Configuration /\ Uniform(config) /\ \A r \in Route : config.vector[r] \in Vector
  BY DEF IInv, EnvType, Configuration, InstallInv
<1>2. ASSUME NEW p \in Provider, EditProvider(p) PROVE InstallInv'
  <2> DEFINE edited == [r \in Route |-> [config.vector[r] EXCEPT !.provider = 1 - @]]
             next == WithVectors({r \in Route : ProviderOf[ConnectionOf[r]] = p}, edited)
  <2>1. edited \in [Route -> Vector]
    BY <1>1 DEF Vector
  <2>2. next \in Configuration
    BY <1>1, <2>1, WithVectorsType
  <2>3. Uniform(next)
    BY <1>1 DEF Uniform, WithVectors, Configuration, Vector
  <2>4. Reload(next)
    BY <1>2 DEF EditProvider
  <2> HIDE DEF next
  <2> QED
    BY <2>2, <2>3, <2>4, ReloadInstalls
<1>3. ASSUME NEW m \in Route, EditModel(m) PROVE InstallInv'
  <2> DEFINE edited == [r \in Route |-> [config.vector[r] EXCEPT !.model = 1 - @]]
             next == WithVectors({m}, edited)
  <2>1. edited \in [Route -> Vector]
    BY <1>1 DEF Vector
  <2>2. next \in Configuration
    BY <1>1, <2>1, WithVectorsType
  <2>3. Uniform(next)
    BY <1>1 DEF Uniform, WithVectors, Configuration, Vector
  <2>4. Reload(next)
    BY <1>3 DEF EditModel
  <2> HIDE DEF next
  <2> QED
    BY <2>2, <2>3, <2>4, ReloadInstalls
<1>4. ASSUME NEW c \in Connection, ReplacePrincipal(c) PROVE InstallInv'
  <2> DEFINE replaced(v) == [v EXCEPT !.connection = @ + 1, !.credential = @ + 1]
             edited == [r \in Route |-> replaced(config.vector[r])]
             next == WithVectors(RoutesOn(c), edited)
  <2>1. ASSUME NEW v \in Vector
        PROVE  /\ replaced(v) \in Vector
               /\ replaced(v) = [provider |-> v.provider, flow |-> v.flow,
                                 connection |-> v.connection + 1,
                                 credential |-> v.credential + 1, model |-> v.model]
    <3> DEFINE w == [v EXCEPT !.connection = @ + 1]
    <3>1. /\ w = [provider |-> v.provider, flow |-> v.flow, connection |-> v.connection + 1,
                  credential |-> v.credential, model |-> v.model]
          /\ w \in Vector
      BY DEF Vector
    <3>2. replaced(v) = [w EXCEPT !.credential = @ + 1]
      BY DEF Vector
    <3> HIDE DEF w, replaced
    <3>3. /\ [w EXCEPT !.credential = @ + 1] \in Vector
          /\ [w EXCEPT !.credential = @ + 1] =
               [provider |-> v.provider, flow |-> v.flow, connection |-> v.connection + 1,
                credential |-> v.credential + 1, model |-> v.model]
      BY <3>1 DEF Vector
    <3> QED
      BY <3>2, <3>3
  <2>2. Reload(next)
    BY <1>4 DEF ReplacePrincipal
  <2> HIDE DEF replaced
  <2>3. edited \in [Route -> Vector]
    BY <1>1, <2>1
  <2>4. next \in Configuration
    BY <1>1, <2>3, WithVectorsType
  <2>5. Uniform(next)
    BY <1>1, <2>1 DEF Uniform, WithVectors, RoutesOn, Configuration, Vector
  <2> HIDE DEF next
  <2> QED
    BY <2>2, <2>4, <2>5, ReloadInstalls
<1>5. ASSUME NEW c \in Connection, RotateCredential(c) PROVE InstallInv'
  <2> DEFINE edited == [r \in Route |-> [config.vector[r] EXCEPT !.credential = @ + 1]]
             next == WithVectors(RoutesOn(c), edited)
  <2>1. edited \in [Route -> Vector]
    BY <1>1 DEF Vector
  <2>2. next \in Configuration
    BY <1>1, <2>1, WithVectorsType
  <2>3. Uniform(next)
    BY <1>1 DEF Uniform, WithVectors, RoutesOn, Configuration, Vector
  <2>4. Reload(next)
    BY <1>5 DEF RotateCredential
  <2> HIDE DEF next
  <2> QED
    BY <2>2, <2>3, <2>4, ReloadInstalls
<1>6. ASSUME NEW r \in Route, ToggleRoute(r) PROVE InstallInv'
  <2> DEFINE next == [config EXCEPT !.routes = IF r \in @ THEN @ \ {r} ELSE @ \cup {r}]
  <2>1. next \in Configuration
    BY <1>1 DEF Configuration
  <2>2. Uniform(next)
    BY <1>1 DEF Uniform, Configuration
  <2>3. Reload(next)
    BY <1>6 DEF ToggleRoute
  <2> HIDE DEF next
  <2> QED
    BY <2>1, <2>2, <2>3, ReloadInstalls
<1> QED
  BY <1>2, <1>3, <1>4, <1>5, <1>6

\* An observation changes only entries that are known afterwards.
LEMMA ObserveInstalls ==
  ASSUME IInv, InstallInv, NEW q \in Request, NEW outcome \in Outcome, Observe(q, outcome)
  PROVE  InstallInv'
<1> DEFINE r == req[q].route
           o == req[q].op
           v == req[q].vector
           lane == OutcomeLane(outcome)
           key == OutcomeLaneKey(r, o, outcome.scope, lane)
           gen == LaneGeneration(v, outcome.scope, lane)
           recovered == IF outcome.cause = "success" /\ ~LimitHolds(scoped[key], outcome, now)
                        THEN RecoveredKeys(r, o, key) ELSE {}
<1>1. UNCHANGED <<generations, config, snapshot, reloading>>
  BY DEF Observe, configVars
<1>2. \A k \in Key : ~scoped'[k].known => scoped'[k] = NoHealth(Zero)
  <2>1. CASE ~AcceptsOutcome(r, o, v, outcome)
    BY <2>1 DEF Observe, ObserveOutcome, InstallInv
  <2>2. CASE AcceptsOutcome(r, o, v, outcome)
    <3>1. scoped' = [k \in Key |->
              IF k = key THEN AfterOutcome(scoped[k], gen, outcome, now)
              ELSE IF k \in recovered THEN AfterSuccess(scoped[k].gen, now)
              ELSE scoped[k]]
      BY <2>2 DEF Observe, ObserveOutcome
    <3> HIDE DEF key, gen, recovered
    <3>2. ASSUME NEW k \in Key PROVE AfterOutcome(scoped[k], gen, outcome, now).known
      <4>1. CASE LimitHolds(scoped[k], outcome, now)
        <5>1. scoped[k].known /\ scoped[k] \in RouteHealth(Vector)
          BY <4>1 DEF IInv, EnvType, GateInv, GateType, UnknownIsEmpty, LimitHolds
        <5> QED
          BY <4>1, <5>1 DEF AfterOutcome, RouteHealth
      <4>2. CASE ~LimitHolds(scoped[k], outcome, now)
        BY <4>2 DEF AfterOutcome, AfterSuccess, AfterFailure
      <4> QED
        BY <4>1, <4>2
    <3>3. \A g : AfterSuccess(g, now).known
      BY DEF AfterSuccess
    <3> QED
      BY <3>1, <3>2, <3>3 DEF InstallInv
  <2> QED
    BY <2>1, <2>2
<1> QED
  BY <1>1, <1>2 DEF InstallInv

\* Every step keeps the installed generations those of the live configuration.
LEMMA NextKeepsInstallInv == IInv /\ InstallInv /\ [Next]_vars => InstallInv'
<1> SUFFICES ASSUME IInv, InstallInv, [Next]_vars PROVE InstallInv'
  OBVIOUS
<1>1. CASE UNCHANGED <<scoped, generations, config, snapshot, reloading>>
  BY <1>1 DEF InstallInv
<1>2. ASSUME NEW r, NEW o, NEW scope, NEW lanes, ResetScopeLanes(r, o, scope, lanes),
             UNCHANGED <<generations, config, snapshot, reloading>>
      PROVE  InstallInv'
  <2>1. \A g : Neutral(g).known
    BY DEF Neutral, NoHealth
  <2>2. \A k \in Key : scoped'[k] = scoped[k] \/ \E g : scoped'[k] = Neutral(g)
    BY <1>2 DEF ResetScopeLanes
  <2> QED
    BY <1>2, <2>1, <2>2 DEF InstallInv
<1>3. CASE PublishSnapshot
  BY <1>3 DEF PublishSnapshot, gateVars, InstallInv
<1>4. CASE AbortReload
  <2>1. /\ snapshot \in Configuration /\ Uniform(snapshot) /\ SetGenerations(snapshot)
        /\ UNCHANGED <<config, snapshot>> /\ reloading' = FALSE
    BY <1>4 DEF AbortReload, InstallInv, IInv, EnvType
  <2>2. Installed(generations', snapshot)
    BY <2>1, SetGenerationsInstalls
  <2>3. \A g : Neutral(g).known
    BY DEF Neutral, NoHealth
  <2>4. \A k \in Key : ~scoped'[k].known => scoped'[k] = NoHealth(Zero)
    BY <2>1, <2>3, SetGenerationsInstalls DEF InstallInv
  <2> QED
    BY <2>1, <2>2, <2>4 DEF InstallInv
<1>5. \/ UNCHANGED <<scoped, generations, config, snapshot, reloading>>
      \/ \E q \in Request, outcome \in Outcome : Observe(q, outcome)
      \/ \E r, o, scope, lanes : /\ ResetScopeLanes(r, o, scope, lanes)
                                 /\ UNCHANGED <<generations, config, snapshot, reloading>>
      \/ \E p \in Provider : EditProvider(p)
      \/ \E r \in Route : EditModel(r)
      \/ \E c \in Connection : ReplacePrincipal(c)
      \/ \E c \in Connection : RotateCredential(c)
      \/ \E r \in Route : ToggleRoute(r)
      \/ PublishSnapshot
      \/ AbortReload
  BY DEF Next, vars, gateVars, configVars, Plan, Acquire, Refuse, Lease, Release, ResetScope,
         ClearInvalid, Tick
<1> QED
  BY <1>1, <1>2, <1>3, <1>4, <1>5, EditsInstall, ObserveInstalls

\* The installed generations are always those of the live configuration.
THEOREM InstallInvariant == Spec => []InstallInv
<1> QED
  BY InitInstallInv, NextKeepsInstallInv, GateInvariant, PTL DEF Spec

\* Once a reload is over, only evidence of its own published generation blocks
\* a published route below provider scope.
THEOREM SuppressionCorrect == Spec => []SuppressionIsCurrent
<1>1. ASSUME IInv, InstallInv PROVE SuppressionIsCurrent
  <2> SUFFICES ASSUME ~reloading, NEW r \in snapshot.routes, NEW o \in Operation,
                      NEW k \in HealthKeys(r, o), k.scope # "provider", Blocks(scoped[k], now)
               PROVE  scoped[k].gen = LaneGeneration(snapshot.vector[r], k.scope, k.lane)
    BY DEF SuppressionIsCurrent
  <2>1. r \in Route /\ k \in Key /\ now \in Nat
    BY <1>1 DEF IInv, EnvType, Configuration, Key
  <2>2. scoped[k].known
    BY <1>1, <2>1 DEF InstallInv, NoHealth, Blocks
  <2>3. scoped[k].gen = generations[k]
    BY <1>1, <2>1, <2>2 DEF IInv, GateInv, GenerationFence
  <2>4. Installed(generations, snapshot)
    BY <1>1 DEF InstallInv
  <2> QED
    BY <2>3, <2>4 DEF Installed
<1> QED
  BY <1>1, GateInvariant, InstallInvariant, PTL

\* Where the connections of a provider sign in alike, a reload that only
\* rotates credentials keeps all operational evidence and its trials, and the
\* old credential's authentication evidence no longer blocks.
THEOREM RotationCorrect == SameFlows => (Spec => RotationSparesOperational)
<1> SUFFICES ASSUME SameFlows PROVE Spec => RotationSparesOperational
  OBVIOUS
<1>1. ASSUME IInv, InstallInv, [Next]_vars, ~reloading, reloading',
             SameButCredential(snapshot, config')
      PROVE  /\ \A k \in Key : k.lane = "operational" =>
                  scoped'[k] = scoped[k] /\ (k \in trials => k \in trials')
             /\ \A r \in config'.routes, o \in Operation :
                  snapshot.vector[r].credential # config'.vector[r].credential =>
                    \A k \in HealthKeys(r, o) :
                      k.lane = "authentication" /\ k.scope # "provider" => ~Blocks(scoped'[k], now)
  <2>1. SetGenerations(config')
    BY <1>1 DEF Next, vars, gateVars, configVars, Plan, Acquire, Refuse, Lease, Observe, Release,
                ResetScope, ClearInvalid, EditProvider, EditModel, ReplacePrincipal,
                RotateCredential, ToggleRoute, Reload, PublishSnapshot, AbortReload, Tick
  <2>2. IInv' /\ InstallInv'
    BY <1>1, NextKeepsIInv, NextKeepsInstallInv
  <2>3. /\ snapshot \in Configuration /\ config' \in Configuration /\ Uniform(config')
        /\ now \in Nat
        /\ \A r \in Route : snapshot.vector[r] \in Vector /\ config'.vector[r] \in Vector
        /\ config'.routes \subseteq Route /\ snapshot.routes = config'.routes
    BY <1>1, <2>2 DEF IInv, EnvType, Configuration, InstallInv, SameButCredential
  <2>4. Installed(generations, snapshot) /\ Installed(generations', config')
    BY <1>1, <2>2 DEF InstallInv
  <2>5. DOMAIN generations = DOMAIN generations'
    BY <2>3, <2>4 DEF Installed, InstalledKeys
  <2>6. \A r \in Route :
          /\ snapshot.vector[r].provider = config'.vector[r].provider
          /\ snapshot.vector[r].flow = config'.vector[r].flow
          /\ snapshot.vector[r].connection = config'.vector[r].connection
          /\ snapshot.vector[r].model = config'.vector[r].model
    BY <1>1, <2>3 DEF SameButCredential, Vector
  <2>7. ASSUME NEW k \in Key, k.lane = "operational"
        PROVE  scoped'[k] = scoped[k] /\ (k \in trials => k \in trials')
    <3>1. scoped[k].known =>
            k \in DOMAIN generations' /\ scoped[k].gen = generations[k]
      BY <1>1, <2>5, <2>7 DEF IInv, GateInv, GenerationFence
    <3>2. ASSUME k \in DOMAIN generations' PROVE generations'[k] = generations[k]
      <4>1. PICK r \in config'.routes, o \in Operation : k \in HealthKeys(r, o)
        BY <2>4, <3>2 DEF Installed, InstalledKeys
      <4>2. /\ generations[k] = LaneGeneration(snapshot.vector[r], k.scope, k.lane)
            /\ generations'[k] = LaneGeneration(config'.vector[r], k.scope, k.lane)
        BY <2>3, <2>4, <4>1 DEF Installed
      <4>3. r \in Route
        BY <2>3
      <4> QED
        BY <2>3, <2>6, <2>7, <4>2, <4>3, LaneGenerationIs
    <3>3. scoped[k].known => SameGeneration(k, generations'[k])
      BY <2>5, <3>1, <3>2 DEF SameGeneration
    <3>4. ~scoped[k].known => scoped[k] = NoHealth(Zero) /\ k \notin trials
      BY <1>1, <2>7 DEF InstallInv, IInv, GateInv, TrialsAreHalfOpen
    <3> QED
      BY <2>1, <2>3, <2>7, <3>1, <3>3, <3>4, SetGenerationsInstalls
  <2>8. ASSUME NEW r \in config'.routes, NEW o \in Operation,
               snapshot.vector[r].credential # config'.vector[r].credential,
               NEW k \in HealthKeys(r, o), k.lane = "authentication", k.scope # "provider"
        PROVE  ~Blocks(scoped'[k], now)
    <3>1. r \in Route /\ k \in Key
      BY <2>3 DEF Key
    <3>2. /\ generations[k] = LaneGeneration(snapshot.vector[r], k.scope, k.lane)
          /\ generations'[k] = LaneGeneration(config'.vector[r], k.scope, k.lane)
      BY <2>3, <2>4, <2>8 DEF Installed
    <3>3. generations[k] # generations'[k]
      <4>1. /\ generations[k].credential = snapshot.vector[r].credential
            /\ generations'[k].credential = config'.vector[r].credential
        BY <2>3, <2>8, <3>1, <3>2, LaneGenerationIs
      <4> QED
        BY <2>8, <4>1
    <3>4. ~SameGeneration(k, generations'[k])
      BY <3>3 DEF SameGeneration
    <3>5. \/ scoped'[k] = NoHealth(Zero)
          \/ scoped'[k] = Neutral(generations'[k])
      BY <1>1, <2>1, <2>3, <3>1, <3>4, SetGenerationsInstalls DEF InstallInv
    <3>6. \A g : /\ NoHealth(g).until = 0 /\ ~NoHealth(g).invalid
                 /\ Neutral(g).until = 0 /\ ~Neutral(g).invalid
      BY DEF NoHealth, Neutral
    <3> QED
      BY <2>3, <3>5, <3>6 DEF Blocks
  <2> QED
    BY <2>7, <2>8
<1>2. IInv /\ InstallInv /\ [Next]_vars =>
        [~reloading /\ reloading' /\ SameButCredential(snapshot, config') =>
           /\ \A k \in Key : k.lane = "operational" =>
                scoped'[k] = scoped[k] /\ (k \in trials => k \in trials')
           /\ \A r \in config'.routes, o \in Operation :
                snapshot.vector[r].credential # config'.vector[r].credential =>
                  \A k \in HealthKeys(r, o) :
                    k.lane = "authentication" /\ k.scope # "provider" => ~Blocks(scoped'[k], now)]_vars
  BY <1>1
<1> QED
  BY <1>2, GateInvariant, InstallInvariant, PTL DEF Spec, RotationSparesOperational

====
