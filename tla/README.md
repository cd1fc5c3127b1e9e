# gobroom: specification, model checking and proofs

gobroom is a local gateway for language models. A daemon accepts requests of
several client protocols, chooses a provider route for each of them, forwards the
request and translates the answer. Routes fail, run into limits, lose their
credentials and are reconfigured while requests are in flight, so the core of the
program is a passive circuit breaker, the walk over candidate routes of one
request, the persistence of what was learned, the life of the credentials the
requests use, and the state that outlives a request: sessions and usage.

These modules specify that core. TLC checks them on small instances and TLAPS
proves the main results for all values of the constants.

## 1. The system

### Components

| component | state | operations | what makes it correct |
|---|---|---|---|
| Passive health gate `runtime/health.go` | breaker entries per key, trial marks, installed generations | `SetGenerations`, `Usable`, `Acquire`, `Release`, `ObserveOutcome`, `ResetScope`, `ClearInvalid`, `Restore` | evidence stays with the key and the generation that earned it; limits and invalidations are not lost to concurrent successes or failures |
| Request execution `kernel/kernel.go` | the call stack over models, the current attempt, its lease and admission, what was dispatched | `Execute`, `executeNode`, `dispatchWithPolicy`, refresh, replay | no request takes effect twice; leases and admissions come back; evidence is honest; it ends |
| Health persistence `runtime/health_persistence.go`, `persistence_spool.go`, `daemon/persistence.go`, `daemon.go` | queue, batch, spool, rows | observe, enqueue, flush, defer, replay, reset, restore | old copies never beat new evidence; evidence of rejected credentials is not lost; retries end |
| Credential leases and activation `store/credential_activation.go`, `daemon/credential_*.go` | credential revision, activation outbox, credential lock, leases | compare-and-swap, activate, retry, refresh, acquire, validate | a token is exchanged once and sent under its own principal; what is reported active is served; every committed credential is activated |
| Snapshots `kernel/snapshot.go`, `controlplane/manager.go`, `api/server.go` | the kernel snapshot, the serving snapshot, the control manager | load, validate, `Reload`, `PublishSnapshot` | gate and kernel are on one configuration between reloads; a failed reload leaves the old one |
| Authorization lifecycle `daemon/authorization_*.go` | sign-in sessions, callback grants and listeners | open, resume, submit, poll, await, cancel, expire, commit, shut down | one driver call at a time; a session commits at most once and not after its end; no listener leaks |
| Session cache `runtime/sessionstore` | bounded cache, write queue, rows | `Load`, `Save`, `Invalidate`, `Run` | it behaves as the store the adapters are written against; an invalidated state does not come back |
| Usage accounting `usage/worker.go`, `kernel/usage_attempt.go` | bounded queue, the consumer, counters | `EmitUsage`, `Run`, drain | every reported attempt is counted once; the drain ends |
| Daemon lifecycle and IPC `daemon/daemon.go`, `ipc.go`, `listeners.go` | listeners, IPC connections, control operations | start, drain, close | what was accepted before the stop is flushed; Stop ends |
| Scheduler and strategies `kernel/scheduler.go`, `strategy.go` | counters, sticky choices, weights per group | `Plan`, `Acquire`, `Release`, `OnFailure` | every candidate gets its share; sticky choices expire |
| Policy gate `runtime/policy.go`, `quota/quota.go` | quota snapshots, affinity, latency scores | `Usable`, `ObserveOutcome`, `RecordQuota`, `Rank` | an exhausted quota blocks its own authority and expires |
| Bundles `controlplane/bundle*.go` | stored configuration | export, preview, apply | apply is all or nothing |
| Artifact store `artifacts/store.go` | files, owners, quotas | put, claim, release, expire | limits hold; nothing of a live response is removed |
| Store `store/store.go` and siblings | SQLite tables | create, read, update, delete | time fences of the health rows, the credential triggers |
| HTTP API and ingress, provider primitives, adapters and renderers, normalization, discovery, extensions, TUI and CLI | mostly none | decode, translate, encode, present | conformance to wire formats, covered by the repository's own tests |

`PROJECT.json` lists the same components with their status.

### Interactions

A request enters through the API, which calls `Kernel.Execute`. The kernel asks the
scheduler for an order, the gate for usability and admission, the credential
service for a lease, and the adapter for a dispatch; it reports each classified
answer back to the gate. The gate calls an observer after it has released its
mutex; the observer puts the new entry into a coalescing queue, whose goroutine
writes it to the store, or to a retry spool when the store fails. A replay loop
feeds spooled records back through the gate.

A lease reads the live credential, renews an expired token under the lock of the
connection, and is checked again before the dispatch. A renewal or a sign-in
replaces the credential by compare-and-swap and leaves a row in an outbox in the
same transaction; a worker (or the sign-in itself, holding the lock) works the row
off: it resets the routing state and reloads. The sign-in is a session with timers,
background calls, frontends and browser callbacks, which share loopback listeners.

The control plane changes the store and then runs a reload hook: it installs the
generations of the new configuration in the gate, restores health from the rows,
and publishes the snapshot. Requests hold the read side of `generationMu` while
they observe, the hook its write side while it installs generations. Explicit
resets (a changed connection, a rediscovered model) empty rows and gate entries
without that lock.

An answer may leave a continuation state in the session cache, which is visible at
once and written by a queue's goroutine; it may also invalidate the state it was
built on, and waits for the tombstone. Each attempt ends in one usage event for
another queue. Stop cancels the run context, waits for handlers as long as its own
context allows, closes the kernel, drains usage within a budget, and ends when both
goroutines have.

### Hard behaviours

Late answers after a reload; two requests that probe the same key; success, limit
and rejection of concurrent requests in any order; loss of a connection after the
dispatch; refresh, replay and fallback in one attempt; the observer's call
outside of the mutex; copies of rows and records that are restored after newer
evidence; crash between observation, queue, spool and row; full queues; two
requests with one expired token; edits that take no lock while an activation or a
renewal runs; a reload that fails halfway; timers, browsers and frontends that race
for a sign-in session or outlive it; writes of a session that are invalidated
before they reach the disk; requests that outlive the wait of Stop. The
hazards in `PROJECT.json` name each one at its line with the properties that
cover it, or say why none does.

## 2. The modules

```
BreakerState ──┬── HealthGate ──── MCHealthGate   (4 configurations)
               ├── HealthPersistence ── MCHealthPersistence (4 configurations)
               └── BreakerStateProofs ──┬── HealthGateProofs       (with HealthGate)
                                        └── HealthPersistenceProofs (with HealthPersistence)
KernelExecution ──┬── MCKernelExecution
                  └── KernelExecutionProofs
CredentialRows ──┬── CredentialActivation ──┬── MCCredentialActivation
                 │                          └── CredentialActivationProofs
                 └── AuthorizationSetup ──┬── MCAuthorizationSetup
AuthorizationCallbacks ──┘                └── AuthorizationSetupProofs
SessionCache ──────┬── StopSequence ──┬── MCStopSequence
UsageAccounting ───┘        │         └── StopSequenceProofs ── StopBoundsProofs
                            └ implements SessionStore (INSTANCE ... WITH)
```

**BreakerState** is the entry of one breaker key (`RouteHealth`) and the pure
functions that update it: failure, success, limit, invalidation, estimated delay,
acceptance of a restored entry. The two stateful modules share it.

**HealthGate** is `HealthGate` with several keys, the requests that use it and the
reloads that fence it. Keys are records of scope, lane and subject, as in
`OutcomeLaneKey`; a generation is a vector of the settings it hashes. Each method
holds the mutex for its whole body and is one action. A request is `Plan` (rank on
the published snapshot), `Acquire` or `Refuse`, `Lease` (the credential lease or a
refresh binds the outcome to the stored credential), `Observe` and `Release`. A
reload is `SetGenerations` (with the edit of the store) and `PublishSnapshot` or
`AbortReload`; `SetGenerations` visits routes in map order, and where two routes
disagree on a provider key the last one decides (`MapOrder`). The constant
`Admission` is TRUE for a gate with `Acquire` and `Release`, and FALSE for
`PolicyGate`, the daemon's gate, which has neither and also asks for the
operational generation of an outcome.

**KernelExecution** is one `Execute` call: a stack of `executeNode` frames, the
candidates of the current member, and the attempt with its retry flags, lease,
admission and answer. One action per statement that decides or changes something:
the walk (`EnterChild`, `EnterGroup`, `SkipCandidate`, `Admit`, ...), credential
and preparation, `Dispatch`, the answers (`TransportError`, `ErrorAnswer`,
`ContinuityReset`), the three continuations (`ReplayAnswer`, `RefreshCredential`,
`AnswerFails`), and rendering. Upstream, issuer, client, deadline and clock are
the environment. `log` (dispatches and the effect known of them) and `told`
(observations given to the gate) are histories.

**HealthPersistence** follows an observation from the gate (`Observe`, a pending
observer call) through `Enqueue`, `TakeBatch`, `Write` or `WriteFails` (spool) and
back: `TakeDue` and `ReplayRecord`, `ReadRows` and `RestoreRow` at a reload or a
start. Resets empty the rows, then visit the keys one by one (`ResetKey`), then
reload. `Crash`, `Stop`, `Exit` and `Start` are the process; `StoreToggles` is the
database. `excused` and `cleared` are histories that the properties read.

**CredentialRows** is the credential of one connection in the store and the outbox
row of its activation, with the transactions on them: `CompareAndSwap`,
`SaveActivation` with its fences, `UpdateConnection` with the triggers that rotate
revision and principal. Two modules use it.

**CredentialActivation** is everything that happens around that row. The worker is a
loop with a wake flag, a timer and a budget of failures (`Scan`, `Settle`); an
activation is `ReadActivation`, `ResetRouting`, `ReloadControl`, `Recheck` and
`Save`, each able to fail, executed by the worker or by an administrator (a sign-in
that commits, or a retry). A reload has its three publications: the control
manager, the generations of the gate (`MoveGenerations`) and the kernel
(`PublishSnapshot`). An edit of the connection takes no credential lock. A request
resolves, issues its binding, is validated at `Dispatch`, and may refresh: wait for
the lock, look again, exchange, commit. `Crash` is the process.

**AuthorizationCallbacks** is the registry of reserved and published callback grants
and the listener they share. **AuthorizationSetup** is a sign-in session: `Open`,
`Resume`, the admission of a start, a submit, a poll or an await (`Admit`), the
driver with its preparation of listeners (`Prepare`), the transition it returns
(`ApplyStep`, `ApplyCredential`, `RejectInput`, `DriverFails`), `Commit`, `Release`
with the next poll or await. A step is a set of offers, any that
`AuthorizationTransition.Validate` accepts (`Step`): it may poll and take an input, by
hand or through a callback, at the same time, and only an await excludes the others.
A driver may reject the input of whatever event it was given but a start; the session
goes on. Then there are the ends: `Cancel`, `Expires`, `Prune`, an edit, and
the shutdown (`CancelContext`, `CancelSessions`, `Drain`). Grants are released after
the sessions are unlocked (`ReleaseGrants`).

**SessionStore** is the abstract specification of a session store: one current state
per session, invalidations that remove exactly the expected state, and a floor that
what reached the disk does not fall below. **SessionCache** is the code: entries,
clear markers, the write queue, the writer's row write and its acknowledgement,
eviction, expiry, lost authority, and the preload of a new process.
**UsageAccounting** is an attempt's event, the bounded queue and its consumer.
**StopSequence** joins the two with the handlers of requests and with `Stop`, and
states that the cache implements `SessionStore`. The refinement mapping
(`StoredState`, `AskedInvalidations`): the stored state of a session is its visible
entry, or the state that a marker hides while its tombstone is queued or has just
failed; an invalidation has been asked for while its write is queued.

### Abstractions

* Time in the health modules is a natural number; 0 is Go's zero time. In
  HealthPersistence every observation advances the clock, so stamps do not tie, and
  a neutral observation written at time *t* is stamped between *t* and *t + 1*.
* Backoff delays are left out: a spooled record, or a rescheduled activation, may be
  due at any time, which allows more orders than the code.
* Provider and model generations return to an old value when a setting is changed
  back (they are hashes); principal and credential revisions are fresh.
  HealthPersistence has fresh generations only. In CredentialRows the random
  revisions are numbers that were not issued before.
* The edit of the store and the installation of its generations are one step in
  HealthGate: the reload lock keeps other control operations out, and nothing reads
  the store in between except a lease, which `Lease` may do before or after.
  CredentialActivation has the steps apart.
* Ranking is left open: KernelExecution picks any candidate next, and any subset
  of a group's candidates may be planned.
* An outcome is what the classifier returns; how it reads status codes and bodies
  is not modelled.
* CredentialActivation follows one connection. Taking the lock is one step with the
  read that follows it, and dropping it one with the save before it; a failing read
  of the outbox row ends like a failing save. A request refreshes at most once, and
  requests start in the order of their numbers. The control manager's own snapshot
  is not a variable: nothing of it reaches a request.
* AuthorizationSetup leaves out the retention and capacity of ended sessions, the
  credential lock of a commit and the activation that follows it (both in
  CredentialActivation), grants without a listener, and the wait of a browser for
  the step in flight. A step reserves at most once. The answer of a driver and its
  application are one step, as are the end of a session and the release of its call.
  A frontend may hold any credential that was live so far.
* A session state is its store version, with a flag for a usable one. Loading a
  session and dispatching its request are one step. `EmitUsage` is atomic (it holds
  `usageMu`); the counters of persisted, failed, abandoned and dropped events are
  merged into `settled`. Store versions continue over restarts.

## 3. What is checked

All runs are exhaustive on their instance. The five `violation` runs state a
sentence of the repository's documentation or comments and show a behaviour of the
code that contradicts it.

| run | configuration | result |
|---|---|---|
| `health_gate` | `MCHealthGate.cfg` | passes, 204,020 states |
| `daemon_trials` | `DaemonTrials.cfg` | violation of `OneTrialPerKey` |
| `reset_times` | `ResetTimes.cfg` | violation of `ResetTimesAreKept` |
| `client_errors` | `ClientErrors.cfg` | violation of `ClientErrorsAreNeutral` |
| `kernel_execution` | `MCKernelExecution.cfg` | passes, 1.8 million states |
| `health_persistence` | `MCHealthPersistence.cfg` | passes, 702 thousand states |
| `two_keys` | `TwoKeys.cfg` | passes, 281 thousand states |
| `reset_durability` | `ResetDurability.cfg` | violation of `ResetsAreDurable` |
| `reset_coverage` | `ResetCoverage.cfg` | violation of `ResetCoversMemory` |
| `credentials` | `MCCredentialActivation.cfg` | passes, 1.2 million states |
| `authorization` | `MCAuthorizationSetup.cfg` | passes, 918 thousand states |
| `stop_sequence` | `MCStopSequence.cfg` | passes, 795 thousand states |

### health_gate

Two routes of one connection, two requests, a clock up to 3, one reload or reset;
the outcomes are success, a rejected credential, a missing model, an overloaded
provider, a rate limit with reset time and a failing server, one for each scope and
lane that behaves differently. Two requests are the fewest that can race; a third
adds no new pair. Three ticks let a cooldown start, run and expire before the last
observation. One reload suffices for evidence to be late, and its abort installs
the old generations a second time. Requests are symmetric. The routes share their
connection, hence one sign-in flow, so `MapOrder` has nothing to decide here; the
theorems cover connections with different flows.

* `GenerationFence`: every entry belongs to the installed generation of its key.
* `TrialsAreHalfOpen`: a trial mark is only on a key that awaits its trial.
* `SuppressionIsCurrent`: whatever blocks a published route below provider scope
  was observed under that route's own generation.
* `RotationSparesOperational`: a pure credential rotation keeps operational
  evidence and trials, and drops the old credential's authentication evidence.
* `LimitSurvivesSuccess`, `InvalidIsSticky`: what may reopen a limited or an
  invalidated key.

### daemon_trials, reset_times, client_errors

The gate as the daemon uses it (`Admission` FALSE). With three requests, two are
trials of one half-open key at once. An estimate of a later failure replaces a
longer authoritative reset time. A rejected client request counts as a failure of
the route and lengthens the next estimate.

### kernel_execution

A public model with a group and a nested model that refers back to it; two
candidates, both with a derived idempotency key, one of them able to replay; all
four replay classes; seven answers (every combination of effect, retry, refresh,
continuity and terminality that takes another branch); a retention of two and a
clock up to three, so that a replay can be inside and outside the window.

* `EffectAtMostOnce`: of two dispatches, the earlier was rejected, or was not
  accepted and the later one repeats it under the same key inside the window.
* `NoRouteMeansNoEffect`: "no route" is reported only when every dispatch was
  rejected.
* `ResourcesReturned`: leases, also replaced ones, and admissions are returned.
* `EvidenceIsEarned`: one observation per attempt at most, after a dispatch, and
  none against a provider because the client left.
* `ContinuedOnce`: an attempt is dispatched at most twice; the replay under its key
  and the refresh of its credential exclude each other. Their flags are two pieces of
  state, set on different branches of the classified answer.
* `Terminates`: every call returns.

### health_persistence and two_keys

One authentication key with two observations, one control operation or restart and
two disk errors; and an authentication and a route key that compete for a queue
and a spool of one entry each, with the database up or down throughout. The two
are apart because together they exceed exhaustive search; the first is about the
life of one identity through failures, the second about competition, for which it
checks `GateNeverRegresses` alone. Two
observations are needed for one to be older; two failed cycles make a dead letter,
so that a record can fail, be replayed, and fail for good. The first instance was
also checked with two control operations or restarts and three observations (12.2
million states, too long for the suite), and the safety properties are proved for
every bound.

* `RestoredIsCurrent`: nothing restored or replayed belongs to a superseded
  generation.
* `GateNeverRegresses`: restores and replays do not take a key back to older
  evidence, except to an explicit reset.
* `TimedRowsNeverRegress`: a row with a time does not go back.
* `AuthEvidenceIsKept`: the last observation of an authentication key is in a call,
  the queue, the writer, the spool or its row, unless in this generation of the key
  it was reset, a loss was logged or an observation was overtaken on its way to the
  queue. A reset excuses the key across restarts, because its neutral state is
  stamped when it is written (`store/operation_runtime.go:26`): a record that was
  left in the spool can come back to the gate of the next process and be refused by
  the row, so memory and disk differ until the generation changes.
* `RetriesEnd`: the queue empties and each spooled record is written, acknowledged
  or becomes a dead letter, database or not.

### reset_durability, reset_coverage

Evidence that is on its way to the disk while a reset empties the row blocks the
key again after the reload that ends the reset. A connection reset empties
operation rows on disk and leaves the operation breakers in memory.

### credentials

Two requests, two attempts per activation, one change (an edit, a retry, a sign-in
or a crash) and two failing steps. Two requests are the fewest that race for a
token; two attempts let an activation fail, be rescheduled and be exhausted; two
faults let the reload of an activation and its bookkeeping both fail. One request
with two changes was also checked, for the safety properties, which are proved for
every bound.

* `ActiveIsServed`: an activation reported active, whose credential is the live one,
  is executed by the kernel. A reload that failed, ran before the commit or was
  overtaken must not count, and no later reload, edit or crash takes it back.
* `GatesFollowServing`: between reloads the gate observes the generations of the
  executed snapshot, also after a hook that failed halfway.
* `LeaseIsCoherent`: what passes the check before the dispatch is the credential of
  its binding and of the principal its route was built for.
* `ExchangeIsSingle`: a refresh token is exchanged again only after an exchange that
  led to no credential.
* `LineageIsUnbroken`: a commit replaces the credential its exchange or sign-in
  started from.
* `JobsSettle`: every committed credential is activated, superseded or exhausted at
  last, unless storage failed until the worker gave up.

### authorization

Two sessions of one connection after one another, so that the calls, timers and
grants of the first overlap with the second; every step of `Step`; two of them, so that
each kind of step follows each other one before the commit, and a poll, submit or await
of the first revision is late in the second; one edit and one shutdown. Any number of
calls may be rejected on the way.

* `DrivenByOne`: one call at a time, whose session has no poll timer meanwhile; a
  polled session, also one that takes an input or a callback, is never left without a
  poll, whatever submits and browsers overtook or were rejected; no call outlives the
  wait of the shutdown.
* `CallbacksBelong`: each grant or reserved socket belongs to a session or release
  that will return it, and the listener is open exactly as long as it is used.
* `EndedStaysEnded`: what was reported as ended does not come back nor commit.
* `SessionsEnd`: every session ends, at the latest by its deadline, and the shutdown
  gets past its wait. It is stated as "time and again no session is active": sessions
  are finitely many and, by `EndedStaysEnded`, none comes back.

### stop_sequence

Two requests of one session, one of which may belong to a second session instead; a
cache of one entry, queues of one element, two rows of an earlier process; one
trouble (a disk error, an expiry, lost authority or a client that leaves), a
shutdown and a restart. One entry makes every save of the other session an
eviction and lets the preload choose; one element makes every second write find the
queue full.

* `ImplementsSessionStore`: the cache refines `SessionStore` under the mapping above.
* `GoneIsGone`: after an invalidation that answered true, neither the cache nor the
  disk holds the state the request had loaded, or an older one, in this process or
  the next.
* `CountedOnce`: a reported attempt is exactly once in the queue, in the consumer's
  hand or in a counter.
* `StoppedIsDrained`: when the process ends, no usage event is left and every write
  queued before the session writer returned is answered; a handler was cut off, or had
  its event refused, only when Stop had given up waiting. An invalidation may wait with
  its attempt reported (an error status, `kernel.go:599` and `:624`) or still open (the
  last event of a stream, `:837`, reported at `:1011`).
* `StopEnds`, `InvalidationsAnswered`: liveness of the shutdown and of the caller of
  `Invalidate`.

### Fairness

HealthGate has only safety properties and no fairness. In KernelExecution, weak
fairness of `Walk \/ Attempt`: they are the statements of one goroutine, and each
call it makes outside (credential, upstream, rendering) is bounded by the operation
deadline, after which the code goes on with an error. The clock, the client and the
deadline itself are not fair. In HealthPersistence, the queue's goroutine, the
replay loop, the reload in progress, a reset in progress with the reload its
control operation owes, an observer call and the drain at a stop are weakly fair:
none of them waits for anything but each other. Requests, control operations,
crashes and the recovery of the database are not promised.

In CredentialActivation the worker is strongly fair: it waits for the credential
lock, whose waiters are served in order (`semaphore.Weighted`), so it cannot be
overtaken for ever. A reload, an administrator's activation, an exchange in progress
(bounded by its context) and the timer of a rescheduled attempt are weakly fair; edits,
sign-ins, retries and new requests are not promised. In AuthorizationSetup the
goroutines of the sessions (a driver returns when its context is over), the timers
and the two steps of the shutdown are weakly fair; what users do is not. In
StopSequence the handlers of cancelled requests, the session writer, the steps of
Stop and the end of its budget are weakly fair, and the consumer is when it does not
hold an event or its context is cancelled: a repository may hang until then.

### Observations

Behaviour met while modelling that contradicts no document, and is contained in the
models:

* An await asks for admission once. A submit that is admitted between
  `releaseSetupCall` and that goroutine, even one the schema refuses, makes it busy,
  and it is not started again (`authorization_setup.go:366-378`); the session then
  waits for its deadline.
* A resume holds a credential that was read before the lock
  (`authorization_setup.go:39`); overtaken by an edit and a new session, it ends that
  valid session as changed (`authorization_resume.go:42`).
* A request that outlives the wait of Stop can queue a write after the session writer
  has drained and returned (`cache.go:137`): nobody writes it, and an invalidation
  waits for its own context.
* Every edit of a connection, also a rename, rotates the revision (`store.go:531`
  names type and enabled in every UPDATE), so a token that is being exchanged
  meanwhile is refused by the swap and lost.
* `UpdateConnection` reads and writes without a lock around both
  (`store.go:503-539`): two edits at once can enable again what one has disabled.
* An edit between the replacement of a principal and its activation supersedes the
  job, and the routing reset of that principal does not run; its new generations make
  the reset unnecessary in memory.

### Mutants

Each property of a passing run has a mutant in `PROJECT.json`, an operator written
before the definition it replaces (marked `Mutant:`) that makes a plausible mistake
in that code; with it, TLC finds the property violated under the run's own
configuration.

## 4. What is proved

**HealthGateProofs**, for all routes, connections, providers, operations, flows,
requests, outcomes, delays, both values of `Admission` and all bounds, from
`BreakerAssumption` and `GateAssumption`:

* `TypeCorrect`, `FenceCorrect`, `TrialsCorrect`: `Spec => []TypeOK`,
  `[]GenerationFence`, `[]TrialsAreHalfOpen`.
* `LimitCorrect`, `StickyCorrect`: the action properties `LimitSurvivesSuccess` and
  `InvalidIsSticky`.
* `SuppressionCorrect`: `Spec => []SuppressionIsCurrent`; `RotationCorrect`:
  `SameFlows => (Spec => RotationSparesOperational)`. `SameFlows` says that the
  connections of a provider use one sign-in flow. Without it a reload may install
  another flow at the shared provider key and drop its evidence, the hazard listed at
  `health.go:80`; the property is not claimed for that case.

The argument: `GateInv` adds to the three invariants that an unknown entry is the
zero entry and that an invalid entry has no cooldown. Both are needed: the first
because `SetGenerations` keeps unknown entries whatever their generation, the
second because a trial mark is set on any key with a cooldown on record, and an
invalidated one must not have any. `GateInv` speaks of the gate alone, so there is
one lemma per gate operation (`SetGenerationsKeepsGate`, `ObserveKeepsGate`,
`ResetKeepsGate`, `AcquireKeepsGate`, `ReleaseKeepsGate`), and `IInv` joins it with
the types of configuration and requests (`EnvType`). The action properties follow
from `IInv` and `StepEffect`, which says what a step can do to an entry: nothing,
empty it, set it to a neutral one, or apply an outcome.

The last two properties relate the gate to the published snapshot. Their invariant is
`InstallInv`: the installed generations are those of the snapshot, or of the
configuration whose reload is under way (`Installed`), and routes that share a
connection or a provider agree on what they share (`Uniform`). The latter is what
makes the map order of `SetGenerations` harmless below provider scope
(`SharedKeysAgree`, `NextGenerationIs`); every edit changes all routes that share what
it changes, which keeps it.

**KernelExecutionProofs**, for all model graphs, groups, candidates, answers and
retentions, from `KernelAssumption` (whose last conjunct is the code's own check
that a valid continuity answer is a confirmed rejection):

* `ExecutionTypeCorrect`, `EffectCorrect`, `NoRouteCorrect`, `ResourcesCorrect`,
  `EvidenceCorrect`, `ContinuedCorrect`: the type invariant and the five safety
  properties.
* `PathCorrect`: the stack of frames is a path of models that are visited once each,
  so it is never deeper than the number of models, whatever refers back to what.
* `EveryStepAdvances`, `PositionsWellFounded`: each step of the walk or the attempt
  takes `Position` to a smaller one in a lexicographic order that has no infinite
  descent. The two are the safety half of `Terminates`, for every configuration.

The argument: `IInv` consists of `TypeOK`, `RunInv` (which candidate and flags each
program point has), `ClockInv`, `ResourceInv` (exactly the current lease and
admission are held, at exactly the points that hold them), `LogInv` (before the
walk goes on, every dispatch was rejected; within an attempt, those that were not
carry its key and are not older than `first`), `ToldInv` (no observation of the
current attempt before its end) and the properties. `LogInv` is what makes
`EffectAtMostOnce` inductive: a new dispatch is compared with all earlier ones.
`Shapes` sorts the actions by what they do to log, clock and histories, so that
each part of `IInv` is shown once per shape and not once per action. `ContinuedCorrect`
adds `CountInv`: how often the current attempt has been dispatched at each program
point follows from its two flags.

A `Position` is whether the call still runs, then for each depth the members a frame
has left, the candidates of the current member, and for an attempt its continuation
flags and the stage of its dispatch. Entering a nested model uses up a member of the
frame above it, which is why its own, fresh members do not count as a step back.
That sets have sizes which shrink needs `FiniteAssumption`: the candidates of a group
and the models are finitely many. That some step is enabled until the call returns,
and is taken, is the other half of `Terminates`, and TLC's. `[][Advances]_vars` was
also checked with TLC on the instance of `kernel_execution`.

**BreakerStateProofs** holds what the proofs about the two modules with breakers
share: the types of the entries and of an outcome's effect (`NeutralTypes`,
`FailureDelayType`, `AfterOutcomeType`) and what an outcome leaves of an entry
(`AfterOutcomeFacts`).

**HealthPersistenceProofs**, for all keys, rows, outcomes, capacities and bounds, from
`BreakerAssumption` and `PersistenceAssumption`:

* `PersistenceTypeCorrect`, `RestoreCorrect`, `RowsCorrect`, `GateCorrect`: the type
  invariant, `RestoredIsCurrent`, `TimedRowsNeverRegress`, `GateNeverRegresses`.
* `EvidenceCorrect`: `AuthEvidenceIsKept`, provided the resets visit only keys they
  can reach (`Fenced \subseteq Resettable`; `reset_coverage` shows what happens to keys
  that are not).

The argument: a copy of an observation may be in a call, the queue, the batch, the
spool, the replay, a row or the restore at once, so the invariant speaks of all
`Copies`. `CopyInv`: a copy is stamped no later than the clock, its generation was
installed, and an identity and a time determine the state; a step moves copies about
and only `Observe` makes one with a new time. `GateInv` and `ModeInv` say what an
entry of the gate may be and which places are empty in which mode of the process,
`RowInv` and `RowKeyInv` how rows are stamped and whose they are, `BoundInv` bounds
the queue and the spool. For `AuthEvidenceIsKept`, `EvidenceInv` adds, for each
authentication key that is not excused: no neutral state of its generation is left
(`NeutralGone`), what its row keeps of an older generation is older than all evidence
of this one (`RowIsOlder`), only spooled records may be newer than the gate
(`GateIsNewest`), an older copy in the queue or the writer has the last one behind it
(`OlderIsFollowed`), the last one is on its way (`Kept`), and a start restores the row
(`RowIsRestored`).

**CredentialActivationProofs**, for all numbers of requests, attempts, changes and
faults, from `ActivationAssumption`:

* `CredentialTypeCorrect`, `ActiveCorrect`, `GatesCorrect`, `LeaseCorrect`: the type
  invariant and the three safety invariants.
* `ExchangeCorrect`, `LineageCorrect`: the two action properties.
* `WatchedCorrect`: `Spec => []JobIsWatched`, the safety half of `JobsSettle`. A
  pending row has a worker that is awake, at work or waits for its timer, or an
  administrator who activates it and will wake the worker; or the worker gave up, the
  exception `JobsSettle` makes too.

The argument rests on revisions that are never issued twice: every step leaves the
live credential or gives it a revision nobody knows (`Fresh`), so a row that matches
it after the step matched it before (`MatchesBefore`). `LockInv` is the exclusion of
the credential lock per program point, `ReloadInv` relates the three publications of
a reload, `ActiveInv` what an activation knows once it will report `active`
(`Published`: the live credential is executed, and no reload under way changes that).
Steps are divided into those of a reload and those that leave its snapshots alone
(`CalmStep`). `LeaseInv` and `SpentInv` do the same for leases and exchanges, and
`BudgetInv` bounds attempts and failures for the types. `JobIsWatched` is inductive
with `IInv`: a commit writes its row while its actor is at work, an activation that
leaves the row pending ends with a wake, and a batch that finds one pending arms the
timer until the failures are too many (`SettledWatches`).

**StopSequenceProofs**, for all sessions, requests, first rows, sizes of the cache and
of the queues, and bounds, from `SessionCacheAssumption`, `UsageAssumption` and
`StopAssumption`:

* `CacheImplementsStore`: the refinement, `Spec => ImplementsSessionStore`.
* `GoneCorrect`, `CountedCorrect`, `DrainedCorrect`: `GoneIsGone`, `CountedOnce`,
  `StoppedIsDrained`.
* `WaitingCorrect`: `Spec => []WaitingIsAnswerable`, the safety half of
  `InvalidationsAnswered`. A caller that waits has exactly one write outstanding; once
  the writer has left, its context is over, so that nobody waits for an answer that
  cannot come.

The argument: a version is given out once, so it names one write (`WritesDiffer`).
`SessionInv` says that a usable state was saved for its session (`EntryInv`), what a
queued marker hides (`WriteInv`), that writes reach the disk in the order of their
versions (`OrderInv`), and that an entry is gone, or its session's last outstanding
write or newer, and what a marker hides is not older than the writes before it
(`LastInv`). The last is why an acknowledged invalidation cannot uncover an older
state: `GoneInv` holds everything that may become usable again to be `Newer`. For the
refinement, `StoredInv` characterises the mapping of each session, and each step of the
cache is a step of `SessionStore` or a stutter (`LoadImplements`, ...,
`NewImplements`): when a marker expires, what it hides has expired as well. `UsageInv`
puts each final attempt in exactly one place; `StageInv` relates the stage of Stop to
the kernel, the consumer and the writer, and says that unless Shutdown gave up every
handler is over once the kernel is closed, which an open attempt that waits for its
tombstone keeps from happening (`AttemptInv`). For the callers,
`AskedInv` says that an invalidation is queued once and stays outstanding until its
acknowledgement, and `CancelInv` that Stop cancels the contexts of the requests before
it closes the cache, on which the writer's exit waits.

**StopBoundsProofs**, from the same assumptions:

* `StopTypeCorrect`: `Spec => []TypeOK`, which contains the limits of the program:
  the cache holds at most `MaxEntries` entries, and each queue what it was made for.

The argument: `BoundInv` says that no version names states of two sessions
(`SavedApart`), that the cache fits (`CacheFits`), and so do the queues (`QueueFits`,
`EventsFit`). A save makes room before it enters; an invalidation turns an entry into
a marker and a failed tombstone turns the marker back, so neither adds one. A preload
keeps the rows that fewer than `MaxEntries` others are newer than; these are at most
`MaxEntries` because their versions differ (`NewestFit`). For the first process that
is an assumption: versions stand for the order of the rows it finds, in which
`comparePreload` breaks ties.

**AuthorizationSetupProofs**, for any number of sessions, sign-in steps, edits of the
connection and callback grants, from `SessionsAssumption` and `SetupAssumption`:

* `SetupTypeCorrect`, `DrivenCorrect`, `CallbacksCorrect`: `Spec => []TypeOK`,
  `[]DrivenByOne`, `[]CallbacksBelong`.
* `EndedCorrect`: the action property `EndedStaysEnded`.
* `BoundedCorrect`: `Spec => []ActiveIsBounded`, the safety half of `SessionsEnd`. A
  session that starts has its driver call under way, and one that awaits has its
  expiry timer, which only a commit under way may have stopped.

The argument: `DrivenByOne` is not inductive, because a second call is refused by the
mark of the first, and the mark is a separate piece of state. `IInv` therefore joins
the types of the stored row (`RowType`), `CallInv`, the emptiness of the pending calls
after the drain (`DrainInv`) and `CallbacksBelong`. `CallInv` says of every session
that at most one call is admitted, and holds its mark while the coordinator is open
(`Exclusive`: `Close` empties the marks while calls go on, so the mark alone is not
enough); that an ended session has revision 0, no grant and no poll timer, that one
never opened has no call, and that none is active after the shutdown (`Blank`); that
the last revision occurs only while a commit is in progress (`Bounded`); and that a
session in flight has no poll timer, while a polled one that is not in flight has its
timer armed or its poll under way (`Polled`): a call that admission takes stops the
timer, and only its release, also after a rejection, arms it again. There is one lemma
per action; `LocalStep` says that a step of one session leaves the others alone.
`CallbacksBelong` follows because a step that ends a session moves its grant to
the releases (`EndsKeepsGrants`), and `EndedStaysEnded` (`NextStays`) because every step
that writes a session's entry either keeps its status or finds the session active.

**Only model-checked**: liveness (`Terminates`, `RetriesEnd`, `JobsSettle`,
`SessionsEnd`, `StopEnds`, `InvalidationsAnswered`), which is beyond the prover. What
their safety half is, where it is proved, is said with the component: it leaves only
that what is armed or under way is eventually taken, which is the fairness of
"Fairness" above. No run lists these formulas; TLC found each to hold on the instance
of its component's run before it was proved.

## 5. What is not modelled

* Wire formats, adapters, renderers, normalization, manifests, TUI and CLI: their
  subject is text, and the repository's tests compare it. They are most of the
  program's lines; what is modelled is a small share of them because the state and the
  concurrency of the program sit in a small share of them.
* Ranking scores, latency and jitter: preferences without a safety claim. The
  strategies' counters and stickiness, quota authority and affinity: stateful, and
  open in KernelExecution (any candidate may come next), left for a module of their
  own.
* The contents of requests, responses, sessions, artifacts and usage events.
* Configuration bundles and the artifact store.
* The reservation of listeners and the IPC protocol.
* SQLite: a write is atomic and durable when it is acknowledged.
* Quota records, which take the same way to the disk as health records.

## 6. Plan

Done: A. BreakerState, HealthGate and proofs. B. KernelExecution and proofs.
C. HealthPersistence and proofs. D. SessionStore, SessionCache, UsageAccounting,
StopSequence and proofs. E. CredentialRows, CredentialActivation and proofs.
F. AuthorizationCallbacks, AuthorizationSetup and proofs.

Next, the most important first:

1. **Configuration bundles**: preview, apply and rollback, with a failing reload;
   abstract specification: one atomic switch of the configuration.
2. **Scheduler strategies** as operators checked against reference definitions
   (rotation, stickiness, weights), and **quota** with authority and expiry.
3. **Artifact store** and **listener reservation**: one bounded module each, with
   ownership, limits and release.
