---- MODULE HealthPersistence ----
(***************************************************************************)
(* How breaker evidence reaches the disk and comes back: the observer of   *)
(* the health gate, the coalescing queue (runtime/health_persistence.go),  *)
(* the writer and its retry spool (daemon/persistence.go,                  *)
(* runtime/persistence_spool.go), the rows of the store, and the restore   *)
(* of those rows at a reload and at a restart (daemon/daemon.go).          *)
(*                                                                         *)
(* The gate calls its observer after it has released its mutex, so an      *)
(* observation that was made is a pending call until it enters the queue.  *)
(* Every observation advances the clock: time stamps never tie. Backoff    *)
(* delays are left out: a spooled record may be due at any time.           *)
(***************************************************************************)
EXTENDS BreakerState, FiniteSets

CONSTANTS
  Key,          \* breaker keys of one connection
  Row, RowOf,   \* durable rows, and the row of each key
  Timed,        \* rows that keep the attempt and reject older writes
  ModelRows,    \* rows of model_availability
  Fenced,       \* keys of the authentication lane
  Resettable,   \* keys an explicit reset of the connection visits
  Outcomes,     \* [Key -> outcomes requests can report at the key]
  Capacity,     \* identities the queue holds
  MaxRecords,   \* records the spool holds
  MaxAttempts,  \* failed cycles that make a dead letter
  MaxTime,      \* bound on the clock
  MaxChanges,   \* bound on control operations and restarts
  MaxOutages    \* bound on disk errors

ASSUME PersistenceAssumption ==
  /\ RowOf \in [Key -> Row] /\ Timed \subseteq Row /\ ModelRows \subseteq Row \ Timed
  /\ Fenced \subseteq Key /\ Resettable \subseteq Key
  /\ \A k \in Fenced : RowOf[k] \in Timed /\ \A j \in Key : RowOf[j] = RowOf[k] => j = k
  /\ \A r \in Row : \E k \in Key : RowOf[k] = r
  /\ Outcomes \in [Key -> SUBSET OutcomeType]
  /\ Capacity \in Nat /\ MaxRecords \in Nat
  /\ MaxAttempts \in Nat \ {0}
  /\ MaxTime \in Nat /\ MaxChanges \in Nat /\ MaxOutages \in Nat

VARIABLES
  mode,       \* the daemon process
  reload,     \* progress of restoreHealthForRoutes
  gen,        \* generation installed per key
  gate,       \* [Key -> RouteHealth]: HealthGate.scoped
  calls,      \* observer calls that have not reached the queue
  pending,    \* queued observations
  batch,      \* observations flush is writing
  store,      \* whether the database accepts writes
  rows,       \* durable
  spool,      \* durable
  replay,     \* copies of due records the replay loop is handling
  loading,    \* copies of rows the restore is applying
  resetting,  \* keys an explicit reset has left to visit
  due,        \* its control operation has not reloaded yet
  now,
  changes, outages,
  excused,    \* history: keys of this generation reset, overtaken or dropped once
  cleared     \* history: keys reset and not observed since

processVars == <<mode, reload, gen, store>>
queueVars == <<calls, pending, batch>>
diskVars == <<rows, spool>>
copyVars == <<replay, loading, resetting, due>>
historyVars == <<excused, cleared>>
boundVars == <<changes, outages>>
vars == <<processVars, gate, queueVars, diskVars, copyVars, now, boundVars, historyVars>>

(***************************************************************************)
(* Observations. The queue and the spool identify one by key and           *)
(* generation.                                                             *)
(***************************************************************************)
Same(x, y) == x.key = y.key /\ x.state.gen = y.state.gen

Call(k, state, by) == [key |-> k, state |-> state, by |-> by]
Observation(x) == [key |-> x.key, state |-> x.state]

\* Requests and replays call the observer under the read side of
\* generationMu, a reload under its write side, resets without it.
GenerationsHeld == \E c \in calls : c.by \in {"request", "replay"}
GenerationsLocked == \E c \in calls : c.by = "reload"

Observe(k, outcome) ==
  /\ mode = "serving" /\ ~GenerationsLocked /\ now < MaxTime
  /\ now' = now + 1
  /\ LET state == AfterOutcome(gate[k], gen[k], outcome, now + 1)
     IN /\ gate' = [gate EXCEPT ![k] = state]
        /\ calls' = calls \cup {Call(k, state, "request")}
  /\ cleared' = cleared \ {k}
  /\ UNCHANGED <<processVars, pending, batch, diskVars, copyVars, boundVars, excused>>

(***************************************************************************)
(* HealthObservationQueue.                                                 *)
(***************************************************************************)
\* Mutant: the capacity of the queue is not checked.
RefusesClosed(x) == mode = "stopping"

Refuses(x) ==
  \/ mode = "stopping"
  \/ (~\E p \in pending : Same(p, x)) /\ Cardinality(pending) >= Capacity

Coalesced(x) ==
  IF \E p \in pending : Same(p, x) /\ p.state.attempt > x.state.attempt
  THEN pending
  ELSE {p \in pending : ~Same(p, x)} \cup {Observation(x)}

Overtaken(x) == gate[x.key].gen = x.state.gen /\ gate[x.key].attempt > x.state.attempt

Enqueue(c) ==
  /\ c \in calls
  /\ calls' = calls \ {c}
  /\ pending' = IF Refuses(c) THEN pending ELSE Coalesced(c)
  /\ excused' = IF Refuses(c) \/ Overtaken(c) THEN excused \cup {c.key} ELSE excused
  /\ UNCHANGED <<processVars, gate, batch, diskVars, copyVars, now, boundVars, cleared>>

\* One turn of the loop in flush.
TakeBatch ==
  /\ batch = {} /\ pending # {}
  /\ batch' = pending /\ pending' = {}
  /\ UNCHANGED <<processVars, gate, calls, diskVars, copyVars, now, boundVars, historyVars>>

(***************************************************************************)
(* Rows. An empty row is one that was never written, deleted, or reset to  *)
(* the empty generation.                                                   *)
(***************************************************************************)
\* A neutral observation is stamped when it is written, between the last
\* observation and the next one.
ObservedAt(x) == IF x.state.attempt = 0 THEN 2 * now + 1 ELSE 2 * x.state.attempt

EmptyRow(k) == [key |-> k, state |-> NoHealth(0), observed |-> 0]

\* Mutant: every write wins.
SaveAlways(x) == TRUE

\* The upsert's WHERE clauses: time, and for the authentication lane the live
\* credential revision.
SaveAccepts(x) ==
  RowOf[x.key] \in Timed =>
    /\ ObservedAt(x) >= rows[RowOf[x.key]].observed
    /\ x.key \in Fenced => x.state.gen = gen[x.key]

\* Rows that are not timed lose the attempt.
RowImage(x) ==
  [key |-> x.key, observed |-> ObservedAt(x),
   state |-> IF RowOf[x.key] \in Timed THEN x.state ELSE [x.state EXCEPT !.attempt = 0]]

PersistHealthState(x) ==
  rows' = IF SaveAccepts(x) THEN [rows EXCEPT ![RowOf[x.key]] = RowImage(x)] ELSE rows

(***************************************************************************)
(* DurablePersistenceSpool.                                                *)
(***************************************************************************)
Acknowledged(x) == {r \in spool : ~Same(r, x)}

\* ackSpoolRecord; the record stays when the spool file cannot be written.
AckSpoolRecord(x) ==
  \/ spool' = Acknowledged(x) /\ UNCHANGED outages
  \/ /\ outages < MaxOutages /\ \E r \in spool : Same(r, x)
     /\ outages' = outages + 1 /\ UNCHANGED spool

\* A neutral observation keeps the time of the record it replaces.
DeferredAt(x) ==
  IF x.state.attempt = 0 /\ \E r \in spool : Same(r, x)
  THEN (CHOOSE r \in spool : Same(r, x)).at
  ELSE ObservedAt(x)

\* Mutant: every failed cycle counts as the first.
DeferredAfresh(x) ==
  [key |-> x.key, state |-> x.state, at |-> DeferredAt(x), attempts |-> 1,
   dead |-> 1 >= MaxAttempts]

DeferredRecord(x) ==
  LET at    == DeferredAt(x)
      prior == {r \in spool : Same(r, x)}
      stuck == \E r \in prior : r.dead /\ at <= r.at
      again == \E r \in prior : r.at = at
      old   == CHOOSE r \in prior : TRUE
      attempts == IF stuck THEN old.attempts ELSE IF again THEN old.attempts + 1 ELSE 1
  IN [key |-> x.key, state |-> x.state, at |-> at, attempts |-> attempts,
      dead |-> stuck \/ attempts >= MaxAttempts]

SpoolFull(x) == (~\E r \in spool : Same(r, x)) /\ Cardinality(spool) >= MaxRecords

\* persistHealthObservation: the store accepts the write and the spool record
\* of the identity is dropped.
Write(x) ==
  /\ x \in batch /\ store = "up"
  /\ batch' = batch \ {x}
  /\ PersistHealthState(x)
  /\ AckSpoolRecord(x)
  /\ UNCHANGED <<changes, processVars, gate, calls, pending, copyVars, now, historyVars>>

\* All retries of the write failed. The record is deferred, or lost when the
\* spool is full or its file cannot be written.
WriteFails(x) ==
  /\ x \in batch /\ store = "down"
  /\ batch' = batch \ {x}
  /\ \/ /\ ~SpoolFull(x)
        /\ spool' = Acknowledged(x) \cup {DeferredRecord(x)}
        /\ UNCHANGED <<excused, outages>>
     \/ /\ SpoolFull(x) \/ outages < MaxOutages
        /\ outages' = IF SpoolFull(x) THEN outages ELSE outages + 1
        /\ excused' = excused \cup {x.key} /\ UNCHANGED spool
  /\ UNCHANGED <<changes, processVars, gate, calls, pending, rows, copyVars, now, cleared>>

\* The database becomes unavailable for longer than the short retries, or
\* available again.
StoreToggles ==
  /\ outages < MaxOutages
  /\ outages' = outages + 1
  /\ store' = IF store = "up" THEN "down" ELSE "up"
  /\ UNCHANGED <<changes, mode, reload, gen, gate, queueVars, diskVars, copyVars, now, historyVars>>

\* The replay loop works on a copy of the due records.
TakeDue ==
  /\ mode = "serving" /\ replay = {}
  /\ \E ready \in SUBSET {r \in spool : ~r.dead} : ready # {} /\ replay' = ready
  /\ UNCHANGED <<processVars, gate, queueVars, diskVars, loading, resetting, due, now, boundVars,
                 historyVars>>

\* Mutant: a record is replayed whatever its generation.
AcceptsAnyGeneration(k, state) == TRUE

AcceptsGeneration(k, state) == state.gen = gen[k]

Restored(k, state) ==
  IF AcceptsGeneration(k, state) /\ RestoreAccepts(gate[k], state) THEN state ELSE gate[k]

\* ReplayHealthObservation, or the acknowledgement of a stale record.
ReplayRecord(r) ==
  /\ r \in replay /\ ~GenerationsLocked
  /\ replay' = replay \ {r}
  /\ LET state == Restored(r.key, r.state)
     IN IF AcceptsGeneration(r.key, r.state)
        THEN /\ gate' = [gate EXCEPT ![r.key] = state]
             /\ calls' = calls \cup {Call(r.key, state, "replay")}
             /\ UNCHANGED <<spool, outages>>
        ELSE AckSpoolRecord(r) /\ UNCHANGED <<gate, calls>>
  /\ UNCHANGED <<changes, processVars, pending, batch, rows, loading, resetting, due, now,
                 historyVars>>

RequeueDeadLetters ==
  /\ mode = "serving" /\ changes < MaxChanges /\ \E r \in spool : r.dead
  /\ changes' = changes + 1
  /\ spool' = {IF r.dead THEN [r EXCEPT !.dead = FALSE, !.attempts = 0] ELSE r : r \in spool}
  /\ UNCHANGED <<outages, processVars, gate, queueVars, rows, copyVars, now, historyVars>>

(***************************************************************************)
(* Explicit resets: the store first, then the gate key by key, and at the  *)
(* end of the control operation a reload.                                  *)
(***************************************************************************)
\* resetConnectionRoutingState of connections.update.
ResetConnection ==
  /\ mode = "serving" /\ store = "up" /\ ~due /\ changes < MaxChanges
  /\ changes' = changes + 1
  /\ rows' = [r \in Row |-> EmptyRow(rows[r].key)]
  /\ resetting' = {[key |-> k, invalidOnly |-> FALSE] : k \in Resettable} /\ due' = TRUE
  /\ UNCHANGED <<outages, processVars, gate, queueVars, spool, replay, loading, now, historyVars>>

\* Model discovery confirmed the model.
ClearInvalidModel(row) ==
  /\ mode = "serving" /\ store = "up" /\ ~due /\ changes < MaxChanges
  /\ row \in ModelRows
  /\ changes' = changes + 1
  /\ rows' = IF rows[row].state.invalid THEN [rows EXCEPT ![row] = EmptyRow(@.key)] ELSE rows
  /\ resetting' = {[key |-> k, invalidOnly |-> TRUE] : k \in {j \in Key : RowOf[j] = row}}
  /\ due' = TRUE
  /\ UNCHANGED <<outages, processVars, gate, queueVars, spool, replay, loading, now, historyVars>>

\* ResetScope or ClearInvalid on one key.
ResetKey(x) ==
  /\ x \in resetting
  /\ resetting' = resetting \ {x}
  /\ IF x.invalidOnly /\ ~gate[x.key].invalid
     THEN UNCHANGED <<gate, calls, historyVars>>
     ELSE /\ gate' = [gate EXCEPT ![x.key] = Neutral(gen[x.key])]
          /\ calls' = calls \cup {Call(x.key, Neutral(gen[x.key]), "reset")}
          /\ cleared' = cleared \cup {x.key} /\ excused' = excused \cup {x.key}
  /\ UNCHANGED <<processVars, pending, batch, diskVars, replay, loading, due, now, boundVars>>

(***************************************************************************)
(* Reloads and restarts.                                                   *)
(***************************************************************************)
\* Mutant: the neutral state of the authentication lane is persisted too.
AnnouncesAll(k) == TRUE

\* "Epoch invalidation is not new authentication evidence."
Announces(k) == k \notin Fenced

\* SetGenerations, at the end of a reset's control operation or for another
\* configuration change, which renews the generation of some keys: none, the
\* authentication lane (new credential) or all.
Reload(renewed) ==
  /\ mode = "serving" /\ reload = "idle" /\ ~GenerationsHeld /\ ~GenerationsLocked
  /\ renewed # {} => store = "up"
  /\ \/ due /\ resetting = {} /\ due' = FALSE /\ UNCHANGED changes
     \/ changes < MaxChanges /\ changes' = changes + 1 /\ UNCHANGED due
  /\ reload' = "installed"
  /\ gen' = [k \in Key |-> IF k \in renewed THEN gen[k] + 1 ELSE gen[k]]
  /\ LET reset == {k \in renewed : gate[k].known}
     IN /\ gate' = [k \in Key |-> IF k \in reset THEN Neutral(gen[k] + 1) ELSE gate[k]]
        /\ calls' = calls \cup {Call(k, Neutral(gen[k] + 1), "reload") :
                                  k \in {j \in reset : Announces(j)}}
  /\ excused' = excused \ renewed /\ cleared' = cleared \ renewed
  /\ UNCHANGED <<outages, mode, store, pending, batch, diskVars, replay, loading, resetting, now>>

\* restoreHealthForRoutes reads the tables, then applies row by row.
ReadRows ==
  /\ reload = "installed" /\ ~GenerationsLocked
  /\ reload' = "restoring"
  /\ loading' = {rows[r] : r \in Row}
  /\ UNCHANGED <<mode, store, gen, gate, queueVars, diskVars, replay, resetting, due, now,
                 boundVars, historyVars>>

\* A model row is restored only while it still blocks.
Restorable(row) ==
  row.state.known /\ (RowOf[row.key] \in ModelRows => Blocks(row.state, now))

RestoreRow(row) ==
  /\ reload = "restoring" /\ row \in loading
  /\ loading' = loading \ {row}
  /\ gate' = IF Restorable(row) THEN [gate EXCEPT ![row.key] = Restored(row.key, row.state)]
             ELSE gate
  /\ UNCHANGED <<processVars, queueVars, diskVars, replay, resetting, due, now, boundVars,
                 historyVars>>

FinishReload ==
  /\ reload = "restoring" /\ loading = {}
  /\ reload' = "idle" /\ mode' = IF mode = "starting" THEN "serving" ELSE mode
  /\ UNCHANGED <<gen, store, gate, queueVars, diskVars, copyVars, now, boundVars, historyVars>>

Lost ==
  /\ gate' = [k \in Key |-> NoHealth(0)]
  /\ calls' = {} /\ pending' = {} /\ batch' = {}
  /\ replay' = {} /\ loading' = {} /\ resetting' = {} /\ due' = FALSE
  /\ mode' = "down" /\ reload' = "idle"
  /\ cleared' = {} /\ UNCHANGED excused

Crash ==
  /\ mode # "down" /\ changes < MaxChanges
  /\ changes' = changes + 1
  /\ Lost
  /\ UNCHANGED <<outages, gen, store, diskVars, now>>

\* Control operations and the replay loop are drained, then the queue is
\* closed; what it accepted is flushed before the store closes.
Stop ==
  /\ mode = "serving" /\ reload = "idle" /\ replay = {} /\ ~due /\ changes < MaxChanges
  /\ changes' = changes + 1
  /\ mode' = "stopping"
  /\ UNCHANGED <<reload, gen, store, gate, queueVars, diskVars, copyVars, now, outages,
                 historyVars>>

Exit ==
  /\ mode = "stopping" /\ pending = {} /\ batch = {}
  /\ Lost
  /\ UNCHANGED <<gen, store, diskVars, now, boundVars>>

Start ==
  /\ mode = "down"
  /\ mode' = "starting" /\ reload' = "installed"
  /\ UNCHANGED <<gen, store, gate, queueVars, diskVars, copyVars, now, boundVars, historyVars>>

(***************************************************************************)
(* Specification.                                                          *)
(***************************************************************************)
Init ==
  /\ mode = "serving" /\ reload = "idle" /\ store \in {"up", "down"}
  /\ gen = [k \in Key |-> 0]
  /\ gate = [k \in Key |-> NoHealth(0)]
  /\ calls = {} /\ pending = {} /\ batch = {}
  /\ rows = [r \in Row |-> EmptyRow(CHOOSE k \in Key : RowOf[k] = r)]
  /\ spool = {}
  /\ replay = {} /\ loading = {} /\ resetting = {} /\ due = FALSE
  /\ now = 1 /\ changes = 0 /\ outages = 0
  /\ excused = {} /\ cleared = {}

Writer == TakeBatch \/ \E x \in batch : Write(x) \/ WriteFails(x)
Replayer == TakeDue \/ \E r \in replay : ReplayRecord(r)
Restorer == ReadRows \/ (\E row \in loading : RestoreRow(row)) \/ FinishReload

Next ==
  \/ \E k \in Key : \E outcome \in Outcomes[k] : Observe(k, outcome)
  \/ \E c \in calls : Enqueue(c)
  \/ TakeBatch
  \/ \E x \in batch : Write(x)
  \/ \E x \in batch : WriteFails(x)
  \/ TakeDue
  \/ \E r \in replay : ReplayRecord(r)
  \/ RequeueDeadLetters
  \/ ResetConnection
  \/ \E row \in Row : ClearInvalidModel(row)
  \/ \E x \in resetting : ResetKey(x)
  \/ \E renewed \in {{}, Fenced, Key} : Reload(renewed)
  \/ ReadRows
  \/ \E row \in loading : RestoreRow(row)
  \/ FinishReload
  \/ Crash
  \/ Stop
  \/ Exit
  \/ Start
  \/ StoreToggles

\* The goroutines of the queue, the replay loop and the reload keep running,
\* and a call returns; requests, resets, stops and crashes are not promised.
Fairness ==
  /\ WF_vars(\E c \in calls : Enqueue(c))
  /\ WF_vars(Writer)
  /\ WF_vars(Replayer)
  /\ WF_vars(Restorer)
  /\ WF_vars(\E x \in resetting : ResetKey(x))
  /\ WF_vars(due /\ resetting = {} /\ \E renewed \in {{}, Fenced, Key} : Reload(renewed))
  /\ WF_vars(Exit)

Spec == Init /\ [][Next]_vars /\ Fairness

(***************************************************************************)
(* Properties.                                                             *)
(***************************************************************************)
Health == RouteHealth(Nat)
Observations == [key: Key, state: Health]
Records == [key: Key, state: Health, at: Nat, attempts: Nat, dead: BOOLEAN]
RowImages == [key: Key, state: Health, observed: Nat]

\* Every variable keeps its type; the queue and the spool stay within their
\* bounds and hold one entry per identity.
TypeOK ==
  /\ mode \in {"down", "starting", "serving", "stopping"}
  /\ reload \in {"idle", "installed", "restoring"} /\ store \in {"up", "down"}
  /\ gen \in [Key -> Nat] /\ gate \in [Key -> Health]
  /\ \A c \in calls : Observation(c) \in Observations
  /\ pending \subseteq Observations /\ batch \subseteq Observations
  /\ rows \in [Row -> RowImages] /\ loading \subseteq RowImages
  /\ spool \subseteq Records /\ replay \subseteq Records
  /\ resetting \subseteq [key: Key, invalidOnly: BOOLEAN] /\ due \in BOOLEAN
  /\ Cardinality(pending) <= Capacity /\ Cardinality(spool) <= MaxRecords
  /\ \A queue \in {pending, spool} : \A x, y \in queue : Same(x, y) => x = y
  /\ now \in Nat /\ changes \in Nat /\ outages \in Nat
  /\ excused \subseteq Key /\ cleared \subseteq Key

\* Whatever comes back from rows and spooled records, over any number of
\* reloads and restarts: no entry of the gate belongs to a generation other
\* than the installed one (Restore, ReplayHealthObservation).
RestoredIsCurrent ==
  \A k \in Key : gate[k].known => gate[k].gen = gen[k]

\* Restores and replays of old copies never take the gate back to older
\* evidence: within one process and generation, the attempt of a key goes back
\* only to the zero of an explicit reset.
GateNeverRegresses ==
  [][\A k \in Key :
       gate[k].known /\ gate'[k].known /\ gate'[k].gen = gate[k].gen /\ mode' # "down" =>
         \/ gate'[k].attempt >= gate[k].attempt
         \/ gate'[k] = Neutral(gen[k]) /\ resetting' # resetting]_vars

\* A row that carries its observation time never goes back in time, however
\* calls, retries, replays and restarts reorder the writes; only a reset
\* empties it.
TimedRowsNeverRegress ==
  [][\A r \in Timed : rows'[r].observed >= rows[r].observed \/ ~rows'[r].state.known]_vars

\* Evidence of a rejected credential is not lost on the way to the disk: while
\* the daemon serves, the last observation of every authentication key is in a
\* call, the queue, the writer, the spool or its row, unless, since the key's
\* generation was installed, in this process or an earlier one, the key was
\* reset, a loss was logged or an observation was overtaken before it reached
\* the queue. (The stamp of a reset's neutral row outlives a restart and
\* refuses older evidence that a spooled record brings back.)
AuthEvidenceIsKept ==
  mode = "serving" =>
    \A k \in Fenced :
      gate[k].attempt # 0 /\ k \notin excused /\ (\A x \in resetting : x.key # k) =>
        \/ \E x \in calls \cup pending \cup batch \cup spool : x.key = k /\ x.state = gate[k]
        \/ rows[RowOf[k]].state = gate[k]

\* Retries end whether the database comes back or not: once observations,
\* control-plane operations and outages cease, the queue empties and each
\* spooled record is written, acknowledged or becomes a dead letter.
RetriesEnd ==
  <>[](mode # "down" => calls = {} /\ pending = {} /\ batch = {} /\ \A r \in spool : r.dead)

\* runtime/health.go, comment of ResetScope: a reset removes the suppression
\* and persists it. No evidence from before the reset blocks the key again.
ResetsAreDurable ==
  \A k \in cleared : ~Blocks(gate[k], now)

\* docs/PASSIVE_HEALTH_ROUTING.md: a configuration change resets the affected
\* health. When the reset is over, memory and disk agree: no key of the
\* connection blocks while its row is empty and nothing is on its way there.
ResetCoversMemory ==
  mode = "serving" /\ reload = "idle" /\ ~due /\ calls = {} /\ pending = {}
  /\ batch = {} /\ spool = {} =>
    \A k \in Key \ excused : Blocks(gate[k], now) => rows[RowOf[k]].state.known
====
