---- MODULE HealthPersistenceProofs ----
(***************************************************************************)
(* Theorems about HealthPersistence, for every set of keys, rows and       *)
(* outcomes and every bound.                                               *)
(***************************************************************************)
EXTENDS HealthPersistence, BreakerStateProofs, FiniteSetTheorems

(***************************************************************************)
(* The inductive invariant.                                                *)
(***************************************************************************)
Messages == calls \cup pending \cup batch \cup spool \cup replay

\* Every state of a key that is kept anywhere, in memory or on the disk.
Copies ==
  Messages \cup loading \cup {rows[r] : r \in Row} \cup {[key |-> k, state |-> gate[k]] : k \in Key}

CallType == [key: Key, state: Health, by: {"request", "replay", "reload", "reset"}]

TypeInv ==
  /\ mode \in {"down", "starting", "serving", "stopping"}
  /\ reload \in {"idle", "installed", "restoring"} /\ store \in {"up", "down"}
  /\ gen \in [Key -> Nat] /\ gate \in [Key -> Health]
  /\ calls \subseteq CallType
  /\ pending \subseteq Observations /\ batch \subseteq Observations
  /\ rows \in [Row -> RowImages] /\ loading \subseteq RowImages
  /\ spool \subseteq Records /\ replay \subseteq Records
  /\ resetting \subseteq [key: Key, invalidOnly: BOOLEAN] /\ due \in BOOLEAN
  /\ now \in Nat /\ changes \in Nat /\ outages \in Nat
  /\ excused \subseteq Key /\ cleared \subseteq Key

\* The queue and the spool hold one entry per identity, within their bounds.
BoundInv ==
  /\ IsFiniteSet(pending) /\ Cardinality(pending) <= Capacity
  /\ IsFiniteSet(spool) /\ Cardinality(spool) <= MaxRecords
  /\ \A queue \in {pending, spool} : \A x, y \in queue : Same(x, y) => x = y

\* What a process that is not serving keeps in memory, and what a reset has
\* left to visit.
ModeInv ==
  /\ mode \in {"down", "starting"} =>
       calls = {} /\ pending = {} /\ batch = {} /\ replay = {} /\ resetting = {} /\ ~due
  /\ mode = "starting" => reload # "idle"
  /\ mode \in {"down", "stopping"} => reload = "idle"
  /\ mode = "stopping" => resetting = {}
  /\ reload # "restoring" => loading = {}
  /\ mode = "down" \/ (mode = "starting" /\ reload = "installed") =>
       gate = [k \in Key |-> NoHealth(0)]
  /\ ~due => resetting = {}
  /\ \A x \in resetting : x.invalidOnly => RowOf[x.key] \in ModelRows

GateInv ==
  \A k \in Key :
    /\ gate[k].known => gate[k].gen = gen[k]
    /\ ~gate[k].known => gate[k] = NoHealth(0)

\* Attempts are times that have passed, generations were installed once, and
\* an identity and a time determine the state.
CopyInv ==
  /\ \A x \in Copies : x.state.attempt <= now /\ x.state.gen <= gen[x.key]
  /\ \A x, y \in Copies :
       Same(x, y) /\ x.state.attempt = y.state.attempt /\ x.state.attempt # 0 =>
         x.state = y.state
  /\ \A x \in Messages : x.state.known

\* A row belongs to its keys, and is stamped with its attempt or, when that is
\* zero, no later than now.
RowInv ==
  \A x \in loading \cup {rows[r] : r \in Row} :
    /\ x.observed <= 2 * now + 1
    /\ x.state.attempt # 0 => RowOf[x.key] \in Timed /\ x.observed = 2 * x.state.attempt
    /\ ~x.state.known => x.observed = 0

RowKeyInv == \A r \in Row : RowOf[rows[r].key] = r

(***************************************************************************)
(* Types.                                                                  *)
(***************************************************************************)
\* The empty states and the observation of an outcome are breaker states.
LEMMA StateTypes ==
  /\ NoHealth(0) \in Health
  /\ \A g \in Nat : Neutral(g) \in Health
  /\ \A state \in Health : [state EXCEPT !.attempt = 0] \in Health
<1>1. 0 \in Nat /\ (\A g \in Nat : Neutral(g) \in Health) /\ NoHealth(0) \in Health
  BY NeutralTypes DEF Health
<1>2. \A state \in Health : [state EXCEPT !.attempt = 0] \in Health
  BY DEF Health, RouteHealth
<1> QED
  BY <1>1, <1>2

\* What Observe stores at a key: a known state of the installed generation,
\* stamped with the new time.
LEMMA ObserveState ==
  ASSUME TypeInv, GateInv, NEW k \in Key, NEW outcome \in Outcomes[k]
  PROVE  LET after == AfterOutcome(gate[k], gen[k], outcome, now + 1)
         IN /\ after \in Health
            /\ after.known /\ after.gen = gen[k] /\ after.attempt = now + 1
<1>1. outcome \in OutcomeType
  BY PersistenceAssumption
<1>2. gate[k] \in RouteHealth(Nat) /\ gen[k] \in Nat /\ now + 1 \in Nat
  BY DEF TypeInv, Health
<1>3. gate[k].until # 0 => gate[k].known /\ gate[k].gen = gen[k]
  BY DEF GateInv, NoHealth
<1>5. AfterOutcome(gate[k], gen[k], outcome, now + 1) \in RouteHealth(Nat)
  BY <1>1, <1>2, AfterOutcomeType
<1> DEFINE after == AfterOutcome(gate[k], gen[k], outcome, now + 1)
<1>6. after.known /\ after.gen = gen[k] /\ after.attempt = now + 1
  BY <1>1, <1>2, <1>3, AfterOutcomeFacts
<1> QED
  BY <1>5, <1>6 DEF Health

\* The row a write leaves and the record a failed write leaves are typed.
LEMMA RowImageType ==
  ASSUME TypeInv, NEW x \in Observations
  PROVE  ObservedAt(x) \in Nat /\ RowImage(x) \in RowImages
<1>1. x.key \in Key /\ x.state \in Health /\ x.state.attempt \in Nat
  BY DEF Observations, Health, RouteHealth
<1>2. ObservedAt(x) \in Nat
  BY <1>1 DEF ObservedAt, TypeInv
<1>3. (IF RowOf[x.key] \in Timed THEN x.state ELSE [x.state EXCEPT !.attempt = 0]) \in Health
  BY <1>1, StateTypes
<1> QED
  BY <1>1, <1>2, <1>3 DEF RowImage, RowImages

LEMMA DeferredType ==
  ASSUME TypeInv, NEW x \in Observations
  PROVE  DeferredRecord(x) \in Records
<1> DEFINE prior == {r \in spool : Same(r, x)}
           old   == CHOOSE r \in prior : TRUE
           at    == DeferredAt(x)
           stuck == \E r \in prior : r.dead /\ at <= r.at
           again == \E r \in prior : r.at = at
           attempts == IF stuck THEN old.attempts ELSE IF again THEN old.attempts + 1 ELSE 1
<1>1. x.key \in Key /\ x.state \in Health
  BY DEF Observations
<1>2. ObservedAt(x) \in Nat
  BY RowImageType
<1>3. at \in Nat
  <2>1. CASE x.state.attempt = 0 /\ \E r \in spool : Same(r, x)
    <3>1. (CHOOSE r \in spool : Same(r, x)) \in spool
      BY <2>1
    <3> QED
      BY <2>1, <3>1 DEF DeferredAt, TypeInv, Records
  <2> QED
    BY <1>2, <2>1 DEF DeferredAt
<1>4. prior # {} => old \in Records
  BY DEF TypeInv
<1>5. attempts \in Nat
  BY <1>4 DEF Records
<1>6. (stuck \/ attempts >= MaxAttempts) \in BOOLEAN
  BY DEF Records
<1>7. DeferredRecord(x) = [key |-> x.key, state |-> x.state, at |-> at,
                           attempts |-> attempts, dead |-> stuck \/ attempts >= MaxAttempts]
  BY DEF DeferredRecord
<1> HIDE DEF at, stuck, attempts
<1> QED
  BY <1>1, <1>3, <1>5, <1>6, <1>7 DEF Records

\* Every step keeps the types.
LEMMA TypeStep ==
  ASSUME TypeInv, GateInv, [Next]_vars
  PROVE  TypeInv'
<1> USE DEF TypeInv, processVars, queueVars, diskVars, copyVars, historyVars, boundVars
<1>1. ASSUME NEW k \in Key, NEW outcome \in Outcomes[k], Observe(k, outcome)
      PROVE  TypeInv'
  <2> DEFINE state == AfterOutcome(gate[k], gen[k], outcome, now + 1)
  <2>1. state \in Health
    BY ObserveState
  <2>2. gate' = [gate EXCEPT ![k] = state] /\ calls' = calls \cup {Call(k, state, "request")}
    BY <1>1 DEF Observe
  <2> HIDE DEF state
  <2> QED
    BY <1>1, <2>1, <2>2 DEF Observe, Call, CallType
<1>2. ASSUME NEW c \in calls, Enqueue(c)
      PROVE  TypeInv'
  <2>1. Observation(c) \in Observations /\ c.key \in Key
    BY DEF CallType, Observation, Observations
  <2>2. Coalesced(c) \subseteq Observations
    BY <2>1 DEF Coalesced
  <2> QED
    BY <1>2, <2>1, <2>2 DEF Enqueue
<1>3. ASSUME TakeBatch
      PROVE  TypeInv'
  BY <1>3 DEF TakeBatch
<1>4. ASSUME NEW x \in batch, Write(x)
      PROVE  TypeInv'
  <2>1. RowImage(x) \in RowImages
    BY RowImageType
  <2>2. x.key \in Key /\ RowOf[x.key] \in Row
    BY PersistenceAssumption DEF Observations
  <2>3. rows' \in [Row -> RowImages]
    BY <1>4, <2>1, <2>2 DEF Write, PersistHealthState
  <2>4. spool' \subseteq Records /\ outages' \in Nat
    BY <1>4 DEF Write, AckSpoolRecord, Acknowledged
  <2> QED
    BY <1>4, <2>3, <2>4 DEF Write
<1>5. ASSUME NEW x \in batch, WriteFails(x)
      PROVE  TypeInv'
  <2>1. DeferredRecord(x) \in Records
    BY DeferredType
  <2>2. x.key \in Key
    BY DEF Observations
  <2>3. spool' \subseteq Records /\ outages' \in Nat /\ excused' \subseteq Key
    BY <1>5, <2>1, <2>2 DEF WriteFails, Acknowledged
  <2> QED
    BY <1>5, <2>3 DEF WriteFails
<1>6. ASSUME TakeDue
      PROVE  TypeInv'
  BY <1>6 DEF TakeDue
<1>7. ASSUME NEW r \in replay, ReplayRecord(r)
      PROVE  TypeInv'
  <2>1. r.key \in Key /\ r.state \in Health
    BY DEF Records
  <2>2. Restored(r.key, r.state) \in Health
    BY <2>1 DEF Restored
  <2>3. CASE AcceptsGeneration(r.key, r.state)
    BY <1>7, <2>1, <2>2, <2>3 DEF ReplayRecord, Call, CallType
  <2>4. CASE ~AcceptsGeneration(r.key, r.state)
    BY <1>7, <2>4 DEF ReplayRecord, AckSpoolRecord, Acknowledged
  <2> QED
    BY <2>3, <2>4
<1>8. ASSUME RequeueDeadLetters
      PROVE  TypeInv'
  <2>1. \A r \in Records : [r EXCEPT !.dead = FALSE, !.attempts = 0] \in Records
    BY DEF Records
  <2>2. \A r \in spool :
          (IF r.dead THEN [r EXCEPT !.dead = FALSE, !.attempts = 0] ELSE r) \in Records
    BY <2>1
  <2>3. spool' = {IF r.dead THEN [r EXCEPT !.dead = FALSE, !.attempts = 0] ELSE r : r \in spool}
    BY <1>8 DEF RequeueDeadLetters
  <2>4. spool' \subseteq Records
    BY <2>2, <2>3
  <2>5. changes' = changes + 1
    BY <1>8 DEF RequeueDeadLetters
  <2>6. UNCHANGED <<outages, processVars, gate, queueVars, rows, copyVars, now, historyVars>>
    BY <1>8 DEF RequeueDeadLetters
  <2> QED
    BY <2>4, <2>5, <2>6
<1>9. \A r \in Row : EmptyRow(rows[r].key) \in RowImages
  BY StateTypes DEF EmptyRow, RowImages
<1>10. ASSUME ResetConnection
       PROVE  TypeInv'
  <2>1. rows' \in [Row -> RowImages]
    BY <1>9, <1>10 DEF ResetConnection
  <2>2. \A k \in Resettable :
          [key |-> k, invalidOnly |-> FALSE] \in [key: Key, invalidOnly: BOOLEAN]
    BY PersistenceAssumption
  <2>3. resetting' \subseteq [key: Key, invalidOnly: BOOLEAN]
    BY <1>10, <2>2 DEF ResetConnection
  <2>4. due' = TRUE /\ changes' = changes + 1
    BY <1>10 DEF ResetConnection
  <2> QED
    BY <1>10, <2>1, <2>3, <2>4 DEF ResetConnection
<1>11. ASSUME NEW row \in Row, ClearInvalidModel(row)
       PROVE  TypeInv'
  <2>1. rows' \in [Row -> RowImages]
    BY <1>9, <1>11 DEF ClearInvalidModel
  <2>2. \A k \in Key : [key |-> k, invalidOnly |-> TRUE] \in [key: Key, invalidOnly: BOOLEAN]
    OBVIOUS
  <2>3. resetting' \subseteq [key: Key, invalidOnly: BOOLEAN]
    BY <1>11, <2>2 DEF ClearInvalidModel
  <2>4. due' = TRUE /\ changes' = changes + 1
    BY <1>11 DEF ClearInvalidModel
  <2> QED
    BY <1>11, <2>1, <2>3, <2>4 DEF ClearInvalidModel
<1>12. ASSUME NEW x \in resetting, ResetKey(x)
       PROVE  TypeInv'
  <2>1. x.key \in Key /\ gen[x.key] \in Nat
    OBVIOUS
  <2>2. Neutral(gen[x.key]) \in Health
    BY <2>1, StateTypes
  <2>3. CASE x.invalidOnly /\ ~gate[x.key].invalid
    BY <1>12, <2>3 DEF ResetKey
  <2>4. CASE ~(x.invalidOnly /\ ~gate[x.key].invalid)
    BY <1>12, <2>1, <2>2, <2>4 DEF ResetKey, Call, CallType
  <2> QED
    BY <2>3, <2>4
<1>13. ASSUME NEW renewed \in {{}, Fenced, Key}, Reload(renewed)
       PROVE  TypeInv'
  <2>1. renewed \subseteq Key
    BY PersistenceAssumption
  <2>2. \A k \in Key : Neutral(gen[k] + 1) \in Health
    BY StateTypes
  <2>3. gen' \in [Key -> Nat]
    BY <1>13 DEF Reload
  <2>4. gate' \in [Key -> Health]
    BY <1>13, <2>2 DEF Reload
  <2>5. calls' \subseteq CallType
    BY <1>13, <2>1, <2>2 DEF Reload, Call, CallType
  <2>6. reload' = "installed" /\ due' \in BOOLEAN /\ (changes' = changes \/ changes' = changes + 1)
    BY <1>13 DEF Reload
  <2>7. excused' \subseteq Key /\ cleared' \subseteq Key
    BY <1>13 DEF Reload
  <2>8. UNCHANGED <<outages, mode, store, pending, batch, diskVars, replay, loading, resetting, now>>
    BY <1>13 DEF Reload
  <2> QED
    BY <2>3, <2>4, <2>5, <2>6, <2>7, <2>8
<1>14. ASSUME ReadRows
       PROVE  TypeInv'
  BY <1>14 DEF ReadRows
<1>15. ASSUME NEW row \in loading, RestoreRow(row)
       PROVE  TypeInv'
  <2>1. row.key \in Key /\ row.state \in Health
    BY DEF RowImages
  <2>2. Restored(row.key, row.state) \in Health
    BY <2>1 DEF Restored
  <2> QED
    BY <1>15, <2>1, <2>2 DEF RestoreRow
<1>16. ASSUME FinishReload
       PROVE  TypeInv'
  BY <1>16 DEF FinishReload
<1>17. ASSUME Lost, UNCHANGED <<store, gen, diskVars, now>>, changes' \in Nat, outages' \in Nat
       PROVE  TypeInv'
  BY <1>17, StateTypes DEF Lost
<1>18. ASSUME Crash \/ Exit
       PROVE  TypeInv'
  BY <1>17, <1>18 DEF Crash, Exit
<1>19. ASSUME Stop \/ Start \/ StoreToggles
       PROVE  TypeInv'
  BY <1>19 DEF Stop, Start, StoreToggles
<1>20. CASE UNCHANGED vars
  BY <1>20 DEF vars
<1> QED
  BY <1>1, <1>2, <1>3, <1>4, <1>5, <1>6, <1>7, <1>8, <1>10, <1>11, <1>12, <1>13, <1>14, <1>15,
     <1>16, <1>18, <1>19, <1>20 DEF Next

(***************************************************************************)
(* Bounds of the queue and the spool.                                      *)
(***************************************************************************)
\* Replacing a part of a finite set by one element keeps its bound if the part
\* was not empty or there was room.
LEMMA ReplacedBound ==
  ASSUME NEW S, IsFiniteSet(S), NEW max \in Nat, Cardinality(S) <= max,
         NEW D \in SUBSET S, NEW y, D # {} \/ Cardinality(S) < max
  PROVE  IsFiniteSet((S \ D) \cup {y}) /\ Cardinality((S \ D) \cup {y}) <= max
<1>1. IsFiniteSet(S \ D) /\ Cardinality(S \ D) <= Cardinality(S)
  BY FS_Subset
<1>2. /\ IsFiniteSet((S \ D) \cup {y})
      /\ Cardinality((S \ D) \cup {y}) <= Cardinality(S \ D) + 1
  BY <1>1, FS_AddElement, FS_CardinalityType
<1>3. Cardinality(S) \in Nat /\ Cardinality(S \ D) \in Nat
  BY <1>1, FS_CardinalityType
<1>4. Cardinality((S \ D) \cup {y}) \in Nat
  BY <1>2, FS_CardinalityType
<1>5. CASE D # {}
  <2>1. PICK d \in D : TRUE
    BY <1>5
  <2>2. IsFiniteSet(S \ {d}) /\ Cardinality(S \ {d}) = Cardinality(S) - 1
    BY <2>1, FS_RemoveElement
  <2>3. (S \ D) \subseteq (S \ {d})
    BY <2>1
  <2>4. Cardinality(S \ D) <= Cardinality(S \ {d})
    BY <2>2, <2>3, FS_Subset
  <2> QED
    BY <1>2, <1>3, <1>4, <2>2, <2>4
<1>6. CASE Cardinality(S) < max
  BY <1>1, <1>2, <1>3, <1>4, <1>6
<1> QED
  BY <1>2, <1>5, <1>6

\* A part of the spool, or of the queue, is within the bound.
LEMMA PartBound ==
  ASSUME NEW S, IsFiniteSet(S), NEW max \in Nat, Cardinality(S) <= max, NEW T \in SUBSET S
  PROVE  IsFiniteSet(T) /\ Cardinality(T) <= max
<1>1. IsFiniteSet(T) /\ Cardinality(T) <= Cardinality(S)
  BY FS_Subset
<1>2. Cardinality(S) \in Nat /\ Cardinality(T) \in Nat
  BY <1>1, FS_CardinalityType
<1> QED
  BY <1>1, <1>2

Unique(S) == \A x, y \in S : Same(x, y) => x = y

LEMMA BoundStep ==
  ASSUME TypeInv, BoundInv, [Next]_vars
  PROVE  BoundInv'
<1> DEFINE PendingBound == /\ IsFiniteSet(pending) /\ Cardinality(pending) <= Capacity
                           /\ Unique(pending)
           SpoolBound == /\ IsFiniteSet(spool) /\ Cardinality(spool) <= MaxRecords
                         /\ Unique(spool)
<1>1. PendingBound /\ SpoolBound
  BY DEF BoundInv, Unique
<1>2. Capacity \in Nat /\ MaxRecords \in Nat
  BY PersistenceAssumption
<1>3. SUFFICES PendingBound' /\ SpoolBound'
  BY DEF BoundInv, Unique
<1>4. ASSUME pending' \subseteq pending
      PROVE  PendingBound'
  <2>1. IsFiniteSet(pending') /\ Cardinality(pending') <= Capacity
    BY <1>1, <1>2, <1>4, PartBound
  <2> QED
    BY <1>1, <1>4, <2>1 DEF Unique, Same
<1>5. ASSUME spool' \subseteq spool
      PROVE  SpoolBound'
  <2>1. IsFiniteSet(spool') /\ Cardinality(spool') <= MaxRecords
    BY <1>1, <1>2, <1>5, PartBound
  <2> QED
    BY <1>1, <1>5, <2>1 DEF Unique, Same
<1>6. ASSUME NEW c \in calls, Enqueue(c)
      PROVE  PendingBound' /\ SpoolBound'
  <2> DEFINE D == {p \in pending : Same(p, c)}
  <2>1. SpoolBound'
    BY <1>5, <1>6 DEF Enqueue, diskVars
  <2>2. CASE pending' = pending
    BY <1>4, <2>1, <2>2
  <2>3. CASE pending' # pending
    <3>1. ~Refuses(c) /\ pending' = {p \in pending : ~Same(p, c)} \cup {Observation(c)}
      BY <1>6, <2>3 DEF Enqueue, Coalesced
    <3>2. pending' = (pending \ D) \cup {Observation(c)}
      BY <3>1
    <3>3. Cardinality(pending) \in Nat
      BY <1>1, FS_CardinalityType
    <3>4. D # {} \/ Cardinality(pending) < Capacity
      BY <1>2, <3>1, <3>3 DEF Refuses
    <3>5. D \in SUBSET pending
      OBVIOUS
    <3> HIDE DEF D
    <3>6. IsFiniteSet(pending') /\ Cardinality(pending') <= Capacity
      BY <1>1, <1>2, <3>2, <3>4, <3>5, ReplacedBound
    <3>7. Unique(pending')
      BY <1>1, <3>1 DEF Unique, Same, Observation
    <3> QED
      BY <2>1, <3>6, <3>7 DEF Unique, Same
  <2> QED
    BY <2>2, <2>3
<1>7. ASSUME NEW x \in batch, WriteFails(x)
      PROVE  PendingBound' /\ SpoolBound'
  <2> DEFINE D == {r \in spool : Same(r, x)}
  <2>1. PendingBound'
    BY <1>4, <1>7 DEF WriteFails
  <2>2. CASE spool' = spool
    BY <1>5, <2>1, <2>2
  <2>3. CASE spool' # spool
    <3>1. ~SpoolFull(x) /\ spool' = {r \in spool : ~Same(r, x)} \cup {DeferredRecord(x)}
      BY <1>7, <2>3 DEF WriteFails, Acknowledged
    <3>2. spool' = (spool \ D) \cup {DeferredRecord(x)}
      BY <3>1
    <3>3. Cardinality(spool) \in Nat
      BY <1>1, FS_CardinalityType
    <3>4. D # {} \/ Cardinality(spool) < MaxRecords
      BY <1>2, <3>1, <3>3 DEF SpoolFull
    <3>5. D \in SUBSET spool
      OBVIOUS
    <3> HIDE DEF D
    <3>6. IsFiniteSet(spool') /\ Cardinality(spool') <= MaxRecords
      BY <1>1, <1>2, <3>2, <3>4, <3>5, ReplacedBound
    <3>7. Same(DeferredRecord(x), x)
      BY DEF Same, DeferredRecord
    <3>8. Unique(spool')
      BY <1>1, <3>1, <3>7 DEF Unique, Same
    <3> QED
      BY <2>1, <3>6, <3>8 DEF Unique, Same
  <2> QED
    BY <2>2, <2>3
<1>8. ASSUME RequeueDeadLetters
      PROVE  PendingBound' /\ SpoolBound'
  <2> DEFINE f == [r \in spool |-> IF r.dead THEN [r EXCEPT !.dead = FALSE, !.attempts = 0] ELSE r]
  <2>1. spool' = {f[r] : r \in spool}
    BY <1>8 DEF RequeueDeadLetters
  <2>2. \A r \in spool : f[r].key = r.key /\ f[r].state = r.state
    BY DEF TypeInv, Records
  <2>3. f \in Surjection(spool, spool')
    BY <2>1 DEF Surjection
  <2> HIDE DEF f
  <2>4. IsFiniteSet(spool') /\ Cardinality(spool') <= Cardinality(spool)
    BY <1>1, <2>3, FS_Surjection
  <2>5. Cardinality(spool') <= MaxRecords
    BY <1>1, <1>2, <2>4, FS_CardinalityType
  <2>6. Unique(spool')
    BY <1>1, <2>1, <2>2 DEF Unique, Same
  <2>7. PendingBound'
    BY <1>4, <1>8 DEF RequeueDeadLetters, queueVars
  <2> QED
    BY <2>4, <2>5, <2>6, <2>7 DEF Unique, Same
<1>9. ASSUME pending' \subseteq pending, spool' \subseteq spool
      PROVE  PendingBound' /\ SpoolBound'
  BY <1>4, <1>5, <1>9
<1> USE DEF queueVars, diskVars
<1>10. CASE \E x \in batch : Write(x)
  BY <1>9, <1>10 DEF Write, AckSpoolRecord, Acknowledged
<1>11. CASE \E r \in replay : ReplayRecord(r)
  BY <1>9, <1>11 DEF ReplayRecord, AckSpoolRecord, Acknowledged
<1>12. CASE \E k \in Key : \E outcome \in Outcomes[k] : Observe(k, outcome)
  BY <1>9, <1>12 DEF Observe
<1>13. CASE TakeBatch \/ TakeDue
  BY <1>9, <1>13 DEF TakeBatch, TakeDue
<1>14. CASE ResetConnection \/ \E row \in Row : ClearInvalidModel(row)
  BY <1>9, <1>14 DEF ResetConnection, ClearInvalidModel
<1>15. CASE \E x \in resetting : ResetKey(x)
  BY <1>9, <1>15 DEF ResetKey
<1>16. CASE \E renewed \in {{}, Fenced, Key} : Reload(renewed)
  BY <1>9, <1>16 DEF Reload
<1>17. CASE ReadRows \/ (\E row \in loading : RestoreRow(row)) \/ FinishReload
  BY <1>9, <1>17 DEF ReadRows, RestoreRow, FinishReload
<1>18. CASE Crash \/ Exit
  BY <1>9, <1>18 DEF Crash, Exit, Lost
<1>19. CASE Stop \/ Start \/ StoreToggles
  BY <1>9, <1>19 DEF Stop, Start, StoreToggles
<1>20. CASE UNCHANGED vars
  BY <1>9, <1>20 DEF vars
<1> QED
  BY <1>6, <1>7, <1>8, <1>10, <1>11, <1>12, <1>13, <1>14, <1>15, <1>16, <1>17, <1>18, <1>19,
     <1>20 DEF Next

(***************************************************************************)
(* The process and the gate.                                               *)
(***************************************************************************)
LEMMA ModeStep ==
  ASSUME TypeInv, ModeInv, [Next]_vars
  PROVE  ModeInv'
<1> USE DEF ModeInv, processVars, queueVars, diskVars, copyVars, historyVars, boundVars
<1>1. CASE \E k \in Key : \E outcome \in Outcomes[k] : Observe(k, outcome)
  BY <1>1 DEF Observe
<1>2. CASE \E c \in calls : Enqueue(c)
  BY <1>2 DEF Enqueue
<1>3. CASE TakeBatch
  BY <1>3 DEF TakeBatch
<1>4. CASE \E x \in batch : Write(x) \/ WriteFails(x)
  BY <1>4 DEF Write, WriteFails
<1>5. CASE TakeDue
  BY <1>5 DEF TakeDue
<1>6. CASE \E r \in replay : ReplayRecord(r)
  BY <1>6 DEF ReplayRecord
<1>7. CASE RequeueDeadLetters
  BY <1>7 DEF RequeueDeadLetters
<1>8. CASE ResetConnection \/ \E row \in Row : ClearInvalidModel(row)
  BY <1>8 DEF ResetConnection, ClearInvalidModel
<1>9. CASE \E x \in resetting : ResetKey(x)
  BY <1>9 DEF ResetKey
<1>10. CASE \E renewed \in {{}, Fenced, Key} : Reload(renewed)
  BY <1>10 DEF Reload
<1>11. CASE ReadRows \/ (\E row \in loading : RestoreRow(row)) \/ FinishReload
  BY <1>11 DEF ReadRows, RestoreRow, FinishReload, TypeInv
<1>12. CASE Crash \/ Exit
  BY <1>12 DEF Crash, Exit, Lost
<1>13. CASE Stop \/ Start \/ StoreToggles
  BY <1>13 DEF Stop, Start, StoreToggles
<1>14. CASE UNCHANGED vars
  BY <1>14 DEF vars
<1> QED
  BY <1>1, <1>2, <1>3, <1>4, <1>5, <1>6, <1>7, <1>8, <1>9, <1>10, <1>11, <1>12, <1>13, <1>14 DEF Next

\* A copy that the restore or a replay puts into the gate has the installed
\* generation; everything else the gate stores is made for it.
LEMMA GateStep ==
  ASSUME TypeInv, GateInv, CopyInv, [Next]_vars
  PROVE  GateInv'
<1> USE DEF GateInv, processVars, queueVars, diskVars, copyVars, historyVars, boundVars
<1>1. ASSUME NEW k \in Key, NEW outcome \in Outcomes[k], Observe(k, outcome)
      PROVE  GateInv'
  <2> DEFINE state == AfterOutcome(gate[k], gen[k], outcome, now + 1)
  <2>1. state.known /\ state.gen = gen[k]
    BY ObserveState
  <2>2. gate' = [gate EXCEPT ![k] = state] /\ gen' = gen
    BY <1>1 DEF Observe
  <2> HIDE DEF state
  <2> QED
    BY <2>1, <2>2 DEF TypeInv
<1>2. ASSUME NEW x, x.key \in Key,
             gate' = [gate EXCEPT ![x.key] = Restored(x.key, x.state)], gen' = gen, x.state.known
      PROVE  GateInv'
  <2>1. Restored(x.key, x.state) = gate[x.key] \/
        (Restored(x.key, x.state) = x.state /\ x.state.gen = gen[x.key])
    BY DEF Restored, AcceptsGeneration
  <2> QED
    BY <1>2, <2>1 DEF TypeInv
<1>3. ASSUME NEW r \in replay, ReplayRecord(r)
      PROVE  GateInv'
  <2>1. r.key \in Key /\ r.state.known
    BY DEF TypeInv, Records, CopyInv, Messages
  <2>2. CASE AcceptsGeneration(r.key, r.state)
    BY <1>2, <1>3, <2>1, <2>2 DEF ReplayRecord
  <2>3. CASE ~AcceptsGeneration(r.key, r.state)
    BY <1>3, <2>3 DEF ReplayRecord
  <2> QED
    BY <2>2, <2>3
<1>4. ASSUME NEW row \in loading, RestoreRow(row)
      PROVE  GateInv'
  <2>1. row.key \in Key
    BY DEF TypeInv, RowImages
  <2>2. CASE Restorable(row)
    BY <1>2, <1>4, <2>1, <2>2 DEF RestoreRow, Restorable
  <2>3. CASE ~Restorable(row)
    BY <1>4, <2>3 DEF RestoreRow
  <2> QED
    BY <2>2, <2>3
<1>5. ASSUME NEW x \in resetting, ResetKey(x)
      PROVE  GateInv'
  <2>1. CASE x.invalidOnly /\ ~gate[x.key].invalid
    BY <1>5, <2>1 DEF ResetKey
  <2>2. CASE ~(x.invalidOnly /\ ~gate[x.key].invalid)
    <3>1. gate' = [gate EXCEPT ![x.key] = Neutral(gen[x.key])] /\ gen' = gen
      BY <1>5, <2>2 DEF ResetKey
    <3>2. Neutral(gen[x.key]).known /\ Neutral(gen[x.key]).gen = gen[x.key]
      BY DEF Neutral, NoHealth
    <3> QED
      BY <3>1, <3>2 DEF TypeInv
  <2> QED
    BY <2>1, <2>2
<1>6. ASSUME NEW renewed \in {{}, Fenced, Key}, Reload(renewed)
      PROVE  GateInv'
  <2>1. gen' = [k \in Key |-> IF k \in renewed THEN gen[k] + 1 ELSE gen[k]]
    BY <1>6 DEF Reload
  <2>2. gate' = [k \in Key |-> IF k \in {j \in renewed : gate[j].known}
                               THEN Neutral(gen[k] + 1) ELSE gate[k]]
    BY <1>6 DEF Reload
  <2>3. \A k \in Key : Neutral(gen[k] + 1).known /\ Neutral(gen[k] + 1).gen = gen[k] + 1
    BY DEF Neutral, NoHealth
  <2> QED
    BY <2>1, <2>2, <2>3
<1>7. CASE Crash \/ Exit
  <2>1. gate' = [k \in Key |-> NoHealth(0)]
    BY <1>7 DEF Crash, Exit, Lost
  <2>2. ~NoHealth(0).known
    BY DEF NoHealth
  <2> QED
    BY <2>1, <2>2
<1>8. ASSUME UNCHANGED <<gate, gen>>
      PROVE  GateInv'
  BY <1>8
<1>9. CASE (\E c \in calls : Enqueue(c)) \/ TakeBatch \/ TakeDue
  BY <1>8, <1>9 DEF Enqueue, TakeBatch, TakeDue
<1>10. CASE \E x \in batch : Write(x) \/ WriteFails(x)
  BY <1>8, <1>10 DEF Write, WriteFails
<1>11. CASE RequeueDeadLetters \/ ResetConnection \/ \E row \in Row : ClearInvalidModel(row)
  BY <1>8, <1>11 DEF RequeueDeadLetters, ResetConnection, ClearInvalidModel
<1>12. CASE ReadRows \/ FinishReload \/ Stop \/ Start \/ StoreToggles
  BY <1>8, <1>12 DEF ReadRows, FinishReload, Stop, Start, StoreToggles
<1>13. CASE UNCHANGED vars
  BY <1>8, <1>13 DEF vars
<1> QED
  BY <1>1, <1>3, <1>4, <1>5, <1>6, <1>7, <1>9, <1>10, <1>11, <1>12, <1>13 DEF Next

(***************************************************************************)
(* Copies. Only an observation makes a state with a new time; every other  *)
(* step moves states about, or makes a state without a time.               *)
(***************************************************************************)
Inherited(k, s) ==
  \/ \E y \in Copies : y.key = k /\ y.state = s
  \/ s.attempt = 0 /\ s.gen <= gen'[k]

\* The clock never goes back, and neither do generations.
LEMMA ClockStep ==
  ASSUME TypeInv, [Next]_vars
  PROVE  now' >= now /\ \A k \in Key : gen'[k] >= gen[k]
<1> USE DEF TypeInv, processVars, queueVars, diskVars, copyVars, historyVars, boundVars
<1>1. CASE \E k \in Key : \E outcome \in Outcomes[k] : Observe(k, outcome)
  BY <1>1 DEF Observe
<1>2. CASE \E renewed \in {{}, Fenced, Key} : Reload(renewed)
  <2>1. PICK renewed \in {{}, Fenced, Key} :
          gen' = [k \in Key |-> IF k \in renewed THEN gen[k] + 1 ELSE gen[k]] /\ now' = now
    BY <1>2 DEF Reload
  <2>2. \A k \in Key : gen'[k] = gen[k] + 1 \/ gen'[k] = gen[k]
    BY <2>1
  <2> QED
    BY <2>1, <2>2
<1>3. ASSUME UNCHANGED <<now, gen>>
      PROVE  now' >= now /\ \A k \in Key : gen'[k] >= gen[k]
  BY <1>3
<1>4. CASE (\E c \in calls : Enqueue(c)) \/ TakeBatch \/ TakeDue
  BY <1>3, <1>4 DEF Enqueue, TakeBatch, TakeDue
<1>5. CASE \E x \in batch : Write(x) \/ WriteFails(x)
  BY <1>3, <1>5 DEF Write, WriteFails
<1>6. CASE \E r \in replay : ReplayRecord(r)
  BY <1>3, <1>6 DEF ReplayRecord
<1>7. CASE RequeueDeadLetters \/ ResetConnection \/ \E row \in Row : ClearInvalidModel(row)
  BY <1>3, <1>7 DEF RequeueDeadLetters, ResetConnection, ClearInvalidModel
<1>8. CASE \E x \in resetting : ResetKey(x)
  BY <1>3, <1>8 DEF ResetKey
<1>9. CASE ReadRows \/ (\E row \in loading : RestoreRow(row)) \/ FinishReload
  BY <1>3, <1>9 DEF ReadRows, RestoreRow, FinishReload
<1>10. CASE Crash \/ Exit \/ Stop \/ Start \/ StoreToggles
  BY <1>3, <1>10 DEF Crash, Exit, Stop, Start, StoreToggles
<1>11. CASE UNCHANGED vars
  BY <1>3, <1>11 DEF vars
<1> QED
  BY <1>1, <1>2, <1>4, <1>5, <1>6, <1>7, <1>8, <1>9, <1>10, <1>11 DEF Next

\* Retrying dead letters changes neither their keys nor their states.
LEMMA RequeueKeeps ==
  ASSUME TypeInv, RequeueDeadLetters
  PROVE  \A x \in spool' : \E r \in spool : x.key = r.key /\ x.state = r.state
<1>1. spool' = {IF r.dead THEN [r EXCEPT !.dead = FALSE, !.attempts = 0] ELSE r : r \in spool}
  BY DEF RequeueDeadLetters
<1>2. \A r \in Records : [r EXCEPT !.dead = FALSE, !.attempts = 0].key = r.key
                         /\ [r EXCEPT !.dead = FALSE, !.attempts = 0].state = r.state
  BY DEF Records
<1>3. ASSUME NEW x \in spool'
      PROVE  \E r \in spool : x.key = r.key /\ x.state = r.state
  <2>1. PICK r \in spool : x = IF r.dead THEN [r EXCEPT !.dead = FALSE, !.attempts = 0] ELSE r
    BY <1>1
  <2>2. r \in Records
    BY DEF TypeInv
  <2> QED
    BY <1>2, <2>1, <2>2
<1> QED
  BY <1>3

LEMMA CopiesStep ==
  ASSUME TypeInv, GateInv, CopyInv, [Next]_vars,
         \A k \in Key : \A outcome \in Outcomes[k] : ~Observe(k, outcome)
  PROVE  \A x \in Copies' : Inherited(x.key, x.state)
<1> USE DEF processVars, queueVars, diskVars, copyVars, historyVars, boundVars
<1> DEFINE Fine(S) == \A x \in S : Inherited(x.key, x.state)
           RowSet == {rows[r] : r \in Row}
           GateSet == {[key |-> k, state |-> gate[k]] : k \in Key}
<1>1. /\ Fine(calls) /\ Fine(pending) /\ Fine(batch) /\ Fine(spool) /\ Fine(replay)
      /\ Fine(loading) /\ Fine(RowSet) /\ Fine(GateSet)
  BY DEF Copies, Messages, Inherited
<1>2. SUFFICES /\ Fine(calls') /\ Fine(pending') /\ Fine(batch') /\ Fine(spool') /\ Fine(replay')
               /\ Fine(loading') /\ Fine(RowSet') /\ Fine(GateSet')
  BY DEF Copies, Messages
<1>3. \A k \in Key : gen'[k] >= gen[k]
  BY ClockStep
<1>4. \A k \in Key : \A s : s.attempt = 0 /\ s.gen <= gen'[k] => Inherited(k, s)
  BY DEF Inherited
<1>5. /\ \A k \in Key : Inherited(k, NoHealth(0)) /\ Inherited(k, Neutral(gen'[k]))
      /\ \A k \in Key : gen'[k] = gen[k] => Inherited(k, Neutral(gen[k]))
  <2>1. \A g : NoHealth(g).attempt = 0 /\ NoHealth(g).gen = g
    BY DEF NoHealth
  <2>2. \A g : Neutral(g).attempt = 0 /\ Neutral(g).gen = g
    BY <2>1 DEF Neutral, NoHealth
  <2>3. \A k \in Key : gen'[k] \in Nat
    BY TypeStep DEF TypeInv
  <2> QED
    BY <1>4, <2>1, <2>2, <2>3
<1>6. ASSUME NEW k \in Key, Inherited(k, gate'[k]),
             \A j \in Key \ {k} : gate'[j] = gate[j]
      PROVE  Fine(GateSet')
  BY <1>1, <1>6

<1>7. /\ \A k \in Key : Inherited(k, gate[k])
      /\ \A k \in Key, s \in Health : Inherited(k, s) => Inherited(k, Restored(k, s))
  <2>1. \A k \in Key : [key |-> k, state |-> gate[k]] \in GateSet
    OBVIOUS
  <2>2. \A k \in Key : Inherited(k, gate[k])
    BY <1>1, <2>1
  <2>3. \A k, s : Restored(k, s) = s \/ Restored(k, s) = gate[k]
    BY DEF Restored
  <2> QED
    BY <2>2, <2>3
<1>8. ASSUME NEW c \in calls, Enqueue(c)
      PROVE  Fine(pending')
  <2>1. Observation(c).key = c.key /\ Observation(c).state = c.state
    BY DEF Observation
  <2>2. Inherited(c.key, c.state)
    BY <1>1
  <2>3. pending' \subseteq pending \cup {Observation(c)}
    BY <1>8 DEF Enqueue, Coalesced
  <2> QED
    BY <1>1, <2>1, <2>2, <2>3
<1>9. CASE \E c \in calls : Enqueue(c)
  BY <1>1, <1>8, <1>9 DEF Enqueue
<1>10. CASE TakeBatch \/ TakeDue
  BY <1>1, <1>10 DEF TakeBatch, TakeDue
<1>11. ASSUME NEW x \in batch, Write(x)
       PROVE  Fine(RowSet') /\ Fine(spool')
  <2>1. x.key \in Key /\ x.state \in Health
    BY DEF TypeInv, Observations
  <2>2. RowImage(x).key = x.key
    BY DEF RowImage
  <2>3. Inherited(x.key, RowImage(x).state)
    <3>1. CASE RowOf[x.key] \in Timed
      BY <1>1, <3>1 DEF RowImage
    <3>2. CASE RowOf[x.key] \notin Timed
      <4>1. RowImage(x).state = [x.state EXCEPT !.attempt = 0]
        BY <3>2 DEF RowImage
      <4>2. RowImage(x).state.attempt = 0 /\ RowImage(x).state.gen = x.state.gen
        BY <2>1, <4>1 DEF Health, RouteHealth
      <4>3. x.state.gen \in Nat /\ gen[x.key] \in Nat /\ gen'[x.key] = gen[x.key]
        BY <1>11, <2>1 DEF Write, Health, RouteHealth, TypeInv
      <4>4. x.state.gen <= gen[x.key]
        BY DEF CopyInv, Copies, Messages
      <4> QED
        BY <1>4, <2>1, <4>2, <4>3, <4>4
    <3> QED
      BY <3>1, <3>2
  <2>4. \A r \in Row : rows'[r] = rows[r] \/ rows'[r] = RowImage(x)
    BY <1>11 DEF Write, PersistHealthState, TypeInv
  <2>5. spool' \subseteq spool
    BY <1>11 DEF Write, AckSpoolRecord, Acknowledged
  <2> QED
    BY <1>1, <2>2, <2>3, <2>4, <2>5
<1>12. CASE \E x \in batch : Write(x)
  BY <1>1, <1>11, <1>12 DEF Write
<1>13. ASSUME NEW x \in batch, WriteFails(x)
       PROVE  Fine(spool')
  <2>1. DeferredRecord(x).key = x.key /\ DeferredRecord(x).state = x.state
    BY DEF DeferredRecord
  <2>2. spool' \subseteq spool \cup {DeferredRecord(x)}
    BY <1>13 DEF WriteFails, Acknowledged
  <2> QED
    BY <1>1, <2>1, <2>2
<1>14. CASE \E x \in batch : WriteFails(x)
  BY <1>1, <1>13, <1>14 DEF WriteFails
<1>15. ASSUME NEW r \in replay, ReplayRecord(r)
       PROVE  Fine(calls') /\ Fine(GateSet') /\ Fine(spool')
  <2>1. r.key \in Key /\ r.state \in Health /\ Inherited(r.key, r.state)
    BY <1>1 DEF TypeInv, Records
  <2>2. Inherited(r.key, Restored(r.key, r.state))
    BY <1>7, <2>1
  <2>3. CASE AcceptsGeneration(r.key, r.state)
    <3>1. /\ gate' = [gate EXCEPT ![r.key] = Restored(r.key, r.state)]
          /\ calls' = calls \cup {Call(r.key, Restored(r.key, r.state), "replay")}
          /\ spool' = spool
      BY <1>15, <2>3 DEF ReplayRecord
    <3>2. gate'[r.key] = Restored(r.key, r.state) /\ \A j \in Key \ {r.key} : gate'[j] = gate[j]
      BY <2>1, <3>1 DEF TypeInv
    <3>3. Fine(GateSet')
      BY <1>6, <2>1, <2>2, <3>2
    <3> QED
      BY <1>1, <2>2, <3>1, <3>3 DEF Call
  <2>4. CASE ~AcceptsGeneration(r.key, r.state)
    BY <1>1, <1>15, <2>4 DEF ReplayRecord, AckSpoolRecord, Acknowledged
  <2> QED
    BY <2>3, <2>4
<1>16. CASE \E r \in replay : ReplayRecord(r)
  BY <1>1, <1>15, <1>16 DEF ReplayRecord
<1>17. CASE RequeueDeadLetters
  <2>1. \A x \in spool' : \E r \in spool : x.key = r.key /\ x.state = r.state
    BY <1>17, RequeueKeeps
  <2>2. Fine(spool')
    BY <1>1, <2>1
  <2> QED
    BY <1>1, <1>17, <2>2 DEF RequeueDeadLetters
<1>18. CASE ResetConnection \/ \E row \in Row : ClearInvalidModel(row)
  <2>1. \A r \in Row : rows'[r] = rows[r] \/ rows'[r] = EmptyRow(rows[r].key)
    BY <1>18 DEF ResetConnection, ClearInvalidModel, TypeInv
  <2>2. \A r \in Row : rows[r].key \in Key
    BY DEF TypeInv, RowImages
  <2>3. \A k : EmptyRow(k).key = k /\ EmptyRow(k).state = NoHealth(0)
    BY DEF EmptyRow
  <2>4. Fine(RowSet')
    BY <1>1, <1>5, <2>1, <2>2, <2>3
  <2> QED
    BY <1>1, <1>18, <2>4 DEF ResetConnection, ClearInvalidModel
<1>19. ASSUME NEW x \in resetting, ResetKey(x)
       PROVE  Fine(calls') /\ Fine(GateSet')
  <2>1. x.key \in Key
    BY DEF TypeInv
  <2>2. gen' = gen
    BY <1>19 DEF ResetKey
  <2>3. Inherited(x.key, Neutral(gen[x.key]))
    BY <1>5, <2>1, <2>2
  <2>4. CASE x.invalidOnly /\ ~gate[x.key].invalid
    BY <1>1, <1>19, <2>4 DEF ResetKey
  <2>5. CASE ~(x.invalidOnly /\ ~gate[x.key].invalid)
    <3>1. /\ gate' = [gate EXCEPT ![x.key] = Neutral(gen[x.key])]
          /\ calls' = calls \cup {Call(x.key, Neutral(gen[x.key]), "reset")}
      BY <1>19, <2>5 DEF ResetKey
    <3>2. gate'[x.key] = Neutral(gen[x.key]) /\ \A j \in Key \ {x.key} : gate'[j] = gate[j]
      BY <2>1, <3>1 DEF TypeInv
    <3>3. Fine(GateSet')
      BY <1>6, <2>1, <2>3, <3>2
    <3> QED
      BY <1>1, <2>3, <3>1, <3>3 DEF Call
  <2> QED
    BY <2>4, <2>5
<1>20. CASE \E x \in resetting : ResetKey(x)
  BY <1>1, <1>19, <1>20 DEF ResetKey
<1>21. ASSUME NEW renewed \in {{}, Fenced, Key}, Reload(renewed)
       PROVE  Fine(calls') /\ Fine(GateSet')
  <2>1. renewed \subseteq Key
    BY PersistenceAssumption
  <2>2. \A k \in renewed : gen'[k] = gen[k] + 1
    BY <1>21, <2>1 DEF Reload
  <2>3. \A k \in renewed : Inherited(k, Neutral(gen[k] + 1))
    BY <1>5, <2>1, <2>2
  <2>4. gate' = [k \in Key |-> IF k \in {j \in renewed : gate[j].known}
                               THEN Neutral(gen[k] + 1) ELSE gate[k]]
    BY <1>21 DEF Reload
  <2>5. \A x \in calls' : x \in calls \/
          \E k \in renewed : x = Call(k, Neutral(gen[k] + 1), "reload")
    BY <1>21 DEF Reload
  <2>6. \A k \in Key : Inherited(k, gate'[k])
    BY <1>7, <2>3, <2>4
  <2> QED
    BY <1>1, <2>1, <2>3, <2>5, <2>6 DEF Call
<1>22. CASE \E renewed \in {{}, Fenced, Key} : Reload(renewed)
  BY <1>1, <1>21, <1>22 DEF Reload
<1>23. CASE ReadRows \/ FinishReload
  BY <1>1, <1>23 DEF ReadRows, FinishReload
<1>24. ASSUME NEW row \in loading, RestoreRow(row)
       PROVE  Fine(GateSet')
  <2>1. row.key \in Key /\ row.state \in Health /\ Inherited(row.key, row.state)
    BY <1>1 DEF TypeInv, RowImages
  <2>2. Inherited(row.key, Restored(row.key, row.state)) /\ Inherited(row.key, gate[row.key])
    BY <1>7, <2>1
  <2>3. Inherited(row.key, gate'[row.key]) /\ \A j \in Key \ {row.key} : gate'[j] = gate[j]
    BY <1>24, <2>1, <2>2 DEF RestoreRow, TypeInv
  <2> QED
    BY <1>6, <2>1, <2>3
<1>25. CASE \E row \in loading : RestoreRow(row)
  BY <1>1, <1>24, <1>25 DEF RestoreRow
<1>26. CASE Crash \/ Exit
  <2>1. gate' = [k \in Key |-> NoHealth(0)]
    BY <1>26 DEF Crash, Exit, Lost
  <2>2. Fine(GateSet')
    BY <1>5, <2>1
  <2> QED
    BY <1>1, <1>26, <2>2 DEF Crash, Exit, Lost
<1>27. CASE Stop \/ Start \/ StoreToggles
  BY <1>1, <1>27 DEF Stop, Start, StoreToggles
<1>28. CASE UNCHANGED vars
  BY <1>1, <1>28 DEF vars
<1> QED
  BY <1>9, <1>10, <1>12, <1>14, <1>16, <1>17, <1>18, <1>20, <1>22, <1>23, <1>25, <1>26, <1>27,
     <1>28 DEF Next

\* Keys and states of copies are typed.
LEMMA CopyTypes ==
  ASSUME TypeInv
  PROVE  \A x \in Copies : /\ x.key \in Key
                           /\ x.state \in Health
                           /\ x.state.attempt \in Nat /\ x.state.gen \in Nat
<1>1. \A x \in Copies : x.key \in Key /\ x.state \in Health
  <2>1. \A x \in calls \cup pending \cup batch : x.key \in Key /\ x.state \in Health
    BY DEF TypeInv, CallType, Observations
  <2>2. \A x \in spool \cup replay : x.key \in Key /\ x.state \in Health
    BY DEF TypeInv, Records
  <2>3. \A x \in loading \cup {rows[r] : r \in Row} : x.key \in Key /\ x.state \in Health
    BY DEF TypeInv, RowImages
  <2>4. \A x \in {[key |-> k, state |-> gate[k]] : k \in Key} : x.key \in Key /\ x.state \in Health
    BY DEF TypeInv
  <2> QED
    BY <2>1, <2>2, <2>3, <2>4 DEF Copies, Messages
<1> QED
  BY <1>1 DEF Health, RouteHealth

\* What travels to the disk is the state of a known key.
LEMMA KnownStep ==
  ASSUME TypeInv, GateInv, \A x \in Messages : x.state.known, [Next]_vars
  PROVE  \A x \in Messages' : x.state.known
<1> USE DEF processVars, queueVars, diskVars, copyVars, historyVars, boundVars
<1> DEFINE Known(S) == \A x \in S : x.state.known
<1>1. Known(calls) /\ Known(pending) /\ Known(batch) /\ Known(spool) /\ Known(replay)
  BY DEF Messages
<1>2. SUFFICES Known(calls') /\ Known(pending') /\ Known(batch') /\ Known(spool') /\ Known(replay')
  BY DEF Messages
<1>3. \A g : Neutral(g).known
  BY DEF Neutral, NoHealth
<1>4. \A k, s, by : Call(k, s, by).state = s
  BY DEF Call
<1>5. ASSUME NEW k \in Key, NEW outcome \in Outcomes[k], Observe(k, outcome)
      PROVE  Known(calls')
  <2> DEFINE state == AfterOutcome(gate[k], gen[k], outcome, now + 1)
  <2>1. state.known
    BY ObserveState
  <2>2. calls' = calls \cup {Call(k, state, "request")}
    BY <1>5 DEF Observe
  <2> HIDE DEF state
  <2> QED
    BY <1>1, <1>4, <2>1, <2>2
<1>6. CASE \E k \in Key : \E outcome \in Outcomes[k] : Observe(k, outcome)
  BY <1>1, <1>5, <1>6 DEF Observe
<1>7. CASE \E c \in calls : Enqueue(c)
  BY <1>1, <1>7 DEF Enqueue, Coalesced, Observation
<1>8. CASE TakeBatch \/ TakeDue
  BY <1>1, <1>8 DEF TakeBatch, TakeDue
<1>9. CASE \E x \in batch : Write(x)
  BY <1>1, <1>9 DEF Write, AckSpoolRecord, Acknowledged
<1>10. ASSUME NEW x \in batch, WriteFails(x)
       PROVE  Known(spool')
  <2>1. DeferredRecord(x).state.known
    BY <1>1 DEF DeferredRecord
  <2>2. spool' \subseteq spool \cup {DeferredRecord(x)}
    BY <1>10 DEF WriteFails, Acknowledged
  <2> QED
    BY <1>1, <2>1, <2>2
<1>11. CASE \E x \in batch : WriteFails(x)
  BY <1>1, <1>10, <1>11 DEF WriteFails
<1>12. ASSUME NEW r \in replay, ReplayRecord(r)
       PROVE  Known(calls') /\ Known(spool')
  <2>1. r.state.known
    BY <1>1
  <2>2. CASE AcceptsGeneration(r.key, r.state)
    <3>1. Restored(r.key, r.state).known
      BY <2>1, <2>2 DEF Restored, RestoreAccepts
    <3> QED
      BY <1>1, <1>4, <1>12, <2>2, <3>1 DEF ReplayRecord
  <2>3. CASE ~AcceptsGeneration(r.key, r.state)
    BY <1>1, <1>12, <2>3 DEF ReplayRecord, AckSpoolRecord, Acknowledged
  <2> QED
    BY <2>2, <2>3
<1>13. CASE \E r \in replay : ReplayRecord(r)
  BY <1>1, <1>12, <1>13 DEF ReplayRecord
<1>14. CASE RequeueDeadLetters
  <2>1. \A x \in spool' : \E r \in spool : x.key = r.key /\ x.state = r.state
    BY <1>14, RequeueKeeps
  <2> QED
    BY <1>1, <1>14, <2>1 DEF RequeueDeadLetters
<1>15. CASE ResetConnection \/ \E row \in Row : ClearInvalidModel(row)
  BY <1>1, <1>15 DEF ResetConnection, ClearInvalidModel
<1>16. CASE \E x \in resetting : ResetKey(x)
  BY <1>1, <1>3, <1>4, <1>16 DEF ResetKey
<1>17. CASE \E renewed \in {{}, Fenced, Key} : Reload(renewed)
  BY <1>1, <1>3, <1>4, <1>17 DEF Reload
<1>18. CASE ReadRows \/ (\E row \in loading : RestoreRow(row)) \/ FinishReload
  BY <1>1, <1>18 DEF ReadRows, RestoreRow, FinishReload
<1>19. CASE Crash \/ Exit
  BY <1>1, <1>19 DEF Crash, Exit, Lost
<1>20. CASE Stop \/ Start \/ StoreToggles
  BY <1>1, <1>20 DEF Stop, Start, StoreToggles
<1>21. CASE UNCHANGED vars
  BY <1>1, <1>21 DEF vars
<1> QED
  BY <1>6, <1>7, <1>8, <1>9, <1>11, <1>13, <1>14, <1>15, <1>16, <1>17, <1>18, <1>19, <1>20,
     <1>21 DEF Next

LEMMA CopyStep ==
  ASSUME TypeInv, GateInv, CopyInv, [Next]_vars
  PROVE  CopyInv'
<1>1. now' >= now /\ now \in Nat /\ now' \in Nat
  BY ClockStep, TypeStep DEF TypeInv
<1>2. \A k \in Key : gen'[k] >= gen[k] /\ gen[k] \in Nat /\ gen'[k] \in Nat
  BY ClockStep, TypeStep DEF TypeInv
<1>3. \A x \in Copies : x.key \in Key /\ x.state.attempt \in Nat /\ x.state.gen \in Nat
  BY CopyTypes
<1>4. \A x \in Copies : x.state.attempt <= now /\ x.state.gen <= gen[x.key]
  BY DEF CopyInv
<1>5. \A x, y \in Copies :
        Same(x, y) /\ x.state.attempt = y.state.attempt /\ x.state.attempt # 0 =>
          x.state = y.state
  BY DEF CopyInv
<1>6. \A x \in Messages' : x.state.known
  BY KnownStep DEF CopyInv
<1>7. ASSUME NEW k \in Key, NEW outcome \in Outcomes[k], Observe(k, outcome)
      PROVE  CopyInv'
  <2> DEFINE state == AfterOutcome(gate[k], gen[k], outcome, now + 1)
  <2>1. state.gen = gen[k] /\ state.attempt = now + 1
    BY ObserveState
  <2>2. gate' = [gate EXCEPT ![k] = state] /\ calls' = calls \cup {Call(k, state, "request")}
    BY <1>7 DEF Observe
  <2> HIDE DEF state
  <2>3. now' = now + 1 /\ gen' = gen
    BY <1>7 DEF Observe, processVars
  <2>4. UNCHANGED <<pending, batch, spool, replay, loading, rows>>
    BY <1>7 DEF Observe, diskVars, copyVars
  <2>5. ASSUME NEW x \in Copies'
        PROVE  \/ \E y \in Copies : y.key = x.key /\ y.state = x.state
               \/ x.key = k /\ x.state = state
    <3>1. CASE x \in calls'
      BY <2>2, <3>1 DEF Copies, Messages, Call
    <3>2. CASE x \in pending \cup batch \cup spool \cup replay \cup loading \cup {rows[r] : r \in Row}
      BY <3>2 DEF Copies, Messages
    <3>3. CASE x \in {[key |-> j, state |-> gate'[j]] : j \in Key}
      <4>1. PICK j \in Key : x = [key |-> j, state |-> gate'[j]]
        BY <3>3
      <4>2. gate'[j] = IF j = k THEN state ELSE gate[j]
        BY <2>2 DEF TypeInv
      <4>3. [key |-> j, state |-> gate[j]] \in Copies
        BY DEF Copies
      <4> QED
        BY <4>1, <4>2, <4>3
    <3> QED
      BY <2>4, <3>1, <3>2, <3>3 DEF Copies, Messages
  <2>6. \A x \in Copies' : x.state.attempt <= now' /\ x.state.gen <= gen'[x.key]
    BY <1>1, <1>2, <1>3, <1>4, <2>1, <2>3, <2>5
  <2>7. \A x, y \in Copies' :
          Same(x, y) /\ x.state.attempt = y.state.attempt /\ x.state.attempt # 0 =>
            x.state = y.state
    <3> SUFFICES ASSUME NEW x \in Copies', NEW y \in Copies', Same(x, y),
                        x.state.attempt = y.state.attempt, x.state.attempt # 0
                 PROVE  x.state = y.state
      OBVIOUS
    <3>1. \A z \in Copies : z.state.attempt # now + 1
      BY <1>1, <1>3, <1>4
    <3> QED
      BY <1>5, <2>1, <2>5, <3>1 DEF Same
  <2> QED
    BY <1>6, <2>6, <2>7 DEF CopyInv, Same
<1>8. CASE \A k \in Key : \A outcome \in Outcomes[k] : ~Observe(k, outcome)
  <2>1. \A x \in Copies' :
          \/ \E y \in Copies : y.key = x.key /\ y.state = x.state
          \/ x.state.attempt = 0 /\ x.state.gen <= gen'[x.key]
    BY <1>8, CopiesStep DEF Inherited
  <2>2. \A x \in Copies' : x.state.attempt <= now' /\ x.state.gen <= gen'[x.key]
    BY <1>1, <1>2, <1>3, <1>4, <2>1
  <2>3. \A x, y \in Copies' :
          Same(x, y) /\ x.state.attempt = y.state.attempt /\ x.state.attempt # 0 =>
            x.state = y.state
    BY <1>5, <2>1 DEF Same
  <2> QED
    BY <1>6, <2>2, <2>3 DEF CopyInv, Same
<1> QED
  BY <1>7, <1>8

(***************************************************************************)
(* Rows.                                                                   *)
(***************************************************************************)
\* What a write stores: known, stamped, and without an attempt in a row that
\* keeps none.
LEMMA RowImageFacts ==
  ASSUME TypeInv, CopyInv, NEW x \in batch
  PROVE  /\ x.key \in Key /\ RowOf[x.key] \in Row
         /\ RowImage(x).key = x.key
         /\ RowImage(x).observed = ObservedAt(x)
         /\ RowImage(x).state.known
         /\ RowImage(x).state.attempt # 0 =>
              RowOf[x.key] \in Timed /\ ObservedAt(x) = 2 * RowImage(x).state.attempt
         /\ ObservedAt(x) \in Nat /\ ObservedAt(x) <= 2 * now + 1
<1>1. x \in Observations /\ x.key \in Key /\ x.state \in Health
  BY DEF TypeInv, Observations
<1>2. x.state.known /\ x.state.attempt <= now
  BY DEF CopyInv, Copies, Messages
<1>3. RowOf[x.key] \in Row
  BY <1>1, PersistenceAssumption
<1>4. RowImage(x).key = x.key /\ RowImage(x).observed = ObservedAt(x)
  BY DEF RowImage
<1>5. ObservedAt(x) \in Nat
  BY <1>1, RowImageType
<1>6. x.state.attempt \in Nat /\ now \in Nat
  BY <1>1 DEF Health, RouteHealth, TypeInv
<1>7. ObservedAt(x) <= 2 * now + 1
  BY <1>2, <1>6 DEF ObservedAt
<1>8. CASE RowOf[x.key] \in Timed
  <2>1. RowImage(x).state = x.state
    BY <1>8 DEF RowImage
  <2> QED
    BY <1>1, <1>2, <1>3, <1>4, <1>5, <1>7, <1>8, <2>1 DEF ObservedAt
<1>9. CASE RowOf[x.key] \notin Timed
  <2>1. RowImage(x).state = [x.state EXCEPT !.attempt = 0]
    BY <1>9 DEF RowImage
  <2>2. RowImage(x).state.known = x.state.known /\ RowImage(x).state.attempt = 0
    BY <1>1, <2>1 DEF Health, RouteHealth
  <2> QED
    BY <1>1, <1>2, <1>3, <1>4, <1>5, <1>7, <2>2
<1> QED
  BY <1>8, <1>9

LEMMA RowStep ==
  ASSUME TypeInv, CopyInv, RowInv, RowKeyInv, [Next]_vars
  PROVE  RowInv' /\ RowKeyInv'
<1> USE DEF processVars, queueVars, diskVars, copyVars, historyVars, boundVars
<1> DEFINE Stamped(x, t) == /\ x.observed <= 2 * t + 1
                            /\ x.state.attempt # 0 =>
                                 RowOf[x.key] \in Timed /\ x.observed = 2 * x.state.attempt
                            /\ ~x.state.known => x.observed = 0
<1>1. /\ \A x \in loading : Stamped(x, now) /\ x.observed \in Nat
      /\ \A r \in Row : Stamped(rows[r], now) /\ rows[r].observed \in Nat
  BY DEF RowInv, TypeInv, RowImages
<1>2. now \in Nat
  BY DEF TypeInv
<1>3. ASSUME now' = now \/ now' = now + 1,
             \A x \in loading' : x \in loading \/ \E r \in Row : x = rows[r],
             \A r \in Row : rows'[r] = rows[r]
      PROVE  RowInv' /\ RowKeyInv'
  <2>1. \A x \in loading' : Stamped(x, now')
    BY <1>1, <1>2, <1>3
  <2>2. \A r \in Row : Stamped(rows'[r], now')
    BY <1>1, <1>2, <1>3
  <2> QED
    BY <1>3, <2>1, <2>2 DEF RowInv, RowKeyInv
<1>4. ASSUME NEW x \in batch, Write(x)
      PROVE  RowInv' /\ RowKeyInv'
  <2>1. \A r \in Row : rows'[r] = rows[r] \/ (r = RowOf[x.key] /\ rows'[r] = RowImage(x))
    BY <1>4 DEF Write, PersistHealthState, TypeInv
  <2>2. Stamped(RowImage(x), now) /\ RowImage(x).key = x.key
    BY RowImageFacts
  <2>3. now' = now /\ loading' = loading
    BY <1>4 DEF Write
  <2> HIDE DEF Stamped
  <2>4. \A r \in Row : Stamped(rows'[r], now)
    BY <1>1, <2>1, <2>2
  <2>5. RowKeyInv'
    BY <2>1, <2>2 DEF RowKeyInv
  <2> QED
    BY <1>1, <2>3, <2>4, <2>5 DEF RowInv, Stamped
<1>5. CASE ResetConnection \/ \E row \in Row : ClearInvalidModel(row)
  <2>1. \A r \in Row : rows'[r] = rows[r] \/ rows'[r] = EmptyRow(rows[r].key)
    BY <1>5 DEF ResetConnection, ClearInvalidModel, TypeInv
  <2>2. \A k : Stamped(EmptyRow(k), now) /\ EmptyRow(k).key = k
    BY <1>2 DEF EmptyRow, NoHealth
  <2>3. now' = now /\ loading' = loading
    BY <1>5 DEF ResetConnection, ClearInvalidModel
  <2> HIDE DEF Stamped
  <2>4. \A r \in Row : Stamped(rows'[r], now)
    BY <1>1, <2>1, <2>2
  <2>5. RowKeyInv'
    BY <2>1, <2>2 DEF RowKeyInv
  <2> QED
    BY <1>1, <2>3, <2>4, <2>5 DEF RowInv, Stamped
<1>6. CASE \E k \in Key : \E outcome \in Outcomes[k] : Observe(k, outcome)
  BY <1>3, <1>6 DEF Observe
<1>7. CASE (\E c \in calls : Enqueue(c)) \/ TakeBatch \/ TakeDue
  BY <1>3, <1>7 DEF Enqueue, TakeBatch, TakeDue
<1>8. CASE \E x \in batch : WriteFails(x)
  BY <1>3, <1>8 DEF WriteFails
<1>9. CASE \E r \in replay : ReplayRecord(r)
  BY <1>3, <1>9 DEF ReplayRecord
<1>10. CASE RequeueDeadLetters \/ \E x \in resetting : ResetKey(x)
  BY <1>3, <1>10 DEF RequeueDeadLetters, ResetKey
<1>11. CASE \E renewed \in {{}, Fenced, Key} : Reload(renewed)
  BY <1>3, <1>11 DEF Reload
<1>12. CASE ReadRows \/ (\E row \in loading : RestoreRow(row)) \/ FinishReload
  BY <1>3, <1>12 DEF ReadRows, RestoreRow, FinishReload
<1>13. CASE Crash \/ Exit
  BY <1>3, <1>13 DEF Crash, Exit, Lost
<1>14. CASE Stop \/ Start \/ StoreToggles
  BY <1>3, <1>14 DEF Stop, Start, StoreToggles
<1>15. CASE UNCHANGED vars
  BY <1>3, <1>15 DEF vars
<1> QED
  BY <1>4, <1>5, <1>6, <1>7, <1>8, <1>9, <1>10, <1>11, <1>12, <1>13, <1>14, <1>15 DEF Next

(***************************************************************************)
(* The invariant that holds for all keys.                                  *)
(***************************************************************************)
IInv ==
  /\ TypeInv
  /\ BoundInv
  /\ ModeInv
  /\ GateInv
  /\ CopyInv
  /\ RowInv
  /\ RowKeyInv

LEMMA InitIInv == Init => IInv
<1> SUFFICES ASSUME Init
             PROVE  IInv
  OBVIOUS
<1>1. \A r \in Row : (CHOOSE k \in Key : RowOf[k] = r) \in Key
                     /\ RowOf[CHOOSE k \in Key : RowOf[k] = r] = r
  BY PersistenceAssumption
<1>2. \A k \in Key : EmptyRow(k) \in RowImages /\ EmptyRow(k).key = k
  BY StateTypes DEF EmptyRow, RowImages
<1>3. rows = [r \in Row |-> EmptyRow(CHOOSE k \in Key : RowOf[k] = r)]
  BY DEF Init
<1>4. TypeInv
  <2>1. rows \in [Row -> RowImages]
    BY <1>1, <1>2, <1>3
  <2>2. gen \in [Key -> Nat] /\ gate \in [Key -> Health]
    BY StateTypes DEF Init
  <2> QED
    BY <2>1, <2>2 DEF Init, TypeInv
<1>5. BoundInv
  BY FS_EmptySet, PersistenceAssumption DEF Init, BoundInv
<1>6. ModeInv
  BY DEF Init, ModeInv
<1>7. GateInv
  BY DEF Init, GateInv, NoHealth
<1>8. CopyInv
  <2>1. \A x \in Copies : x.key \in Key /\ x.state = NoHealth(0)
    BY <1>1, <1>3 DEF Init, Copies, Messages, EmptyRow
  <2>2. NoHealth(0).attempt = 0 /\ NoHealth(0).gen = 0
    BY DEF NoHealth
  <2>3. \A k \in Key : gen[k] = 0
    BY DEF Init
  <2> QED
    BY <2>1, <2>2, <2>3 DEF Init, CopyInv, Messages
<1>9. RowInv /\ RowKeyInv
  <2>1. \A r \in Row : rows[r] = EmptyRow(CHOOSE k \in Key : RowOf[k] = r)
    BY <1>3
  <2>2. \A k : EmptyRow(k).state.attempt = 0 /\ EmptyRow(k).observed = 0 /\ EmptyRow(k).key = k
    BY DEF EmptyRow, NoHealth
  <2> QED
    BY <1>1, <2>1, <2>2 DEF Init, RowInv, RowKeyInv
<1> QED
  BY <1>4, <1>5, <1>6, <1>7, <1>8, <1>9 DEF IInv

LEMMA NextKeepsIInv == IInv /\ [Next]_vars => IInv'
<1> SUFFICES ASSUME IInv, [Next]_vars
             PROVE  IInv'
  OBVIOUS
<1> USE DEF IInv
<1>1. TypeInv'
  BY TypeStep
<1>2. BoundInv'
  BY BoundStep
<1>3. ModeInv'
  BY ModeStep
<1>4. GateInv'
  BY GateStep
<1>5. CopyInv'
  BY CopyStep
<1>6. RowInv' /\ RowKeyInv'
  BY RowStep
<1> QED
  BY <1>1, <1>2, <1>3, <1>4, <1>5, <1>6

\* The invariant holds of the queue, the writer, the spool, the store, resets,
\* reloads, crashes and restarts together.
THEOREM PersistenceInvariant == Spec => []IInv
<1>1. Init => IInv
  BY InitIInv
<1>2. IInv /\ [Next]_vars => IInv'
  BY NextKeepsIInv
<1> QED
  BY <1>1, <1>2, PTL DEF Spec

\* Types, and the queue and the spool within their capacities with one entry
\* per key and generation.
THEOREM PersistenceTypeCorrect == Spec => []TypeOK
<1>1. IInv => TypeOK
  BY DEF IInv, TypeInv, BoundInv, TypeOK, CallType, Observations, Observation
<1> QED
  BY <1>1, PersistenceInvariant, PTL

\* No entry of the gate comes from a generation other than the installed one,
\* whatever rows, records and copies of them a restore or a replay applies.
THEOREM RestoreCorrect == Spec => []RestoredIsCurrent
<1>1. IInv => RestoredIsCurrent
  BY DEF IInv, GateInv, RestoredIsCurrent
<1> QED
  BY <1>1, PersistenceInvariant, PTL

\* A timed row only goes forward in observation time, except where a reset
\* empties it: the upsert's condition, under any order of writes.
THEOREM RowsCorrect == Spec => TimedRowsNeverRegress
<1> DEFINE Forward == \A r \in Timed : rows'[r].observed >= rows[r].observed \/ ~rows'[r].state.known
<1>1. ASSUME IInv, [Next]_vars
      PROVE  [Forward]_vars
  <2> TypeInv /\ CopyInv
    BY <1>1 DEF IInv
  <2> USE DEF processVars, queueVars, diskVars, copyVars, historyVars, boundVars
  <2>1. Timed \subseteq Row
    BY PersistenceAssumption
  <2>2. \A r \in Row : rows[r].observed \in Nat
    BY DEF TypeInv, RowImages
  <2>3. ASSUME rows' = rows
        PROVE  Forward
    BY <2>1, <2>2, <2>3
  <2>4. ASSUME NEW x \in batch, Write(x)
        PROVE  Forward
    <3>1. RowImage(x).observed = ObservedAt(x) /\ ObservedAt(x) \in Nat
      BY RowImageFacts
    <3>2. \A r \in Row : rows'[r] = rows[r] \/
                         (r = RowOf[x.key] /\ rows'[r] = RowImage(x) /\ SaveAccepts(x))
      BY <2>4 DEF Write, PersistHealthState, TypeInv
    <3>3. \A r \in Timed : r = RowOf[x.key] /\ SaveAccepts(x) => ObservedAt(x) >= rows[r].observed
      BY DEF SaveAccepts
    <3> QED
      BY <2>1, <2>2, <3>1, <3>2, <3>3
  <2>5. CASE ResetConnection \/ \E row \in Row : ClearInvalidModel(row)
    <3>1. \A r \in Row : rows'[r] = rows[r] \/ rows'[r] = EmptyRow(rows[r].key)
      BY <2>5 DEF ResetConnection, ClearInvalidModel, TypeInv
    <3>2. \A k : ~EmptyRow(k).state.known
      BY DEF EmptyRow, NoHealth
    <3> QED
      BY <2>1, <2>2, <3>1, <3>2
  <2>6. CASE \E k \in Key : \E outcome \in Outcomes[k] : Observe(k, outcome)
    BY <2>3, <2>6 DEF Observe
  <2>7. CASE (\E c \in calls : Enqueue(c)) \/ TakeBatch \/ TakeDue
    BY <2>3, <2>7 DEF Enqueue, TakeBatch, TakeDue
  <2>8. CASE \E x \in batch : WriteFails(x)
    BY <2>3, <2>8 DEF WriteFails
  <2>9. CASE \E r \in replay : ReplayRecord(r)
    BY <2>3, <2>9 DEF ReplayRecord
  <2>10. CASE RequeueDeadLetters \/ \E x \in resetting : ResetKey(x)
    BY <2>3, <2>10 DEF RequeueDeadLetters, ResetKey
  <2>11. CASE \E renewed \in {{}, Fenced, Key} : Reload(renewed)
    BY <2>3, <2>11 DEF Reload
  <2>12. CASE ReadRows \/ (\E row \in loading : RestoreRow(row)) \/ FinishReload
    BY <2>3, <2>12 DEF ReadRows, RestoreRow, FinishReload
  <2>13. CASE Crash \/ Exit \/ Stop \/ Start \/ StoreToggles
    BY <2>3, <2>13 DEF Crash, Exit, Stop, Start, StoreToggles
  <2>14. CASE UNCHANGED vars
    BY <2>3, <2>14 DEF vars
  <2> QED
    BY <1>1, <2>4, <2>5, <2>6, <2>7, <2>8, <2>9, <2>10, <2>11, <2>12, <2>13, <2>14 DEF Next
<1> QED
  BY <1>1, PersistenceInvariant, PTL DEF Spec, TimedRowsNeverRegress

\* Restores and replays never take a key back to older evidence: they accept
\* an entry of the installed generation only if it is newer or the gate holds
\* none, and what an observation stores is stamped with the present.
THEOREM GateCorrect == Spec => GateNeverRegresses
<1> DEFINE Forward ==
      \A k \in Key :
        gate[k].known /\ gate'[k].known /\ gate'[k].gen = gate[k].gen /\ mode' # "down" =>
          \/ gate'[k].attempt >= gate[k].attempt
          \/ gate'[k] = Neutral(gen[k]) /\ resetting' # resetting
<1>1. ASSUME IInv, [Next]_vars
      PROVE  [Forward]_vars
  <2> TypeInv /\ GateInv /\ CopyInv
    BY <1>1 DEF IInv
  <2> USE DEF processVars, queueVars, diskVars, copyVars, historyVars, boundVars
  <2>1. \A k \in Key : gate[k].attempt \in Nat /\ gate[k].gen \in Nat /\ gen[k] \in Nat /\ now \in Nat
    BY DEF TypeInv, Health, RouteHealth
  <2>2. ASSUME gate' = gate
        PROVE  Forward
    BY <2>1, <2>2
  <2>3. ASSUME NEW k \in Key, NEW s \in Health, gate' = [gate EXCEPT ![k] = Restored(k, s)]
        PROVE  Forward
    <3>1. Restored(k, s) = gate[k] \/ (Restored(k, s) = s /\ RestoreAccepts(gate[k], s))
      BY DEF Restored
    <3>2. s.attempt \in Nat
      BY DEF Health, RouteHealth
    <3>3. RestoreAccepts(gate[k], s) /\ gate[k].known /\ gate[k].gen = s.gen =>
            s.attempt >= gate[k].attempt
      BY <2>1, <3>2 DEF RestoreAccepts
    <3>4. \A j \in Key : gate'[j] = IF j = k THEN Restored(k, s) ELSE gate[j]
      BY <2>3 DEF TypeInv
    <3> QED
      BY <2>1, <3>1, <3>3, <3>4
  <2>4. ASSUME NEW k \in Key, NEW outcome \in Outcomes[k], Observe(k, outcome)
        PROVE  Forward
    <3> DEFINE state == AfterOutcome(gate[k], gen[k], outcome, now + 1)
    <3>1. state.attempt = now + 1
      BY ObserveState
    <3>2. gate' = [gate EXCEPT ![k] = state]
      BY <2>4 DEF Observe
    <3> HIDE DEF state
    <3>3. gate[k].attempt <= now
      <4>1. [key |-> k, state |-> gate[k]] \in Copies
        BY DEF Copies
      <4> QED
        BY <4>1 DEF CopyInv
    <3>4. \A j \in Key : gate'[j] = IF j = k THEN state ELSE gate[j]
      BY <3>2 DEF TypeInv
    <3> QED
      BY <2>1, <3>1, <3>3, <3>4
  <2>5. CASE \E r \in replay : ReplayRecord(r)
    <3>1. PICK r \in replay : ReplayRecord(r)
      BY <2>5
    <3>2. r.key \in Key /\ r.state \in Health
      BY DEF TypeInv, Records
    <3> QED
      BY <2>2, <2>3, <3>1, <3>2 DEF ReplayRecord
  <2>6. CASE \E row \in loading : RestoreRow(row)
    <3>1. PICK row \in loading : RestoreRow(row)
      BY <2>6
    <3>2. row.key \in Key /\ row.state \in Health
      BY DEF TypeInv, RowImages
    <3> QED
      BY <2>2, <2>3, <3>1, <3>2 DEF RestoreRow
  <2>7. ASSUME NEW x \in resetting, ResetKey(x)
        PROVE  Forward
    <3>1. x.key \in Key
      BY DEF TypeInv
    <3>2. CASE x.invalidOnly /\ ~gate[x.key].invalid
      BY <2>2, <2>7, <3>2 DEF ResetKey
    <3>3. CASE ~(x.invalidOnly /\ ~gate[x.key].invalid)
      <4>1. gate' = [gate EXCEPT ![x.key] = Neutral(gen[x.key])] /\ resetting' = resetting \ {x}
        BY <2>7, <3>3 DEF ResetKey
      <4>2. \A j \in Key : gate'[j] = IF j = x.key THEN Neutral(gen[x.key]) ELSE gate[j]
        BY <4>1 DEF TypeInv
      <4>3. resetting' # resetting
        BY <4>1
      <4> QED
        BY <2>1, <4>2, <4>3
    <3> QED
      BY <3>2, <3>3
  <2>8. ASSUME NEW renewed \in {{}, Fenced, Key}, Reload(renewed)
        PROVE  Forward
    <3>1. gate' = [k \in Key |-> IF k \in {j \in renewed : gate[j].known}
                                 THEN Neutral(gen[k] + 1) ELSE gate[k]]
      BY <2>8 DEF Reload
    <3>2. \A k \in Key : Neutral(gen[k] + 1).gen = gen[k] + 1
      BY DEF Neutral, NoHealth
    <3>3. \A k \in Key : gate[k].known => gate[k].gen = gen[k]
      BY DEF GateInv
    <3>4. \A k \in Key : gate[k].known /\ gate'[k].gen = gate[k].gen => gate'[k] = gate[k]
      BY <2>1, <3>1, <3>2, <3>3
    <3> QED
      BY <2>1, <3>4
  <2>9. CASE Crash \/ Exit
    BY <2>9 DEF Crash, Exit, Lost
  <2>10. CASE (\E c \in calls : Enqueue(c)) \/ TakeBatch \/ TakeDue
    BY <2>2, <2>10 DEF Enqueue, TakeBatch, TakeDue
  <2>11. CASE \E x \in batch : Write(x) \/ WriteFails(x)
    BY <2>2, <2>11 DEF Write, WriteFails
  <2>12. CASE RequeueDeadLetters \/ ResetConnection \/ \E row \in Row : ClearInvalidModel(row)
    BY <2>2, <2>12 DEF RequeueDeadLetters, ResetConnection, ClearInvalidModel
  <2>13. CASE ReadRows \/ FinishReload \/ Stop \/ Start \/ StoreToggles
    BY <2>2, <2>13 DEF ReadRows, FinishReload, Stop, Start, StoreToggles
  <2>14. CASE UNCHANGED vars
    BY <2>2, <2>14 DEF vars
  <2> QED
    BY <1>1, <2>4, <2>5, <2>6, <2>7, <2>8, <2>9, <2>10, <2>11, <2>12, <2>13, <2>14 DEF Next
<1> QED
  BY <1>1, PersistenceInvariant, PTL DEF Spec, GateNeverRegresses

(***************************************************************************)
(* The evidence of an authentication key that was not reset and lost       *)
(* nothing. Live(x, k): x is a copy of a known state of the key's          *)
(* installed generation.                                                   *)
(***************************************************************************)
Live(x, k) == x.key = k /\ x.state.known /\ x.state.gen = gen[k]

DiskRow(k) == rows[RowOf[k]]

\* No neutral state of the generation is on the disk or on its way there.
NeutralGone(k) ==
  \A x \in Messages \cup loading \cup {DiskRow(k)} : Live(x, k) => x.state.attempt # 0

\* What the row keeps of an older generation is older than all evidence of
\* this one.
RowIsOlder(k) ==
  Live(DiskRow(k), k) \/
  \A x \in Messages \cup loading \cup {[key |-> k, state |-> gate[k]]} :
    Live(x, k) /\ x.state.attempt # 0 => DiskRow(k).observed < 2 * x.state.attempt

\* While the process runs, only spooled records may be newer than the gate.
GateIsNewest(k) ==
  \A x \in calls \cup pending \cup batch \cup loading \cup {DiskRow(k)} :
    Live(x, k) => x.state.attempt <= gate[k].attempt

\* An older copy in the queue, or with the writer, has the last one behind it.
OlderIsFollowed(k) ==
  /\ \A x \in pending :
       Live(x, k) /\ x.state # gate[k] => \E y \in calls : y.key = k /\ y.state = gate[k]
  /\ \A x \in batch :
       Live(x, k) /\ x.state # gate[k] => \E y \in calls \cup pending : y.key = k /\ y.state = gate[k]

Kept(k) ==
  gate[k].attempt # 0 /\ (\A x \in resetting : x.key # k) =>
    \/ \E x \in calls \cup pending \cup batch \cup spool : x.key = k /\ x.state = gate[k]
    \/ DiskRow(k).state = gate[k]

\* While the process starts, the gate is empty or holds the row.
RowIsRestored(k) ==
  /\ \A x \in loading : x.key = k => x = DiskRow(k)
  /\ gate[k] = NoHealth(0) \/ gate[k] = DiskRow(k).state
  /\ reload = "restoring" /\ Live(DiskRow(k), k) =>
       DiskRow(k) \in loading \/ gate[k] = DiskRow(k).state

Evidence(k) ==
  /\ NeutralGone(k)
  /\ RowIsOlder(k)
  /\ mode \in {"serving", "stopping"} => GateIsNewest(k) /\ OlderIsFollowed(k) /\ Kept(k)
  /\ mode = "starting" => RowIsRestored(k)

EvidenceInv == \A k \in Fenced \ excused : Evidence(k)

\* What the invariant says of one authentication key.
LEMMA KeyFacts ==
  ASSUME IInv, NEW k \in Fenced
  PROVE  /\ k \in Key /\ RowOf[k] \in Timed /\ RowOf[k] \in Row
         /\ DiskRow(k) \in RowImages /\ DiskRow(k).key = k
         /\ \A r \in Row : rows[r].key = k => r = RowOf[k]
         /\ now \in Nat /\ gen[k] \in Nat /\ gate[k] \in Health /\ gate[k].attempt \in Nat
         /\ gate[k].attempt # 0 => gate[k].known /\ gate[k].gen = gen[k]
         /\ gate[k].known => gate[k].gen = gen[k]
<1> USE DEF IInv
<1>1. k \in Key /\ RowOf[k] \in Timed /\ RowOf[k] \in Row
  BY PersistenceAssumption
<1>2. DiskRow(k) \in RowImages /\ \A r \in Row : rows[r].key \in Key
  BY <1>1 DEF DiskRow, TypeInv, RowImages
<1>3. \A r \in Row : RowOf[rows[r].key] = r
  BY DEF RowKeyInv
<1>4. \A j \in Key : RowOf[j] = RowOf[k] => j = k
  BY PersistenceAssumption
<1>5. DiskRow(k).key = k /\ \A r \in Row : rows[r].key = k => r = RowOf[k]
  BY <1>1, <1>2, <1>3, <1>4 DEF DiskRow
<1>6. now \in Nat /\ gen[k] \in Nat /\ gate[k] \in Health /\ gate[k].attempt \in Nat
  BY <1>1 DEF TypeInv, Health, RouteHealth
<1>7. gate[k].attempt # 0 => gate[k].known
  BY <1>1 DEF GateInv, NoHealth
<1>8. gate[k].known => gate[k].gen = gen[k]
  BY <1>1 DEF GateInv
<1> QED
  BY <1>1, <1>2, <1>5, <1>6, <1>7, <1>8

\* What it says of the copies of its states.
LEMMA KeyCopies ==
  ASSUME IInv, NEW k \in Fenced,
         NEW x \in Messages \cup loading \cup {DiskRow(k), [key |-> k, state |-> gate[k]]}
  PROVE  /\ x.key \in Key /\ x.state \in Health
         /\ x.state.attempt \in Nat /\ x.state.attempt <= now
         /\ x.key = k => x.state.gen \in Nat /\ x.state.gen <= gen[k]
         /\ x \in Messages => x.state.known
         /\ Live(x, k) /\ x.state.attempt = gate[k].attempt /\ gate[k].attempt # 0 =>
              x.state = gate[k]
<1> DEFINE g == [key |-> k, state |-> gate[k]]
<1>1. x \in Copies /\ g \in Copies
  BY KeyFacts DEF Copies, DiskRow
<1>2. x.key \in Key /\ x.state \in Health /\ x.state.attempt \in Nat /\ x.state.gen \in Nat
  BY <1>1, CopyTypes DEF IInv
<1>3. x.state.attempt <= now /\ x.state.gen <= gen[x.key]
  BY <1>1 DEF IInv, CopyInv
<1>4. x \in Messages => x.state.known
  BY DEF IInv, CopyInv
<1>5. ASSUME Live(x, k), x.state.attempt = gate[k].attempt, gate[k].attempt # 0
      PROVE  x.state = gate[k]
  <2>1. g.key = k /\ g.state = gate[k]
    OBVIOUS
  <2>2. g.state.gen = gen[k]
    BY <1>5, <2>1, KeyFacts
  <2>3. Same(x, g)
    BY <1>5, <2>1, <2>2 DEF Live, Same
  <2> HIDE DEF g
  <2> QED
    BY <1>1, <1>5, <2>1, <2>3 DEF IInv, CopyInv
<1> QED
  BY <1>2, <1>3, <1>4, <1>5

\* Steps that do not concern the key.
LEMMA EvidenceFrame ==
  ASSUME IInv, NEW k \in Fenced, Evidence(k),
         mode' = mode, mode = "starting" => reload' = reload,
         gate'[k] = gate[k], gen'[k] = gen[k], rows'[RowOf[k]] = rows[RowOf[k]],
         \A x : x.key = k =>
           /\ (x \in calls' <=> x \in calls) /\ (x \in pending' <=> x \in pending)
           /\ (x \in batch' <=> x \in batch) /\ (x \in spool' <=> x \in spool)
           /\ (x \in replay' => x \in replay) /\ (x \in loading' <=> x \in loading)
           /\ (x \in resetting' <=> x \in resetting)
  PROVE  Evidence(k)'
<1>1. DiskRow(k)' = DiskRow(k) /\ \A x : Live(x, k)' <=> Live(x, k)
  BY DEF DiskRow, Live
<1>2. NeutralGone(k)'
  BY <1>1 DEF Evidence, NeutralGone, Messages, Live
<1>3. RowIsOlder(k)'
  BY <1>1 DEF Evidence, RowIsOlder, Messages, Live
<1>4. mode' \in {"serving", "stopping"} => GateIsNewest(k)'
  BY <1>1 DEF Evidence, GateIsNewest, Live
<1>5. mode' \in {"serving", "stopping"} => OlderIsFollowed(k)'
  BY <1>1 DEF Evidence, OlderIsFollowed, Live
<1>6. mode' \in {"serving", "stopping"} => Kept(k)'
  BY <1>1 DEF Evidence, Kept
<1>7. mode' = "starting" => RowIsRestored(k)'
  BY <1>1, KeyFacts DEF Evidence, RowIsRestored
<1> QED
  BY <1>2, <1>3, <1>4, <1>5, <1>6, <1>7 DEF Evidence

(***************************************************************************)
(* The steps that concern the key, one lemma each.                         *)
(***************************************************************************)
\* A process that has calls, queued observations, copies of spooled records or
\* keys left to reset is running.
LEMMA Running ==
  ASSUME IInv
  PROVE  calls # {} \/ pending # {} \/ batch # {} \/ replay # {} \/ resetting # {} =>
           mode \in {"serving", "stopping"}
BY DEF IInv, ModeInv, TypeInv

LEMMA ObserveEvidence ==
  ASSUME IInv, NEW k \in Fenced, Evidence(k), NEW outcome \in Outcomes[k], Observe(k, outcome)
  PROVE  Evidence(k)'
<1> DEFINE state == AfterOutcome(gate[k], gen[k], outcome, now + 1)
<1> USE DEF processVars, diskVars, copyVars
<1>1. k \in Key /\ gate[k].attempt \in Nat /\ now \in Nat /\ DiskRow(k).observed \in Nat
  BY KeyFacts DEF RowImages
<1>2. state.known /\ state.gen = gen[k] /\ state.attempt = now + 1
  BY <1>1, ObserveState DEF IInv
<1>3. gate' = [gate EXCEPT ![k] = state] /\ calls' = calls \cup {Call(k, state, "request")}
  BY DEF Observe
<1> HIDE DEF state
<1>4. /\ UNCHANGED <<mode, reload, gen, pending, batch, spool, replay, loading, resetting, rows>>
      /\ mode = "serving"
  BY DEF Observe
<1>5. gate'[k] = state
  BY <1>1, <1>3 DEF IInv, TypeInv
<1>6. DiskRow(k)' = DiskRow(k) /\ \A x : Live(x, k)' <=> Live(x, k)
  BY <1>4 DEF DiskRow, Live
<1>7. Call(k, state, "request").key = k /\ Call(k, state, "request").state = state
  BY DEF Call
<1>8. \A x \in Messages \cup loading \cup {DiskRow(k)} : x.state.attempt \in Nat /\ x.state.attempt <= now
  BY KeyCopies
<1>9. NeutralGone(k)'
  BY <1>1, <1>2, <1>3, <1>4, <1>6, <1>7 DEF Evidence, NeutralGone, Messages
<1>10. RowIsOlder(k)'
  <2>1. DiskRow(k).observed <= 2 * now + 1
    BY KeyFacts DEF IInv, RowInv, DiskRow
  <2>2. DiskRow(k).observed < 2 * state.attempt
    BY <1>1, <1>2, <2>1
  <2> QED
    BY <1>3, <1>4, <1>5, <1>6, <1>7, <2>2 DEF Evidence, RowIsOlder, Messages
<1>11. GateIsNewest(k)'
  <2>1. \A x \in calls \cup pending \cup batch \cup loading \cup {DiskRow(k)} :
          x.state.attempt <= now + 1
    BY <1>1, <1>8 DEF Messages
  <2> QED
    BY <1>1, <1>2, <1>3, <1>4, <1>5, <1>6, <1>7, <2>1 DEF GateIsNewest
<1>12. OlderIsFollowed(k)' /\ Kept(k)'
  BY <1>3, <1>5, <1>7 DEF OlderIsFollowed, Kept
<1> QED
  BY <1>4, <1>9, <1>10, <1>11, <1>12 DEF Evidence

\* A call of the key enters the queue. One that is refused or overtaken is an
\* excuse; any other live call carries what the gate holds, so it is the last
\* of its identity and replaces the queued one.
LEMMA EnqueueEvidence ==
  ASSUME IInv, NEW k \in Fenced, Evidence(k), NEW c \in calls, Enqueue(c), c.key = k,
         k \notin excused'
  PROVE  Evidence(k)'
<1> USE DEF processVars, diskVars, copyVars
<1>1. /\ UNCHANGED <<mode, reload, gen, gate, batch, spool, replay, loading, resetting, rows>>
      /\ calls' = calls \ {c}
      /\ ~Refuses(c) /\ ~Overtaken(c) /\ pending' = Coalesced(c)
  BY DEF Enqueue
<1>2. DiskRow(k)' = DiskRow(k) /\ \A x : Live(x, k)' <=> Live(x, k)
  BY <1>1 DEF DiskRow, Live
<1>3. mode \in {"serving", "stopping"}
  BY Running
<1>4. GateIsNewest(k) /\ OlderIsFollowed(k) /\ Kept(k)
  BY <1>3 DEF Evidence
<1>5. gate[k].attempt \in Nat /\ (gate[k].attempt # 0 => gate[k].known /\ gate[k].gen = gen[k])
  BY KeyFacts
<1>6. \A x \in Messages : /\ x.state.attempt \in Nat /\ x.state.known
                          /\ Live(x, k) /\ x.state.attempt = gate[k].attempt /\ gate[k].attempt # 0 =>
                               x.state = gate[k]
  BY KeyCopies
<1>7. Observation(c).key = k /\ Observation(c).state = c.state
  BY DEF Observation
<1>8. pending' \subseteq pending \cup {Observation(c)}
  BY <1>1 DEF Coalesced
<1>9. c.state.gen = gen[k] => Live(c, k) /\ gate[k].attempt # 0 /\ c.state = gate[k]
  <2> SUFFICES ASSUME c.state.gen = gen[k]
               PROVE  Live(c, k) /\ gate[k].attempt # 0 /\ c.state = gate[k]
    OBVIOUS
  <2>1. Live(c, k) /\ c.state.attempt # 0 /\ c.state.attempt \in Nat
    BY <1>6 DEF Live, Messages, Evidence, NeutralGone
  <2>2. c.state.attempt <= gate[k].attempt
    BY <1>4, <2>1 DEF GateIsNewest
  <2>3. gate[k].attempt # 0
    BY <1>5, <2>1, <2>2
  <2>4. ~(gate[k].attempt > c.state.attempt)
    BY <1>1, <1>5, <2>3 DEF Overtaken
  <2>5. c.state.attempt = gate[k].attempt
    BY <1>5, <2>1, <2>2, <2>4
  <2> QED
    BY <1>6, <2>1, <2>3, <2>5 DEF Messages
<1>10. ASSUME gate[k].attempt # 0, \E y \in calls \cup pending : y.key = k /\ y.state = gate[k]
       PROVE  \E y \in calls' \cup pending' : y.key = k /\ y.state = gate[k]
  <2>1. PICK y \in calls \cup pending : y.key = k /\ y.state = gate[k]
    BY <1>10
  <2>2. CASE y \in calls' \cup pending'
    BY <2>1, <2>2
  <2>3. CASE y \notin calls' \cup pending'
    <3>1. y = c \/ Same(y, c)
      BY <1>1, <2>1, <2>3 DEF Coalesced
    <3>2. c.state.gen = gen[k]
      BY <1>5, <1>10, <2>1, <3>1 DEF Same
    <3>3. c.state = gate[k] /\ Live(c, k)
      BY <1>9, <3>2
    <3>4. Observation(c) \in pending'
      <4>1. \A p \in pending : Same(p, c) => ~(p.state.attempt > c.state.attempt)
        <5> SUFFICES ASSUME NEW p \in pending, Same(p, c)
                     PROVE  ~(p.state.attempt > c.state.attempt)
          OBVIOUS
        <5>1. Live(p, k)
          BY <1>6, <3>2 DEF Live, Same, Messages
        <5>2. p.state.attempt <= gate[k].attempt
          BY <1>4, <5>1 DEF GateIsNewest
        <5> QED
          BY <1>5, <1>6, <3>3, <5>2 DEF Messages
      <4> QED
        BY <1>1, <4>1 DEF Coalesced
    <3> QED
      BY <1>7, <3>3, <3>4
  <2> QED
    BY <2>2, <2>3
<1>11. NeutralGone(k)'
  BY <1>1, <1>2, <1>7, <1>8 DEF Evidence, NeutralGone, Messages, Live
<1>12. RowIsOlder(k)'
  BY <1>1, <1>2, <1>7, <1>8 DEF Evidence, RowIsOlder, Messages, Live
<1>13. GateIsNewest(k)'
  BY <1>1, <1>2, <1>4, <1>7, <1>8 DEF GateIsNewest, Live
<1>14. OlderIsFollowed(k)'
  <2>1. ASSUME NEW x \in pending', Live(x, k), x.state # gate[k]
        PROVE  \E y \in calls' : y.key = k /\ y.state = gate[k]
    <3>1. x \in pending
      BY <1>7, <1>8, <1>9, <2>1 DEF Live
    <3>2. PICK y \in calls : y.key = k /\ y.state = gate[k]
      BY <1>4, <2>1, <3>1 DEF OlderIsFollowed
    <3>3. CASE y # c
      BY <1>1, <3>2, <3>3
    <3>4. CASE y = c
      <4>1. x.state.attempt # 0 /\ x.state.attempt <= gate[k].attempt /\ x.state.attempt \in Nat
        BY <1>4, <1>6, <2>1, <3>1 DEF Evidence, NeutralGone, GateIsNewest, Messages
      <4>2. gate[k].attempt # 0
        BY <1>5, <4>1
      <4>3. c.state.gen = gen[k] /\ Same(x, c)
        BY <1>5, <2>1, <3>2, <3>4, <4>2 DEF Live, Same
      <4>4. pending' = {p \in pending : ~Same(p, c)} \cup {Observation(c)}
        \/ \E p \in pending : Same(p, c) /\ p.state.attempt > c.state.attempt
        BY <1>1 DEF Coalesced
      <4>5. \A p \in pending : Same(p, c) => p.state.attempt <= gate[k].attempt /\ p.state.attempt \in Nat
        BY <1>4, <1>6, <4>3 DEF Live, Same, Messages, GateIsNewest
      <4>6. x = Observation(c)
        BY <1>5, <3>2, <3>4, <4>3, <4>4, <4>5
      <4> QED
        BY <1>7, <2>1, <3>2, <3>4, <4>6
    <3> QED
      BY <3>3, <3>4
  <2>2. ASSUME NEW x \in batch, Live(x, k), x.state # gate[k]
        PROVE  \E y \in calls' \cup pending' : y.key = k /\ y.state = gate[k]
    <3>1. x.state.attempt # 0 /\ x.state.attempt <= gate[k].attempt /\ x.state.attempt \in Nat
      BY <1>4, <1>6, <2>2 DEF Evidence, NeutralGone, GateIsNewest, Messages
    <3>2. \E y \in calls \cup pending : y.key = k /\ y.state = gate[k]
      BY <1>4, <2>2 DEF OlderIsFollowed
    <3> QED
      BY <1>5, <1>10, <3>1, <3>2
  <2> QED
    BY <1>1, <1>2, <2>1, <2>2 DEF OlderIsFollowed
<1>15. Kept(k)'
  <2> SUFFICES ASSUME gate[k].attempt # 0, \A x \in resetting : x.key # k
               PROVE  \/ \E x \in calls' \cup pending' \cup batch \cup spool :
                            x.key = k /\ x.state = gate[k]
                      \/ DiskRow(k).state = gate[k]
    BY <1>1, <1>2 DEF Kept
  <2>1. \/ \E x \in calls \cup pending : x.key = k /\ x.state = gate[k]
        \/ \E x \in batch \cup spool : x.key = k /\ x.state = gate[k]
        \/ DiskRow(k).state = gate[k]
    BY <1>4 DEF Kept
  <2> QED
    BY <1>10, <2>1
<1> QED
  BY <1>1, <1>3, <1>11, <1>12, <1>13, <1>14, <1>15 DEF Evidence

LEMMA TakeBatchEvidence ==
  ASSUME IInv, NEW k \in Fenced, Evidence(k), TakeBatch
  PROVE  Evidence(k)'
<1> USE DEF processVars, diskVars, copyVars
<1>1. /\ UNCHANGED <<mode, reload, gen, gate, calls, spool, replay, loading, resetting, rows>>
      /\ batch = {} /\ batch' = pending /\ pending' = {}
  BY DEF TakeBatch
<1>2. DiskRow(k)' = DiskRow(k) /\ \A x : Live(x, k)' <=> Live(x, k)
  BY <1>1 DEF DiskRow, Live
<1>3. NeutralGone(k)'
  BY <1>1, <1>2 DEF Evidence, NeutralGone, Messages
<1>4. RowIsOlder(k)'
  BY <1>1, <1>2 DEF Evidence, RowIsOlder, Messages
<1>5. mode' \in {"serving", "stopping"} => GateIsNewest(k)' /\ OlderIsFollowed(k)' /\ Kept(k)'
  BY <1>1, <1>2 DEF Evidence, GateIsNewest, OlderIsFollowed, Kept
<1>6. mode' = "starting" => RowIsRestored(k)'
  BY <1>1, <1>2 DEF Evidence, RowIsRestored
<1> QED
  BY <1>1, <1>3, <1>4, <1>5, <1>6 DEF Evidence

\* The writer saves a copy of the key. The last one is accepted: the row is no
\* newer. An older one has the last one behind it, and one of another
\* generation changes nothing of this one.
LEMMA WriteEvidence ==
  ASSUME IInv, NEW k \in Fenced, Evidence(k), NEW x \in batch, Write(x), x.key = k
  PROVE  Evidence(k)'
<1> USE DEF processVars, diskVars, copyVars
<1>1. /\ UNCHANGED <<mode, reload, gen, gate, calls, pending, replay, loading, resetting>>
      /\ batch' = batch \ {x}
      /\ spool' = spool \/ spool' = {r \in spool : ~Same(r, x)}
  BY DEF Write, AckSpoolRecord, Acknowledged
<1>2. \A y : Live(y, k)' <=> Live(y, k)
  BY <1>1 DEF Live
<1>3. mode \in {"serving", "stopping"}
  BY Running
<1>4. GateIsNewest(k) /\ OlderIsFollowed(k) /\ Kept(k) /\ NeutralGone(k) /\ RowIsOlder(k)
  BY <1>3 DEF Evidence
<1>5. /\ k \in Key /\ RowOf[k] \in Row /\ RowOf[k] \in Timed
      /\ gate[k].attempt \in Nat /\ (gate[k].attempt # 0 => gate[k].known /\ gate[k].gen = gen[k])
      /\ DiskRow(k).observed \in Nat /\ DiskRow(k).key = k
  BY KeyFacts DEF RowImages
<1>6. /\ x.state.attempt \in Nat /\ x.state.known
      /\ Live(x, k) /\ x.state.attempt = gate[k].attempt /\ gate[k].attempt # 0 =>
           x.state = gate[k]
  BY KeyCopies DEF Messages
<1>7. DiskRow(k)' = IF SaveAccepts(x) THEN RowImage(x) ELSE DiskRow(k)
  BY <1>5 DEF Write, PersistHealthState, DiskRow, IInv, TypeInv
<1>8. RowImage(x).state = x.state /\ RowImage(x).key = k /\ RowImage(x).observed = ObservedAt(x)
  BY <1>5 DEF RowImage
<1>9. SaveAccepts(x) => x.state.gen = gen[k]
  BY <1>5 DEF SaveAccepts
<1>10. NeutralGone(k)'
  <2>1. SaveAccepts(x) => x.state.attempt # 0
    BY <1>4, <1>6, <1>9 DEF NeutralGone, Messages, Live
  <2> QED
    BY <1>1, <1>2, <1>4, <1>7, <1>8, <2>1 DEF NeutralGone, Messages
<1>11. RowIsOlder(k)'
  <2>1. CASE SaveAccepts(x)
    BY <1>1, <1>6, <1>7, <1>8, <1>9, <2>1 DEF RowIsOlder, Live
  <2>2. CASE ~SaveAccepts(x)
    BY <1>1, <1>2, <1>4, <1>7, <2>2 DEF RowIsOlder, Messages
  <2> QED
    BY <2>1, <2>2
<1>12. GateIsNewest(k)'
  <2>1. SaveAccepts(x) => x.state.attempt <= gate[k].attempt
    BY <1>4, <1>6, <1>9 DEF GateIsNewest, Live
  <2> QED
    BY <1>1, <1>2, <1>4, <1>7, <1>8, <2>1 DEF GateIsNewest
<1>13. OlderIsFollowed(k)'
  BY <1>1, <1>2, <1>4 DEF OlderIsFollowed
<1>14. Kept(k)'
  <2> SUFFICES ASSUME gate[k].attempt # 0, \A y \in resetting : y.key # k
               PROVE  \/ \E y \in calls \cup pending \cup batch' \cup spool' :
                            y.key = k /\ y.state = gate[k]
                      \/ DiskRow(k)'.state = gate[k]
    BY <1>1 DEF Kept
  <2>1. CASE x.state = gate[k]
    <3>1. x.state.gen = gen[k] /\ x.state.attempt # 0
      BY <1>5, <2>1
    <3>2. ObservedAt(x) >= DiskRow(k).observed
      <4>1. ObservedAt(x) = 2 * gate[k].attempt
        BY <2>1 DEF ObservedAt
      <4>2. CASE Live(DiskRow(k), k)
        <5>1. DiskRow(k).state.attempt # 0
          BY <1>4, <4>2 DEF NeutralGone
        <5>2. DiskRow(k).observed = 2 * DiskRow(k).state.attempt
          BY <1>5, <5>1 DEF IInv, RowInv, DiskRow
        <5>3. DiskRow(k).state.attempt <= gate[k].attempt
          BY <1>4, <4>2 DEF GateIsNewest
        <5>4. DiskRow(k).state.attempt \in Nat
          BY KeyCopies
        <5> QED
          BY <1>5, <4>1, <5>2, <5>3, <5>4
      <4>3. CASE ~Live(DiskRow(k), k)
        <5>1. DiskRow(k).observed < 2 * x.state.attempt
          BY <1>4, <1>6, <3>1, <4>3 DEF RowIsOlder, Live, Messages
        <5> QED
          BY <1>5, <2>1, <4>1, <5>1
      <4> QED
        BY <4>2, <4>3
    <3>3. SaveAccepts(x)
      BY <3>1, <3>2 DEF SaveAccepts, DiskRow
    <3> QED
      BY <1>7, <1>8, <2>1, <3>3
  <2>2. CASE x.state # gate[k] /\ x.state.gen = gen[k]
    <3>1. \E y \in calls \cup pending : y.key = k /\ y.state = gate[k]
      BY <1>4, <1>6, <2>2 DEF OlderIsFollowed, Live
    <3> QED
      BY <3>1
  <2>3. CASE x.state # gate[k] /\ x.state.gen # gen[k]
    <3>1. ~SaveAccepts(x)
      BY <1>9, <2>3
    <3>2. \A y \in spool : y.key = k /\ y.state = gate[k] => y \in spool'
      BY <1>1, <1>5, <2>3 DEF Same
    <3> QED
      BY <1>1, <1>4, <1>7, <2>3, <3>1, <3>2 DEF Kept
  <2> QED
    BY <2>1, <2>2, <2>3
<1> QED
  BY <1>1, <1>3, <1>10, <1>11, <1>12, <1>13, <1>14 DEF Evidence

\* All retries of the write failed: the record is in the spool, or the loss an
\* excuse.
LEMMA WriteFailsEvidence ==
  ASSUME IInv, NEW k \in Fenced, Evidence(k), NEW x \in batch, WriteFails(x), x.key = k,
         k \notin excused'
  PROVE  Evidence(k)'
<1> USE DEF processVars, diskVars, copyVars
<1>1. /\ UNCHANGED <<mode, reload, gen, gate, calls, pending, replay, loading, resetting, rows>>
      /\ batch' = batch \ {x}
      /\ spool' = {r \in spool : ~Same(r, x)} \cup {DeferredRecord(x)}
  BY DEF WriteFails, Acknowledged
<1>2. DiskRow(k)' = DiskRow(k) /\ \A y : Live(y, k)' <=> Live(y, k)
  BY <1>1 DEF DiskRow, Live
<1>3. mode \in {"serving", "stopping"}
  BY Running
<1>4. GateIsNewest(k) /\ OlderIsFollowed(k) /\ Kept(k) /\ NeutralGone(k) /\ RowIsOlder(k)
  BY <1>3 DEF Evidence
<1>5. gate[k].attempt # 0 => gate[k].known /\ gate[k].gen = gen[k]
  BY KeyFacts
<1>6. x.state.known
  BY KeyCopies DEF Messages
<1>7. DeferredRecord(x).key = k /\ DeferredRecord(x).state = x.state
  BY DEF DeferredRecord
<1>8. NeutralGone(k)'
  BY <1>1, <1>2, <1>4, <1>7 DEF NeutralGone, Messages, Live
<1>9. RowIsOlder(k)'
  BY <1>1, <1>2, <1>4, <1>7 DEF RowIsOlder, Messages, Live
<1>10. GateIsNewest(k)' /\ OlderIsFollowed(k)'
  BY <1>1, <1>2, <1>4 DEF GateIsNewest, OlderIsFollowed
<1>11. Kept(k)'
  <2> SUFFICES ASSUME gate[k].attempt # 0, \A y \in resetting : y.key # k
               PROVE  \/ \E y \in calls \cup pending \cup batch' \cup spool' :
                            y.key = k /\ y.state = gate[k]
                      \/ DiskRow(k).state = gate[k]
    BY <1>1, <1>2 DEF Kept
  <2>1. CASE x.state = gate[k]
    BY <1>1, <1>7, <2>1
  <2>2. CASE x.state # gate[k] /\ x.state.gen = gen[k]
    <3>1. \E y \in calls \cup pending : y.key = k /\ y.state = gate[k]
      BY <1>4, <1>6, <2>2 DEF OlderIsFollowed, Live
    <3> QED
      BY <3>1
  <2>3. CASE x.state # gate[k] /\ x.state.gen # gen[k]
    <3>1. \A y \in spool : y.key = k /\ y.state = gate[k] => y \in spool'
      BY <1>1, <1>5, <2>3 DEF Same
    <3> QED
      BY <1>1, <1>4, <2>3, <3>1 DEF Kept
  <2> QED
    BY <2>1, <2>2, <2>3
<1> QED
  BY <1>1, <1>3, <1>8, <1>9, <1>10, <1>11 DEF Evidence

LEMMA TakeDueEvidence ==
  ASSUME IInv, NEW k \in Fenced, Evidence(k), TakeDue
  PROVE  Evidence(k)'
<1> USE DEF processVars, queueVars, diskVars
<1>1. /\ UNCHANGED <<mode, reload, gen, gate, calls, pending, batch, spool, loading, resetting, rows>>
      /\ replay' \subseteq spool
  BY DEF TakeDue
<1>2. DiskRow(k)' = DiskRow(k) /\ \A x : Live(x, k)' <=> Live(x, k)
  BY <1>1 DEF DiskRow, Live
<1>3. NeutralGone(k)' /\ RowIsOlder(k)'
  BY <1>1, <1>2 DEF Evidence, NeutralGone, RowIsOlder, Messages
<1>4. mode' \in {"serving", "stopping"} => GateIsNewest(k)' /\ OlderIsFollowed(k)' /\ Kept(k)'
  BY <1>1, <1>2 DEF Evidence, GateIsNewest, OlderIsFollowed, Kept
<1>5. mode' = "starting" => RowIsRestored(k)'
  BY <1>1, <1>2 DEF Evidence, RowIsRestored
<1> QED
  BY <1>1, <1>3, <1>4, <1>5 DEF Evidence

\* A replayed record of the generation either is newer, and becomes what the
\* gate holds, or leaves the gate; either way the call carries the gate.
LEMMA ReplayEvidence ==
  ASSUME IInv, NEW k \in Fenced, Evidence(k), NEW r \in replay, ReplayRecord(r), r.key = k
  PROVE  Evidence(k)'
<1> USE DEF processVars, queueVars, diskVars, copyVars
<1>1. /\ UNCHANGED <<mode, reload, gen, pending, batch, loading, resetting, rows>>
      /\ replay' = replay \ {r}
  BY DEF ReplayRecord
<1>2. DiskRow(k)' = DiskRow(k) /\ \A y : Live(y, k)' <=> Live(y, k)
  BY <1>1 DEF DiskRow, Live
<1>3. mode \in {"serving", "stopping"}
  BY Running
<1>4. GateIsNewest(k) /\ OlderIsFollowed(k) /\ Kept(k) /\ NeutralGone(k) /\ RowIsOlder(k)
  BY <1>3 DEF Evidence
<1>5. /\ k \in Key /\ gate[k].attempt \in Nat
      /\ gate[k].attempt # 0 => gate[k].known /\ gate[k].gen = gen[k]
      /\ gate[k].known => gate[k].gen = gen[k]
  BY KeyFacts
<1>6. r.state.attempt \in Nat /\ r.state.known
  BY KeyCopies DEF Messages
<1>7. CASE AcceptsGeneration(k, r.state)
  <2> DEFINE state == Restored(k, r.state)
  <2>1. /\ gate' = [gate EXCEPT ![k] = state]
        /\ calls' = calls \cup {Call(k, state, "replay")}
        /\ spool' = spool
    BY <1>7 DEF ReplayRecord
  <2>2. Live(r, k) /\ r.state.attempt # 0
    BY <1>4, <1>6, <1>7 DEF AcceptsGeneration, Live, NeutralGone, Messages
  <2>3. \/ state = r.state /\ r.state.attempt >= gate[k].attempt
        \/ state = gate[k] /\ gate[k].attempt # 0
    BY <1>5, <1>6, <1>7, <2>2 DEF Restored, RestoreAccepts, Live
  <2> HIDE DEF state
  <2>4. gate'[k] = state
    BY <1>5, <2>1 DEF IInv, TypeInv
  <2>5. Call(k, state, "replay").key = k /\ Call(k, state, "replay").state = state
    BY DEF Call
  <2>6. state.attempt # 0 /\ state.attempt >= gate[k].attempt /\ state.attempt \in Nat
    BY <1>5, <1>6, <2>2, <2>3
  <2>7. NeutralGone(k)'
    BY <1>1, <1>2, <1>4, <2>1, <2>5, <2>6 DEF NeutralGone, Messages
  <2>8. RowIsOlder(k)'
    <3>1. Live(DiskRow(k), k) \/ DiskRow(k).observed < 2 * state.attempt
      <4>1. CASE state = r.state
        BY <1>4, <2>2, <4>1 DEF RowIsOlder, Messages
      <4>2. CASE state = gate[k] /\ gate[k].attempt # 0
        <5> DEFINE g == [key |-> k, state |-> gate[k]]
        <5>1. g.key = k /\ g.state = gate[k]
          OBVIOUS
        <5>2. Live(g, k)
          BY <1>5, <4>2, <5>1 DEF Live
        <5>3. Live(DiskRow(k), k) \/ DiskRow(k).observed < 2 * g.state.attempt
          BY <1>4, <4>2, <5>1, <5>2 DEF RowIsOlder
        <5> QED
          BY <4>2, <5>1, <5>3
      <4> QED
        BY <2>3, <4>1, <4>2
    <3> QED
      BY <1>1, <1>2, <1>4, <2>1, <2>4, <2>5, <3>1 DEF RowIsOlder, Messages
  <2>9. GateIsNewest(k)'
    <3>1. \A y \in calls \cup pending \cup batch \cup loading \cup {DiskRow(k)} :
            Live(y, k) => y.state.attempt <= state.attempt
      <4> SUFFICES ASSUME NEW y \in calls \cup pending \cup batch \cup loading \cup {DiskRow(k)},
                          Live(y, k)
                   PROVE  y.state.attempt <= state.attempt
        OBVIOUS
      <4>1. y.state.attempt <= gate[k].attempt
        BY <1>4 DEF GateIsNewest
      <4>2. y.state.attempt \in Nat
        BY KeyCopies DEF Messages
      <4> QED
        BY <1>5, <2>6, <4>1, <4>2
    <3> QED
      BY <1>1, <1>2, <2>1, <2>4, <2>5, <2>6, <3>1 DEF GateIsNewest
  <2>10. OlderIsFollowed(k)' /\ Kept(k)'
    BY <2>1, <2>4, <2>5 DEF OlderIsFollowed, Kept
  <2> QED
    BY <1>1, <1>3, <2>7, <2>8, <2>9, <2>10 DEF Evidence
<1>8. CASE ~AcceptsGeneration(k, r.state)
  <2>1. /\ gate' = gate /\ calls' = calls
        /\ spool' = spool \/ spool' = {y \in spool : ~Same(y, r)}
    BY <1>8 DEF ReplayRecord, AckSpoolRecord, Acknowledged
  <2>2. \A y \in spool : y.key = k /\ y.state = gate[k] /\ gate[k].attempt # 0 => y \in spool'
    BY <1>5, <1>8, <2>1 DEF Same, AcceptsGeneration
  <2>3. NeutralGone(k)' /\ RowIsOlder(k)'
    BY <1>1, <1>2, <1>4, <2>1 DEF NeutralGone, RowIsOlder, Messages
  <2>4. GateIsNewest(k)' /\ OlderIsFollowed(k)'
    BY <1>1, <1>2, <1>4, <2>1 DEF GateIsNewest, OlderIsFollowed
  <2>5. Kept(k)'
    BY <1>1, <1>2, <1>4, <2>1, <2>2 DEF Kept
  <2> QED
    BY <1>1, <1>3, <2>3, <2>4, <2>5 DEF Evidence
<1> QED
  BY <1>7, <1>8

LEMMA RequeueEvidence ==
  ASSUME IInv, NEW k \in Fenced, Evidence(k), RequeueDeadLetters
  PROVE  Evidence(k)'
<1> USE DEF processVars, queueVars, copyVars
<1>1. UNCHANGED <<mode, reload, gen, gate, calls, pending, batch, replay, loading, resetting, rows>>
  BY DEF RequeueDeadLetters
<1>2. DiskRow(k)' = DiskRow(k) /\ \A x : Live(x, k)' <=> Live(x, k)
  BY <1>1 DEF DiskRow, Live
<1>3. \A x \in spool' : \E r \in spool : x.key = r.key /\ x.state = r.state
  BY RequeueKeeps DEF IInv
<1>4. \A r \in spool : \E x \in spool' : x.key = r.key /\ x.state = r.state
  <2> SUFFICES ASSUME NEW r \in spool
               PROVE  \E x \in spool' : x.key = r.key /\ x.state = r.state
    OBVIOUS
  <2>1. spool' = {IF y.dead THEN [y EXCEPT !.dead = FALSE, !.attempts = 0] ELSE y : y \in spool}
    BY DEF RequeueDeadLetters
  <2>2. (IF r.dead THEN [r EXCEPT !.dead = FALSE, !.attempts = 0] ELSE r) \in spool'
    BY <2>1
  <2>3. r \in Records
    BY DEF IInv, TypeInv
  <2>4. [r EXCEPT !.dead = FALSE, !.attempts = 0].key = r.key
        /\ [r EXCEPT !.dead = FALSE, !.attempts = 0].state = r.state
    BY <2>3 DEF Records
  <2> QED
    BY <2>2, <2>4
<1>5. NeutralGone(k)'
  BY <1>1, <1>2, <1>3 DEF Evidence, NeutralGone, Messages, Live
<1>6. RowIsOlder(k)'
  BY <1>1, <1>2, <1>3 DEF Evidence, RowIsOlder, Messages, Live
<1>7. mode' \in {"serving", "stopping"} => GateIsNewest(k)' /\ OlderIsFollowed(k)'
  BY <1>1, <1>2 DEF Evidence, GateIsNewest, OlderIsFollowed
<1>8. mode' \in {"serving", "stopping"} => Kept(k)'
  BY <1>1, <1>2, <1>4 DEF Evidence, Kept
<1>9. mode' = "starting" => RowIsRestored(k)'
  BY <1>1, <1>2 DEF Evidence, RowIsRestored
<1> QED
  BY <1>1, <1>5, <1>6, <1>7, <1>8, <1>9 DEF Evidence

\* The reset empties the row and will visit the key.
LEMMA ResetEvidence ==
  ASSUME Fenced \subseteq Resettable, IInv, NEW k \in Fenced, Evidence(k), ResetConnection
  PROVE  Evidence(k)'
<1> USE DEF processVars, queueVars
<1>1. /\ UNCHANGED <<mode, reload, gen, gate, calls, pending, batch, spool, replay, loading>>
      /\ mode = "serving"
      /\ resetting' = {[key |-> j, invalidOnly |-> FALSE] : j \in Resettable}
  BY DEF ResetConnection
<1>2. DiskRow(k)' = EmptyRow(k)
  BY KeyFacts DEF ResetConnection, DiskRow
<1>3. \A x : Live(x, k)' <=> Live(x, k)
  BY <1>1 DEF Live
<1>4. ~Live(EmptyRow(k), k) /\ EmptyRow(k).observed = 0
  BY DEF Live, EmptyRow, NoHealth
<1>5. GateIsNewest(k) /\ OlderIsFollowed(k)
  BY <1>1 DEF Evidence
<1>6. NeutralGone(k)'
  BY <1>1, <1>2, <1>3, <1>4 DEF Evidence, NeutralGone, Messages
<1>7. RowIsOlder(k)'
  <2>1. \A x \in Messages \cup loading \cup {[key |-> k, state |-> gate[k]]} :
          x.state.attempt # 0 => 0 < 2 * x.state.attempt
    BY KeyCopies
  <2> QED
    BY <1>1, <1>2, <1>4, <2>1 DEF RowIsOlder, Messages
<1>8. GateIsNewest(k)' /\ OlderIsFollowed(k)'
  BY <1>1, <1>2, <1>3, <1>4, <1>5 DEF GateIsNewest, OlderIsFollowed
<1>9. [key |-> k, invalidOnly |-> FALSE] \in resetting'
  BY <1>1
<1>10. Kept(k)'
  BY <1>9 DEF Kept
<1> QED
  BY <1>1, <1>6, <1>7, <1>8, <1>10 DEF Evidence

\* A new generation: no copy of it exists, and the authentication lane does not
\* announce its neutral state.
LEMMA RenewedEvidence ==
  ASSUME IInv, NEW k \in Fenced, NEW renewed \in {{}, Fenced, Key}, Reload(renewed),
         k \in renewed
  PROVE  Evidence(k)'
<1> USE DEF processVars
<1>1. /\ UNCHANGED <<mode, pending, batch, spool, replay, loading, resetting, rows>>
      /\ mode = "serving"
  BY DEF Reload, diskVars
<1>2. k \in Key /\ gen[k] \in Nat /\ DiskRow(k).key = k
      /\ (~gate[k].known => gate[k] = NoHealth(0))
  BY KeyFacts DEF IInv, GateInv
<1>3. gen'[k] = gen[k] + 1
  BY <1>2 DEF Reload
<1>4. gate'[k].attempt = 0
  <2>1. gate'[k] = Neutral(gen[k] + 1) \/ gate'[k] = NoHealth(0)
    BY <1>2 DEF Reload
  <2> QED
    BY <2>1 DEF Neutral, NoHealth
<1>5. \A x \in calls' : x.key = k => x \in calls
  BY DEF Reload, Announces, Call
<1>6. \A x \in Messages \cup loading \cup {DiskRow(k)} : ~Live(x, k)'
  <2> SUFFICES ASSUME NEW x \in Messages \cup loading \cup {DiskRow(k)}, x.key = k
               PROVE  x.state.gen # gen[k] + 1
    BY <1>3 DEF Live
  <2>1. x.state.gen \in Nat /\ x.state.gen <= gen[k]
    BY KeyCopies
  <2> QED
    BY <1>2, <2>1
<1>7. \A x \in Messages' \cup loading' \cup {DiskRow(k)'} : ~Live(x, k)'
  <2>1. DiskRow(k)' = DiskRow(k)
    BY <1>1 DEF DiskRow
  <2>2. \A x \in Messages' : x.key = k => x \in Messages
    BY <1>1, <1>5 DEF Messages
  <2> QED
    BY <1>1, <1>6, <2>1, <2>2 DEF Live
<1>8. NeutralGone(k)'
  BY <1>7 DEF NeutralGone
<1>9. RowIsOlder(k)'
  <2>1. \A x \in Messages' \cup loading' : ~Live(x, k)'
    BY <1>7
  <2> QED
    BY <1>4, <2>1 DEF RowIsOlder
<1>10. GateIsNewest(k)'
  BY <1>7 DEF GateIsNewest, Messages
<1>11. OlderIsFollowed(k)'
  BY <1>7 DEF OlderIsFollowed, Messages
<1>12. Kept(k)'
  BY <1>4 DEF Kept
<1> QED
  BY <1>1, <1>8, <1>9, <1>10, <1>11, <1>12 DEF Evidence

LEMMA ReadRowsEvidence ==
  ASSUME IInv, NEW k \in Fenced, Evidence(k), ReadRows
  PROVE  Evidence(k)'
<1> USE DEF queueVars, diskVars
<1>1. /\ UNCHANGED <<mode, gen, gate, calls, pending, batch, spool, replay, resetting, rows>>
      /\ loading' = {rows[r] : r \in Row}
  BY DEF ReadRows
<1>2. DiskRow(k)' = DiskRow(k) /\ \A x : Live(x, k)' <=> Live(x, k)
  BY <1>1 DEF DiskRow, Live
<1>3. DiskRow(k) \in loading' /\ \A x \in loading' : x.key = k => x = DiskRow(k)
  BY <1>1, KeyFacts DEF DiskRow
<1>4. NeutralGone(k)'
  BY <1>1, <1>2, <1>3 DEF Evidence, NeutralGone, Messages, Live
<1>5. RowIsOlder(k)'
  BY <1>1, <1>2, <1>3 DEF Evidence, RowIsOlder, Messages, Live
<1>6. mode' \in {"serving", "stopping"} => GateIsNewest(k)'
  BY <1>1, <1>2, <1>3 DEF Evidence, GateIsNewest, Live
<1>7. mode' \in {"serving", "stopping"} => OlderIsFollowed(k)' /\ Kept(k)'
  BY <1>1, <1>2 DEF Evidence, OlderIsFollowed, Kept
<1>8. mode' = "starting" => RowIsRestored(k)'
  BY <1>1, <1>2, <1>3 DEF Evidence, RowIsRestored
<1> QED
  BY <1>1, <1>4, <1>5, <1>6, <1>7, <1>8 DEF Evidence

\* While the process serves, the row it applies is no newer than the gate;
\* while it starts, the gate becomes the row.
LEMMA RestoreEvidence ==
  ASSUME IInv, NEW k \in Fenced, Evidence(k), NEW row \in loading, RestoreRow(row), row.key = k
  PROVE  Evidence(k)'
<1> USE DEF processVars, queueVars, diskVars
<1>1. /\ UNCHANGED <<mode, reload, gen, calls, pending, batch, spool, replay, resetting, rows>>
      /\ loading' = loading \ {row} /\ reload = "restoring"
  BY DEF RestoreRow
<1>2. DiskRow(k)' = DiskRow(k) /\ \A x : Live(x, k)' <=> Live(x, k)
  BY <1>1 DEF DiskRow, Live
<1>3. /\ k \in Key /\ RowOf[k] \in Timed /\ gate[k].attempt \in Nat
      /\ gate[k].attempt # 0 => gate[k].known /\ gate[k].gen = gen[k]
      /\ gate[k].known => gate[k].gen = gen[k]
  BY KeyFacts
<1>4. gate'[k] = IF row.state.known THEN Restored(k, row.state) ELSE gate[k]
  <2>1. RowOf[k] \notin ModelRows
    BY <1>3, PersistenceAssumption
  <2> QED
    BY <1>3, <2>1 DEF RestoreRow, Restorable, IInv, TypeInv
<1>5. NeutralGone(k)'
  BY <1>1, <1>2 DEF Evidence, NeutralGone, Messages
<1>6. CASE mode = "starting"
  <2>1. row = DiskRow(k) /\ (gate[k] = NoHealth(0) \/ gate[k] = row.state)
    BY <1>6 DEF Evidence, RowIsRestored
  <2>2. Live(row, k) => gate'[k] = row.state
    BY <1>4, <2>1 DEF Live, Restored, AcceptsGeneration, RestoreAccepts, NoHealth
  <2>3. ~Live(row, k) => gate'[k] = gate[k]
    BY <1>4 DEF Live, Restored, AcceptsGeneration
  <2>4. RowIsOlder(k)'
    BY <1>1, <1>2, <2>1, <2>2, <2>3 DEF Evidence, RowIsOlder, Messages
  <2>5. RowIsRestored(k)'
    BY <1>1, <1>2, <1>6, <2>1, <2>2, <2>3 DEF Evidence, RowIsRestored
  <2> QED
    BY <1>1, <1>5, <1>6, <2>4, <2>5 DEF Evidence
<1>7. CASE mode # "starting"
  <2>1. mode = "serving"
    BY <1>1, <1>7 DEF IInv, ModeInv, TypeInv
  <2>2. GateIsNewest(k) /\ NeutralGone(k)
    BY <2>1 DEF Evidence
  <2>3. Live(row, k) => /\ row.state.attempt # 0 /\ row.state.attempt \in Nat
                        /\ row.state.attempt <= gate[k].attempt
    BY <2>2, KeyCopies DEF NeutralGone, GateIsNewest
  <2>4. gate'[k] = gate[k]
    BY <1>3, <1>4, <2>3 DEF Live, Restored, AcceptsGeneration, RestoreAccepts
  <2>5. RowIsOlder(k)'
    BY <1>1, <1>2, <2>4 DEF Evidence, RowIsOlder, Messages
  <2>6. GateIsNewest(k)' /\ OlderIsFollowed(k)' /\ Kept(k)'
    BY <1>1, <1>2, <2>1, <2>4 DEF Evidence, GateIsNewest, OlderIsFollowed, Kept
  <2> QED
    BY <1>1, <1>5, <2>1, <2>5, <2>6 DEF Evidence
<1> QED
  BY <1>6, <1>7

LEMMA FinishEvidence ==
  ASSUME IInv, NEW k \in Fenced, Evidence(k), FinishReload
  PROVE  Evidence(k)'
<1> USE DEF queueVars, diskVars, copyVars
<1>1. /\ UNCHANGED <<gen, gate, calls, pending, batch, spool, replay, loading, resetting, rows>>
      /\ loading = {} /\ reload = "restoring"
      /\ mode' = IF mode = "starting" THEN "serving" ELSE mode
  BY DEF FinishReload
<1>2. DiskRow(k)' = DiskRow(k) /\ \A x : Live(x, k)' <=> Live(x, k)
  BY <1>1 DEF DiskRow, Live
<1>3. NeutralGone(k)' /\ RowIsOlder(k)'
  BY <1>1, <1>2 DEF Evidence, NeutralGone, RowIsOlder, Messages
<1>4. CASE mode = "starting"
  <2>1. calls = {} /\ pending = {} /\ batch = {}
    BY <1>4 DEF IInv, ModeInv
  <2>2. /\ Live(DiskRow(k), k) => gate[k] = DiskRow(k).state
        /\ gate[k] = NoHealth(0) \/ gate[k] = DiskRow(k).state
    BY <1>1, <1>4 DEF Evidence, RowIsRestored
  <2>3. GateIsNewest(k)'
    <3>1. gate[k].attempt \in Nat
      BY KeyFacts
    <3> QED
      BY <1>1, <1>2, <2>1, <2>2, <3>1 DEF GateIsNewest
  <2>4. OlderIsFollowed(k)'
    BY <1>1, <2>1 DEF OlderIsFollowed
  <2>5. Kept(k)'
    BY <1>1, <1>2, <2>2 DEF Kept, NoHealth
  <2> QED
    BY <1>1, <1>3, <1>4, <2>3, <2>4, <2>5 DEF Evidence
<1>5. CASE mode # "starting"
  <2>1. mode' \in {"serving", "stopping"} => GateIsNewest(k)' /\ OlderIsFollowed(k)' /\ Kept(k)'
    BY <1>1, <1>2, <1>5 DEF Evidence, GateIsNewest, OlderIsFollowed, Kept
  <2> QED
    BY <1>1, <1>3, <1>5, <2>1 DEF Evidence
<1> QED
  BY <1>4, <1>5

\* A crash leaves the row and the spool.
LEMMA LostEvidence ==
  ASSUME IInv, NEW k \in Fenced, Evidence(k), Lost, UNCHANGED <<gen, spool, rows>>
  PROVE  Evidence(k)'
<1>1. /\ calls' = {} /\ pending' = {} /\ batch' = {} /\ replay' = {} /\ loading' = {}
      /\ resetting' = {} /\ mode' = "down" /\ gate'[k] = NoHealth(0)
  BY KeyFacts DEF Lost
<1>2. DiskRow(k)' = DiskRow(k) /\ \A x : Live(x, k)' <=> Live(x, k)
  BY DEF DiskRow, Live
<1>3. NeutralGone(k)'
  BY <1>1, <1>2 DEF Evidence, NeutralGone, Messages
<1>4. RowIsOlder(k)'
  BY <1>1, <1>2 DEF Evidence, RowIsOlder, Messages, Live, NoHealth
<1> QED
  BY <1>1, <1>3, <1>4 DEF Evidence

LEMMA StopEvidence ==
  ASSUME IInv, NEW k \in Fenced, Evidence(k), Stop \/ Start
  PROVE  Evidence(k)'
<1> USE DEF queueVars, diskVars, copyVars
<1>1. UNCHANGED <<gen, gate, calls, pending, batch, spool, replay, loading, resetting, rows>>
  BY DEF Stop, Start
<1>2. DiskRow(k)' = DiskRow(k) /\ \A x : Live(x, k)' <=> Live(x, k)
  BY <1>1 DEF DiskRow, Live
<1>3. NeutralGone(k)' /\ RowIsOlder(k)'
  BY <1>1, <1>2 DEF Evidence, NeutralGone, RowIsOlder, Messages
<1>4. CASE Stop
  <2>1. GateIsNewest(k)' /\ OlderIsFollowed(k)' /\ Kept(k)'
    BY <1>1, <1>2, <1>4 DEF Stop, Evidence, GateIsNewest, OlderIsFollowed, Kept
  <2>2. mode' = "stopping"
    BY <1>4 DEF Stop
  <2> QED
    BY <1>1, <1>3, <2>1, <2>2 DEF Evidence
<1>5. CASE Start
  <2>1. mode' = "starting" /\ reload' = "installed" /\ mode = "down"
    BY <1>5 DEF Start
  <2>2. loading = {} /\ gate[k] = NoHealth(0)
    BY <2>1, KeyFacts DEF IInv, ModeInv
  <2>3. RowIsRestored(k)'
    BY <1>1, <2>1, <2>2 DEF RowIsRestored
  <2> QED
    BY <1>1, <1>3, <2>1, <2>3 DEF Evidence
<1> QED
  BY <1>4, <1>5

LEMMA EvidenceStep ==
  ASSUME Fenced \subseteq Resettable, IInv, EvidenceInv, [Next]_vars
  PROVE  EvidenceInv'
<1> SUFFICES ASSUME NEW k \in Fenced, k \notin excused'
             PROVE  Evidence(k)'
  BY DEF EvidenceInv
<1> USE DEF processVars, queueVars, diskVars, copyVars, historyVars, boundVars
<1>1. k \in Key /\ RowOf[k] \in Row /\ RowOf[k] \in Timed
  BY KeyFacts
<1>2. \A j \in Key : RowOf[j] = RowOf[k] => j = k
  BY PersistenceAssumption
<1>3. k \notin excused => Evidence(k)
  BY DEF EvidenceInv
<1>4. TypeInv
  BY DEF IInv
<1>5. ASSUME NEW j \in Key, NEW outcome \in Outcomes[j], Observe(j, outcome)
      PROVE  Evidence(k)'
  <2>1. Evidence(k)
    BY <1>3, <1>5 DEF Observe
  <2>2. CASE j = k
    BY <1>5, <2>1, <2>2, ObserveEvidence
  <2>3. CASE j # k
    <3>1. gate'[k] = gate[k]
      BY <1>1, <1>4, <1>5, <2>3 DEF Observe, TypeInv
    <3>2. \A x : x.key = k => (x \in calls' <=> x \in calls)
      BY <1>5, <2>3 DEF Observe, Call
    <3> QED
      BY <1>5, <2>1, <3>1, <3>2, EvidenceFrame DEF Observe
  <2> QED
    BY <2>2, <2>3
<1>6. ASSUME NEW c \in calls, Enqueue(c)
      PROVE  Evidence(k)'
  <2>1. Evidence(k)
    BY <1>3, <1>6 DEF Enqueue
  <2>2. CASE c.key = k
    BY <1>6, <2>1, <2>2, EnqueueEvidence
  <2>3. CASE c.key # k
    <3>1. \A x : x.key = k => (x \in calls' <=> x \in calls) /\ (x \in pending' <=> x \in pending)
      BY <1>6, <2>3 DEF Enqueue, Coalesced, Observation, Same
    <3> QED
      BY <1>6, <2>1, <3>1, EvidenceFrame DEF Enqueue
  <2> QED
    BY <2>2, <2>3
<1>7. CASE TakeBatch
  BY <1>3, <1>7, TakeBatchEvidence DEF TakeBatch
<1>8. ASSUME NEW x \in batch, Write(x)
      PROVE  Evidence(k)'
  <2>1. Evidence(k)
    BY <1>3, <1>8 DEF Write
  <2>2. CASE x.key = k
    BY <1>8, <2>1, <2>2, WriteEvidence
  <2>3. CASE x.key # k
    <3>1. x.key \in Key
      BY <1>4 DEF TypeInv, Observations
    <3>2. rows'[RowOf[k]] = rows[RowOf[k]]
      BY <1>1, <1>2, <1>4, <1>8, <2>3, <3>1 DEF Write, PersistHealthState, TypeInv
    <3>3. \A y : y.key = k => (y \in spool' <=> y \in spool) /\ (y \in batch' <=> y \in batch)
      BY <1>8, <2>3 DEF Write, AckSpoolRecord, Acknowledged, Same
    <3> QED
      BY <1>8, <2>1, <3>2, <3>3, EvidenceFrame DEF Write
  <2> QED
    BY <2>2, <2>3
<1>9. ASSUME NEW x \in batch, WriteFails(x)
      PROVE  Evidence(k)'
  <2>1. Evidence(k)
    BY <1>3, <1>9 DEF WriteFails
  <2>2. CASE x.key = k
    BY <1>9, <2>1, <2>2, WriteFailsEvidence
  <2>3. CASE x.key # k
    <3>1. DeferredRecord(x).key = x.key
      BY DEF DeferredRecord
    <3>2. \A y : y.key = k => (y \in spool' <=> y \in spool) /\ (y \in batch' <=> y \in batch)
      BY <1>9, <2>3, <3>1 DEF WriteFails, Acknowledged, Same
    <3> QED
      BY <1>9, <2>1, <3>2, EvidenceFrame DEF WriteFails
  <2> QED
    BY <2>2, <2>3
<1>10. CASE TakeDue
  BY <1>3, <1>10, TakeDueEvidence DEF TakeDue
<1>11. ASSUME NEW r \in replay, ReplayRecord(r)
       PROVE  Evidence(k)'
  <2>1. Evidence(k)
    BY <1>3, <1>11 DEF ReplayRecord
  <2>2. CASE r.key = k
    BY <1>11, <2>1, <2>2, ReplayEvidence
  <2>3. CASE r.key # k
    <3>1. gate'[k] = gate[k]
      BY <1>1, <1>4, <1>11, <2>3 DEF ReplayRecord, TypeInv
    <3>2. \A y : y.key = k => /\ (y \in spool' <=> y \in spool) /\ (y \in calls' <=> y \in calls)
                              /\ (y \in replay' => y \in replay)
      BY <1>11, <2>3 DEF ReplayRecord, AckSpoolRecord, Acknowledged, Same, Call
    <3> QED
      BY <1>11, <2>1, <3>1, <3>2, EvidenceFrame DEF ReplayRecord
  <2> QED
    BY <2>2, <2>3
<1>12. CASE RequeueDeadLetters
  BY <1>3, <1>12, RequeueEvidence DEF RequeueDeadLetters
<1>13. CASE ResetConnection
  BY <1>3, <1>13, ResetEvidence DEF ResetConnection
<1>14. ASSUME NEW row \in Row, ClearInvalidModel(row)
       PROVE  Evidence(k)'
  <2>1. Evidence(k)
    BY <1>3, <1>14 DEF ClearInvalidModel
  <2>2. row # RowOf[k]
    BY <1>1, <1>14, PersistenceAssumption DEF ClearInvalidModel
  <2>3. rows'[RowOf[k]] = rows[RowOf[k]]
    BY <1>1, <1>4, <1>14, <2>2 DEF ClearInvalidModel, TypeInv
  <2>4. \A x : x.key = k => (x \in resetting' <=> x \in resetting)
    <3>1. resetting = {}
      BY <1>14 DEF ClearInvalidModel, IInv, ModeInv
    <3>2. \A x \in resetting' : x.key # k
      BY <1>14, <2>2 DEF ClearInvalidModel
    <3> QED
      BY <3>1, <3>2
  <2> QED
    BY <1>14, <2>1, <2>3, <2>4, EvidenceFrame DEF ClearInvalidModel
<1>15. ASSUME NEW x \in resetting, ResetKey(x)
       PROVE  Evidence(k)'
  <2>1. Evidence(k)
    BY <1>3, <1>15 DEF ResetKey
  <2>2. x.key # k
    <3>1. x.key = k => ~x.invalidOnly
      BY <1>1, PersistenceAssumption DEF IInv, ModeInv
    <3> QED
      BY <1>15, <3>1 DEF ResetKey
  <2>3. gate'[k] = gate[k]
    BY <1>1, <1>4, <1>15, <2>2 DEF ResetKey, TypeInv
  <2>4. \A y : y.key = k => (y \in calls' <=> y \in calls) /\ (y \in resetting' <=> y \in resetting)
    BY <1>15, <2>2 DEF ResetKey, Call
  <2> QED
    BY <1>15, <2>1, <2>3, <2>4, EvidenceFrame DEF ResetKey
<1>16. ASSUME NEW renewed \in {{}, Fenced, Key}, Reload(renewed)
       PROVE  Evidence(k)'
  <2>1. CASE k \in renewed
    BY <1>16, <2>1, RenewedEvidence
  <2>2. CASE k \notin renewed
    <3>1. Evidence(k)
      BY <1>3, <1>16, <2>2 DEF Reload
    <3>2. gate'[k] = gate[k] /\ gen'[k] = gen[k]
      BY <1>1, <1>16, <2>2 DEF Reload
    <3>3. \A x : x.key = k => (x \in calls' <=> x \in calls)
      BY <1>16, <2>2 DEF Reload, Call
    <3> QED
      BY <1>16, <3>1, <3>2, <3>3, EvidenceFrame DEF Reload
  <2> QED
    BY <2>1, <2>2
<1>17. CASE ReadRows
  BY <1>3, <1>17, ReadRowsEvidence DEF ReadRows
<1>18. ASSUME NEW row \in loading, RestoreRow(row)
       PROVE  Evidence(k)'
  <2>1. Evidence(k)
    BY <1>3, <1>18 DEF RestoreRow
  <2>2. CASE row.key = k
    BY <1>18, <2>1, <2>2, RestoreEvidence
  <2>3. CASE row.key # k
    <3>1. gate'[k] = gate[k]
      BY <1>1, <1>4, <1>18, <2>3 DEF RestoreRow, TypeInv
    <3>2. \A x : x.key = k => (x \in loading' <=> x \in loading)
      BY <1>18, <2>3 DEF RestoreRow
    <3> QED
      BY <1>18, <2>1, <3>1, <3>2, EvidenceFrame DEF RestoreRow
  <2> QED
    BY <2>2, <2>3
<1>19. CASE FinishReload
  BY <1>3, <1>19, FinishEvidence DEF FinishReload
<1>20. CASE Crash \/ Exit
  BY <1>3, <1>20, LostEvidence DEF Crash, Exit, Lost
<1>21. CASE Stop \/ Start
  BY <1>3, <1>21, StopEvidence DEF Stop, Start
<1>22. CASE StoreToggles
  BY <1>3, <1>22, EvidenceFrame DEF StoreToggles
<1>23. CASE UNCHANGED vars
  BY <1>3, <1>23, EvidenceFrame DEF vars
<1> QED
  BY <1>5, <1>6, <1>7, <1>8, <1>9, <1>10, <1>11, <1>12, <1>13, <1>14, <1>15, <1>16, <1>17, <1>18,
     <1>19, <1>20, <1>21, <1>22, <1>23 DEF Next

LEMMA InitEvidence == Init => EvidenceInv
<1> SUFFICES ASSUME Init, NEW k \in Fenced
             PROVE  Evidence(k)
  BY DEF EvidenceInv
<1>1. IInv
  BY InitIInv
<1>2. k \in Key /\ RowOf[k] \in Row
  BY PersistenceAssumption
<1>3. gate[k] = NoHealth(0) /\ DiskRow(k).state = NoHealth(0)
  BY <1>2 DEF Init, DiskRow, EmptyRow
<1>4. Messages = {} /\ loading = {} /\ calls = {} /\ pending = {} /\ batch = {} /\ mode = "serving"
  BY DEF Init, Messages
<1>5. NoHealth(0).attempt = 0 /\ ~NoHealth(0).known
  BY DEF NoHealth
<1>6. NeutralGone(k) /\ RowIsOlder(k) /\ GateIsNewest(k) /\ OlderIsFollowed(k) /\ Kept(k)
  BY <1>3, <1>4, <1>5 DEF NeutralGone, RowIsOlder, GateIsNewest, OlderIsFollowed, Kept, Live
<1> QED
  BY <1>4, <1>6 DEF Evidence

\* If an explicit reset visits every authentication key whose row it empties,
\* the last evidence of a rejected credential is never lost between the gate
\* and its row, through coalescing, failed writes, dead letters, replays of old
\* records, concurrent reloads, crashes and restarts.
THEOREM EvidenceCorrect ==
  ASSUME Fenced \subseteq Resettable
  PROVE  Spec => []AuthEvidenceIsKept
<1>1. Init => IInv /\ EvidenceInv
  BY InitIInv, InitEvidence
<1>2. IInv /\ EvidenceInv /\ [Next]_vars => (IInv /\ EvidenceInv)'
  BY NextKeepsIInv, EvidenceStep
<1>3. EvidenceInv => AuthEvidenceIsKept
  BY DEF EvidenceInv, Evidence, Kept, DiskRow, AuthEvidenceIsKept
<1> QED
  BY <1>1, <1>2, <1>3, PTL DEF Spec

====
