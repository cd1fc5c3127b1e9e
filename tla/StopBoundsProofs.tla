---- MODULE StopBoundsProofs ----
(***************************************************************************)
(* The bounds of StopSequence: the session cache never holds more entries  *)
(* than it may, and neither queue more elements, whatever is saved,        *)
(* invalidated, evicted, given back or preloaded.                          *)
(***************************************************************************)
EXTENDS StopSequenceProofs, WellFoundedInduction

(***************************************************************************)
(* Finite sets of sessions, ordered by the version of their entries.       *)
(***************************************************************************)
\* Of some sessions, one has the oldest entry (evictLocked, and the root of the
\* heap in preload).
LEMMA OldestExists ==
  ASSUME NEW disk \in [Session -> EntryType], NEW S, S \subseteq Session, S # {}
  PROVE  \E m \in S : \A t \in S : disk[m].version <= disk[t].version
<1> DEFINE V == {disk[k].version : k \in S}
           R == OpToRel(<, Nat)
<1>1. V \subseteq Nat /\ V # {}
  BY DEF EntryType
<1>2. IsWellFoundedOn(R, Nat)
  BY NatLessThanWellFounded
<1>3. \A x, y \in Nat : <<y, x>> \in R <=> y < x
  BY DEF OpToRel
<1> HIDE DEF R, V
<1>4. \E x \in V : \A y \in V : ~(<<y, x>> \in R)
  BY <1>1, <1>2, WFMin
<1>5. PICK x \in V : \A y \in V : ~(<<y, x>> \in R)
  BY <1>4
<1>6. ASSUME NEW y \in V PROVE x <= y
  <2>1. x \in Nat /\ y \in Nat /\ ~(<<y, x>> \in R)
    BY <1>1, <1>5
  <2>2. ~(y < x)
    BY <1>3, <2>1, Zenon
  <2> QED
    BY <2>1, <2>2
<1> QED
  BY <1>5, <1>6 DEF V

\* Sessions that fewer than MaxEntries others beat are at most MaxEntries, when
\* no two entries have the same version.
LEMMA NewestFit ==
  ASSUME NEW disk \in [Session -> EntryType], NEW able, able \subseteq Session,
         \A k, s \in able : disk[k].version = disk[s].version => k = s
  PROVE  Cardinality({k \in able :
           Cardinality({s \in able : disk[s].version > disk[k].version}) < MaxEntries}) <= MaxEntries
<1> DEFINE newer(k) == {s \in able : disk[s].version > disk[k].version}
           kept == {k \in able : Cardinality(newer(k)) < MaxEntries}
<1>1. /\ IsFiniteSet(able) /\ IsFiniteSet(kept) /\ Cardinality(kept) \in Nat
      /\ \A k \in able : IsFiniteSet(newer(k)) /\ Cardinality(newer(k)) \in Nat
      /\ MaxEntries \in Nat \ {0}
  <2>1. IsFiniteSet(able) /\ MaxEntries \in Nat \ {0}
    BY SessionCacheAssumption, FS_Subset
  <2>2. kept \in SUBSET able /\ \A k \in able : newer(k) \in SUBSET able
    OBVIOUS
  <2> HIDE DEF newer, kept
  <2>3. IsFiniteSet(kept) /\ \A k \in able : IsFiniteSet(newer(k))
    BY <2>1, <2>2, FS_Subset
  <2> QED
    BY <2>1, <2>3, FS_CardinalityType
<1>2. ASSUME kept = {} PROVE Cardinality(kept) <= MaxEntries
  <2> HIDE DEF kept
  <2> QED
    BY <1>1, <1>2, FS_EmptySet
<1>3. ASSUME kept # {} PROVE Cardinality(kept) <= MaxEntries
  <2>1. kept \subseteq able /\ kept \subseteq Session
    OBVIOUS
  <2> HIDE DEF kept
  <2>2. PICK m \in kept : \A t \in kept : disk[m].version <= disk[t].version
    BY <1>3, <2>1, OldestExists
  <2>3. kept \ {m} \subseteq newer(m)
    <3>1. ASSUME NEW t \in kept \ {m} PROVE disk[t].version > disk[m].version
      BY <2>1, <2>2, <3>1 DEF EntryType
    <3> QED
      BY <2>1, <3>1
  <2>4. Cardinality(newer(m)) < MaxEntries /\ m \in able
    BY <2>1, <2>2 DEF kept
  <2> HIDE DEF newer
  <2>5. IsFiniteSet(kept \ {m}) /\ Cardinality(kept \ {m}) = Cardinality(kept) - 1
    BY <1>1, <2>2, FS_RemoveElement
  <2>6. Cardinality(kept \ {m}) <= Cardinality(newer(m))
    BY <1>1, <2>3, <2>4, FS_Subset
  <2> QED
    BY <1>1, <2>2, <2>4, <2>5, <2>6
<1> QED
  BY <1>2, <1>3

\* What preload takes over fits the cache.
LEMMA PreloadFits ==
  ASSUME NEW disk \in [Session -> EntryType],
         \A k, s \in Session :
           Loadable(disk[k]) /\ Loadable(disk[s]) /\ disk[k].version = disk[s].version => k = s,
         NEW kept, kept = Preloaded(disk)
  PROVE  Cardinality({k \in Session : Present(kept[k])}) <= MaxEntries
<1> DEFINE able == {k \in Session : Loadable(disk[k])}
           newer(k) == {s \in able : disk[s].version > disk[k].version}
           chosen == {k \in able : Cardinality(newer(k)) < MaxEntries}
           held == {k \in Session : Present(kept[k])}
<1>1. kept = [k \in Session |-> IF k \in able /\ Cardinality(newer(k)) < MaxEntries
                                THEN Entry(disk[k].version, TRUE) ELSE NoEntry]
  BY DEF Preloaded
<1>2. ~Present(NoEntry)
  BY DEF Present, NoEntry
<1>3. held \subseteq chosen
  BY <1>1, <1>2
<1>4. chosen \subseteq able /\ able \subseteq Session
  OBVIOUS
<1>5. IsFiniteSet(chosen)
  <2> HIDE DEF chosen, able
  <2> QED
    BY <1>4, SessionCacheAssumption, FS_Subset
<1>6. Cardinality(chosen) <= MaxEntries
  <2>1. \A k, s \in able : disk[k].version = disk[s].version => k = s
    OBVIOUS
  <2> HIDE DEF able
  <2> QED
    BY <1>4, <2>1, NewestFit, Zenon
<1>7. Cardinality(held) <= Cardinality(chosen) /\ Cardinality(held) \in Nat /\ Cardinality(chosen) \in Nat
  <2> HIDE DEF held, chosen
  <2> QED
    BY <1>3, <1>5, FS_Subset, FS_CardinalityType
<1> HIDE DEF chosen
<1> QED
  BY <1>6, <1>7, SessionCacheAssumption

(***************************************************************************)
(* The inductive invariant.                                                *)
(***************************************************************************)
\* No version names states of two sessions, so the newest can be told apart.
SavedApart == \A k, s \in Session : k # s => saved[k] \cap saved[s] = {}

CacheFits == Cardinality(Occupied) <= MaxEntries

QueueFits == Len(writes) <= QueueSize

EventsFit == Len(events) <= Buffer

\* The cache holds finitely many sessions.
LEMMA OccupiedFinite ==
  /\ IsFiniteSet(Occupied) /\ Cardinality(Occupied) \in Nat
  /\ \A S : S \subseteq Occupied => IsFiniteSet(S) /\ Cardinality(S) \in Nat
                                    /\ Cardinality(S) <= Cardinality(Occupied)
<1>1. Occupied \in SUBSET Session
  BY DEF Occupied
<1>2. IsFiniteSet(Occupied)
  BY <1>1, SessionCacheAssumption, FS_Subset
<1> QED
  BY <1>2, FS_Subset, FS_CardinalityType

\* A cache that gets no new entry still fits.
LEMMA ShrinkingFits ==
  ASSUME CacheFits, \A k \in Session : Present(entries[k])' => Present(entries[k])
  PROVE  CacheFits'
<1>1. Occupied' \subseteq Occupied
  BY DEF Occupied
<1> QED
  BY <1>1, OccupiedFinite, SessionCacheAssumption DEF CacheFits

\* A save of a session that is not cached evicts before it enters.
LEMMA SaveFits ==
  ASSUME TypeInv, CacheFits, NEW r \in Request, call[r].session \in Session,
         NEW usable \in BOOLEAN, Save(r, usable)
  PROVE  CacheFits'
<1> DEFINE k == call[r].session
           kept == Occupied \ Stale
<1>1. /\ \A s \in Session : s # k =>
           entries'[s] = IF s \in Evicted(k) THEN NoEntry ELSE entries[s]
      /\ k \in Session
  BY DEF Save
<1>2. ~Present(NoEntry)
  BY DEF Present, NoEntry
<1>3. Occupied' \subseteq (Occupied \ Evicted(k)) \cup {k}
  BY <1>1, <1>2 DEF Occupied
<1>4. MaxEntries \in Nat \ {0} /\ IsFiniteSet(Occupied) /\ Cardinality(Occupied) \in Nat
  BY OccupiedFinite, SessionCacheAssumption
<1>5. ASSUME NEW S, S \subseteq Occupied, Occupied' \subseteq S \cup {k}, Cardinality(S) < MaxEntries
      PROVE  CacheFits'
  <2>1. IsFiniteSet(S) /\ Cardinality(S) \in Nat
    BY <1>5, OccupiedFinite
  <2> HIDE DEF k
  <2>2. IsFiniteSet(S \cup {k}) /\ Cardinality(S \cup {k}) <= Cardinality(S) + 1
    <3>1. /\ IsFiniteSet(S \cup {k})
          /\ Cardinality(S \cup {k}) = IF k \in S THEN Cardinality(S) ELSE Cardinality(S) + 1
      BY <2>1, FS_AddElement
    <3> QED
      BY <2>1, <3>1
  <2>3. Cardinality(Occupied') <= Cardinality(S \cup {k}) /\ Cardinality(Occupied') \in Nat
        /\ Cardinality(S \cup {k}) \in Nat
    BY <1>5, <2>2, FS_Subset, FS_CardinalityType
  <2> QED
    BY <1>4, <1>5, <2>1, <2>2, <2>3 DEF CacheFits
<1>6. CASE k \in Occupied
  <2>1. Occupied' \subseteq Occupied
    BY <1>3, <1>6
  <2> QED
    BY <2>1, <1>4, OccupiedFinite DEF CacheFits
<1>7. CASE Cardinality(Occupied) < MaxEntries
  BY <1>3, <1>5, <1>7
<1>8. CASE k \notin Occupied /\ ~(Cardinality(Occupied) < MaxEntries)
  <2>1. Evicted(k) = Stale \cup (IF Cardinality(kept) < MaxEntries THEN {}
                                 ELSE {s \in kept : \A t \in kept :
                                         entries[s].version <= entries[t].version})
    BY <1>8 DEF Evicted
  <2>2. CASE Cardinality(kept) < MaxEntries
    <3>1. kept \subseteq Occupied /\ Occupied' \subseteq kept \cup {k}
      BY <1>3, <2>1, <2>2
    <3> QED
      BY <1>5, <2>2, <3>1
  <2>3. CASE ~(Cardinality(kept) < MaxEntries)
    <3>1. kept \subseteq Occupied /\ IsFiniteSet(kept) /\ Cardinality(kept) \in Nat
          /\ Cardinality(kept) <= Cardinality(Occupied)
      BY OccupiedFinite
    <3>2. kept # {} /\ kept \subseteq Session
      BY <1>4, <2>3, <3>1, FS_EmptySet DEF Occupied
    <3>3. PICK m \in kept : \A t \in kept : entries[m].version <= entries[t].version
      BY <3>2, OldestExists DEF TypeInv
    <3>4. m \in Evicted(k) /\ Stale \subseteq Evicted(k)
      BY <2>1, <2>3, <3>3
    <3>5. Occupied' \subseteq (kept \ {m}) \cup {k} /\ kept \ {m} \subseteq Occupied
      BY <1>3, <3>4
    <3>6. Cardinality(kept \ {m}) = Cardinality(kept) - 1
      BY <3>1, <3>3, FS_RemoveElement
    <3>7. Cardinality(kept \ {m}) < MaxEntries
      BY <1>4, <3>1, <3>6 DEF CacheFits
    <3> QED
      BY <1>5, <3>5, <3>7
  <2> QED
    BY <2>2, <2>3
<1> QED
  BY <1>6, <1>7, <1>8

\* The preload of a new process fits: usable rows differ in their versions.
LEMMA NewFits ==
  ASSUME SessionInv, SavedApart, New
  PROVE  CacheFits'
<1> DEFINE disk == [k \in Session |-> IF authority /\ Fresh(rows[k]) THEN rows[k] ELSE NoEntry]
<1>1. rows \in [Session -> EntryType] /\ NoEntry \in EntryType /\ ~Loadable(NoEntry)
  BY DEF SessionInv, TypeInv, NoEntry, EntryType, Loadable
<1>2. disk \in [Session -> EntryType]
  BY <1>1
<1>3. entries' = Preloaded(disk)
  BY DEF New
<1>4. ASSUME NEW k \in Session, Loadable(disk[k])
      PROVE  disk[k] = rows[k] /\ rows[k].version \in saved[k]
  <2>1. disk[k] = rows[k]
    BY <1>1, <1>4
  <2>2. rows[k].usable
    BY <1>4, <2>1 DEF Loadable
  <2> QED
    BY <2>1, <2>2 DEF SessionInv, EntryInv
<1>5. ASSUME NEW k \in Session, NEW s \in Session, Loadable(disk[k]), Loadable(disk[s]),
             disk[k].version = disk[s].version
      PROVE  k = s
  BY <1>4, <1>5 DEF SavedApart
<1> HIDE DEF disk
<1>6. Cardinality({k \in Session : Present(entries'[k])}) <= MaxEntries
  BY <1>2, <1>3, <1>5, PreloadFits
<1> QED
  BY <1>6 DEF CacheFits, Occupied

\* Every step keeps the cache within its bound.
LEMMA CacheStep ==
  ASSUME SessionInv, SavedApart, CacheFits, [Next]_vars
  PROVE  CacheFits'
<1>1. ~Present(NoEntry)
  BY DEF Present, NoEntry
<1>2. ASSUME NEW r \in Request, NEW k \in Session, Load(r, k) PROVE CacheFits'
  <2>1. \A s \in Session : entries'[s] = entries[s] \/ entries'[s] = NoEntry
    BY <1>2 DEF Load, SessionInv, TypeInv
  <2> QED
    BY <1>1, <2>1, ShrinkingFits
<1>3. ASSUME NEW r \in Request, NEW usable \in BOOLEAN, Save(r, usable) PROVE CacheFits'
  <2>1. call[r].session \in Session
    BY <1>3 DEF Save, SessionInv, CallInv
  <2> QED
    BY <1>3, <2>1, SaveFits DEF SessionInv
<1>4. ASSUME NEW r \in Request, Invalidate(r) PROVE CacheFits'
  <2>1. \A s \in Session : entries'[s] = entries[s] \/ (s = call[r].session /\ Present(entries[s]))
    BY <1>4 DEF Invalidate, Matches, SessionInv, TypeInv
  <2> QED
    BY <2>1, ShrinkingFits
<1>5. ASSUME WriteRow PROVE CacheFits'
  BY <1>5, ShrinkingFits DEF WriteRow
<1>6. ASSUME Acknowledge PROVE CacheFits'
  <2>1. PICK done \in inflight :
          LET w == done.write
              marked == w.by # "none" /\ entries[w.session] = w.entry
          IN /\ w \in Outstanding /\ w.session \in Session
             /\ \A s \in Session \ {w.session} : entries'[s] = entries[s]
             /\ entries'[w.session] = IF marked THEN IF done.ok THEN NoEntry ELSE w.prior
                                      ELSE entries[w.session]
    BY <1>6, AcknowledgeFacts
  <2>2. done.write.entry.version # 0
    BY <2>1 DEF SessionInv, WriteInv
  <2>3. \A s \in Session : entries'[s] = entries[s] \/ Present(entries[s])
    BY <2>1, <2>2 DEF Present
  <2> QED
    BY <2>3, ShrinkingFits
<1>7. ASSUME NEW v \in 1..version, Expire(v) PROVE CacheFits'
  BY <1>7, ShrinkingFits DEF Expire, memoryVars
<1>8. ASSUME CallStep PROVE CacheFits'
  BY <1>8, ShrinkingFits DEF CallStep, StoreVars
<1>9. TypeInv
  BY DEF SessionInv
<1> QED
  BY <1>2, <1>3, <1>4, <1>5, <1>6, <1>7, <1>8, <1>9, NewFits, SessionCases

\* Saves and invalidations are queued only while there is room, and writes leave
\* the queue at its head.
LEMMA QueueStep ==
  ASSUME SessionInv, QueueFits, [Next]_vars
  PROVE  QueueFits'
<1>1. writes \in Seq(WriteType) /\ QueueSize \in Nat \ {0}
  BY SessionCacheAssumption DEF SessionInv, TypeInv
<1>2. ASSUME UNCHANGED writes PROVE QueueFits'
  BY <1>2 DEF QueueFits
<1>3. ASSUME NEW w \in WriteType, Len(writes) < QueueSize, writes' = Append(writes, w)
      PROVE  QueueFits'
  <2>1. Len(writes') = Len(writes) + 1 /\ Len(writes) \in Nat
    BY <1>1, <1>3
  <2> QED
    BY <1>1, <1>3, <2>1 DEF QueueFits
<1>4. ASSUME NEW r \in Request, NEW usable \in BOOLEAN, Save(r, usable) PROVE QueueFits'
  <2> DEFINE w == [session |-> call[r].session, entry |-> Entry(version + 1, usable),
                   prior |-> NoEntry, expected |-> 0, by |-> "none"]
  <2>1. call[r].session \in Session
    BY <1>4 DEF Save, SessionInv, CallInv
  <2>2. w \in WriteType
    BY <2>1 DEF SessionInv, TypeInv, WriteType, EntryType, Entry, NoEntry
  <2>3. writes' = Enqueue(w)
    BY <1>4 DEF Save
  <2> HIDE DEF w
  <2> QED
    BY <1>2, <1>3, <2>2, <2>3 DEF Enqueue
<1>5. ASSUME NEW r \in Request, Invalidate(r) PROVE QueueFits'
  <2> DEFINE k == call[r].session
             w == [session |-> k, entry |-> Entry(version + 1, FALSE), prior |-> entries[k],
                   expected |-> call[r].loaded, by |-> r]
  <2>1. k \in Session /\ call[r].loaded \in Nat
    BY <1>5 DEF Invalidate, SessionInv, CallInv, TypeInv, CallType
  <2>2. w \in WriteType
    BY <2>1 DEF SessionInv, TypeInv, WriteType, EntryType, Entry
  <2>3. UNCHANGED writes \/ (Len(writes) < QueueSize /\ writes' = Append(writes, w))
    BY <1>5 DEF Invalidate
  <2> HIDE DEF w
  <2> QED
    BY <1>2, <1>3, <2>2, <2>3
<1>6. ASSUME WriteRow PROVE QueueFits'
  <2>1. writes # <<>> /\ writes' = Tail(writes)
    BY <1>6 DEF WriteRow
  <2>2. Len(writes') = Len(writes) - 1 /\ Len(writes) \in Nat
    BY <1>1, <2>1
  <2> QED
    BY <1>1, <2>2 DEF QueueFits
<1>7. ASSUME New PROVE QueueFits'
  <2>1. Len(writes') = 0
    BY <1>7 DEF New
  <2> QED
    BY <1>1, <2>1 DEF QueueFits
<1>8. ASSUME \/ \E r \in Request, k \in Session : Load(r, k)
             \/ Acknowledge \/ CallStep \/ \E v \in 1..version : Expire(v)
      PROVE  UNCHANGED writes
  BY <1>8 DEF Load, Acknowledge, CallStep, StoreVars, Expire, memoryVars
<1>9. TypeInv
  BY DEF SessionInv
<1> QED
  BY <1>2, <1>4, <1>5, <1>6, <1>7, <1>8, <1>9, SessionCases

\* A version is saved for one session: it is given out once.
LEMMA SavedStep ==
  ASSUME SessionInv, SavedApart, [Next]_vars
  PROVE  SavedApart'
<1>1. ASSUME UNCHANGED saved PROVE SavedApart'
  BY <1>1 DEF SavedApart
<1>2. ASSUME NEW r \in Request, NEW usable \in BOOLEAN, Save(r, usable) PROVE SavedApart'
  <2>1. /\ version' = version + 1 /\ version \in Nat
        /\ \A k \in Session : saved[k] \subseteq 1..version
        /\ saved \in [Session -> SUBSET Nat]
    BY <1>2 DEF Save, SessionInv, TypeInv, VersionInv
  <2>2. saved' = IF usable THEN [saved EXCEPT ![call[r].session] = @ \cup {version'}] ELSE saved
    BY <1>2 DEF Save
  <2>3. \A k \in Session : saved'[k] = saved[k] \/ (k = call[r].session /\ saved'[k] = saved[k] \cup {version'})
    BY <2>1, <2>2
  <2>4. \A k \in Session : version' \notin saved[k]
    BY <2>1
  <2> QED
    BY <2>3, <2>4 DEF SavedApart
<1>3. ASSUME \/ \E r \in Request, k \in Session : Load(r, k)
             \/ \E r \in Request : Invalidate(r)
             \/ WriteRow \/ Acknowledge \/ CallStep \/ New
             \/ \E v \in 1..version : Expire(v)
      PROVE  UNCHANGED saved
  BY <1>3 DEF Load, Invalidate, WriteRow, Acknowledge, CallStep, New, StoreVars, Expire
<1>4. TypeInv
  BY DEF SessionInv
<1> QED
  BY <1>1, <1>2, <1>3, <1>4, SessionCases

\* A usage event that finds the queue full is counted instead (EmitUsage).
LEMMA EventsStep ==
  ASSUME UsageInv, EventsFit, [Next]_vars
  PROVE  EventsFit'
<1>1. events \in Seq(Attempt) /\ Buffer \in Nat \ {0}
  BY UsageAssumption DEF UsageInv
<1>2. ASSUME UNCHANGED events PROVE EventsFit'
  BY <1>2 DEF EventsFit
<1>3. ASSUME NEW a \in Attempt, Finish(a) PROVE EventsFit'
  <2>1. UNCHANGED events \/ (Len(events) < Buffer /\ events' = Append(events, a))
    BY <1>3 DEF Finish
  <2>2. Len(Append(events, a)) = Len(events) + 1 /\ Len(events) \in Nat
    BY <1>1
  <2> QED
    BY <1>1, <1>2, <2>1, <2>2 DEF EventsFit
<1>4. ASSUME Receive PROVE EventsFit'
  <2>1. events # <<>> /\ events' = Tail(events)
    BY <1>4 DEF Receive
  <2>2. Len(events') = Len(events) - 1 /\ Len(events) \in Nat
    BY <1>1, <2>1
  <2> QED
    BY <1>1, <2>2 DEF EventsFit
<1>5. ASSUME NewAccounting PROVE EventsFit'
  <2>1. Len(events') = 0
    BY <1>5 DEF NewAccounting
  <2> QED
    BY <1>1, <2>1 DEF EventsFit
<1>6. ASSUME (\E a \in Attempt : Open(a)) \/ SaveUsageEvent PROVE UNCHANGED events
  BY <1>6 DEF Open, SaveUsageEvent
<1> QED
  BY <1>2, <1>3, <1>4, <1>5, <1>6, UsageCases

(***************************************************************************)
(* The stages and workers have the values the model gives them.            *)
(***************************************************************************)
StageType ==
  /\ writer \in {"running", "exited"} /\ consumer \in {"running", "exited"}
  /\ stage \in {"serving", "stopping", "draining", "exited"}

\* Stages and workers keep their values.
LEMMA StageTypeStep ==
  ASSUME StageType, [Next]_vars
  PROVE  StageType'
<1> USE DEF StageType, vars, sessionVars, memoryVars, usageVars, stageVars
<1>1. CASE \E r \in Request : (\E k \in Session : Begin(r, k)) \/ HandlerStep(r) \/ Disconnect(r)
  BY <1>1 DEF Begin, Load, Open, HandlerStep, Accepted, Enter, SaveState, Save, ContinuityInvalid,
     InvalidateState, Invalidate, StopWaiting, Leave, Report, Finish, Disconnect
<1>2. CASE Persist \/ Answer \/ WriterExits
  BY <1>2 DEF Persist, WriteRow, Answer, Acknowledge, WriterExits
<1>3. CASE Consume
  BY <1>3 DEF Consume, Receive, SaveUsageEvent, ConsumerExits
<1>4. CASE BeginStop \/ StopStep \/ GiveUp \/ EndBudget
  BY <1>4 DEF BeginStop, StopStep, Shutdown, Exit, GiveUp, Cleanup, CloseEvents, EndBudget,
     CancelPersistence
<1>5. CASE Restart
  BY <1>5 DEF Restart, New, NewAccounting
<1>6. CASE World
  BY <1>6 DEF World, AuthorityChanges, Expire
<1>7. CASE UNCHANGED vars
  BY <1>7
<1> QED
  BY <1>1, <1>2, <1>3, <1>4, <1>5, <1>6, <1>7 DEF Next

(***************************************************************************)
(* The theorem.                                                            *)
(***************************************************************************)
BoundInv == SavedApart /\ CacheFits /\ QueueFits /\ EventsFit /\ StageType

\* The bounds hold when the first process starts.
LEMMA BoundStart == ASSUME Init PROVE BoundInv
<1>1. /\ rows \in [Session -> EntryType] /\ rows \in FirstRows
      /\ \A k, s \in Session : k # s /\ rows[k].version = rows[s].version => rows[k].version = 0
      /\ \A k \in Session : rows[k].usable => rows[k].version # 0
  BY SessionCacheAssumption DEF Init, SessionInit
<1>2. SavedApart
  <2>1. \A k \in Session : saved[k] = IF rows[k].usable THEN {rows[k].version} ELSE {}
    BY DEF Init, SessionInit
  <2>2. ASSUME NEW k \in Session, NEW s \in Session, k # s, NEW v, v \in saved[k], v \in saved[s]
        PROVE  FALSE
    <3>1. rows[k].usable /\ v = rows[k].version /\ rows[s].usable /\ v = rows[s].version
      BY <2>1, <2>2
    <3> QED
      BY <1>1, <2>2, <3>1
  <2> QED
    BY <2>2 DEF SavedApart
<1>3. CacheFits
  <2>1. \A k, s \in Session :
          Loadable(rows[k]) /\ Loadable(rows[s]) /\ rows[k].version = rows[s].version => k = s
    BY <1>1 DEF Loadable, Present
  <2>2. Cardinality({k \in Session : Present(entries[k])}) <= MaxEntries
    BY <1>1, <2>1, PreloadFits DEF Init, SessionInit
  <2> QED
    BY <2>2 DEF CacheFits, Occupied
<1>4. QueueFits /\ EventsFit
  <2>1. Len(writes) = 0 /\ Len(events) = 0
    BY DEF Init, SessionInit, UsageInit
  <2> QED
    BY <2>1, SessionCacheAssumption, UsageAssumption DEF QueueFits, EventsFit
<1>5. StageType
  BY DEF Init, SessionInit, UsageInit, StageType
<1> QED
  BY <1>2, <1>3, <1>4, <1>5 DEF BoundInv

\* The invariants make up the type invariant that the run checks.
LEMMA TypesHold ==
  ASSUME SessionInv, UsageInv, BoundInv
  PROVE  TypeOK
<1>1. /\ entries \in [Session -> EntryType] /\ rows \in [Session -> EntryType]
      /\ \A i \in DOMAIN writes : writes[i] \in WriteType
      /\ \A i \in inflight : i.write \in WriteType /\ i.ok \in BOOLEAN
  <2>1. DOMAIN writes = 1..Len(writes) /\ writes \in Seq(WriteType)
    BY DEF SessionInv, TypeInv
  <2> QED
    BY <2>1 DEF SessionInv, TypeInv
<1>2. floor \in [Session -> 0..version]
  BY DEF SessionInv, TypeInv, VersionInv
<1>3. \A r \in Request : call[r].loaded \in 0..version
  BY DEF SessionInv, TypeInv, CallInv, CallType
<1>4. Cardinality(Occupied) <= MaxEntries /\ Len(writes) <= QueueSize /\ Len(events) <= Buffer
  BY DEF BoundInv, CacheFits, QueueFits, EventsFit
<1>5. hand \subseteq Attempt /\ tally \in [Attempt -> Seq(Fates)]
  BY DEF UsageInv
<1> QED
  BY <1>1, <1>2, <1>3, <1>4, <1>5 DEF TypeOK, BoundInv, StageType

\* The cache never exceeds maxEntries, whether entries are saved, given back by
\* a failed invalidation or preloaded, and both queues stay within their bounds
\* (evictLocked, preload, EmitUsage).
THEOREM StopTypeCorrect == Spec => []TypeOK
<1> DEFINE IInv == SessionInv /\ UsageInv /\ BoundInv
<1>1. Init => IInv
  BY InitSession, UsageStart, BoundStart
<1>2. IInv /\ [Next]_vars => IInv'
  BY SessionStep, UsageStep, SavedStep, CacheStep, QueueStep, EventsStep, StageTypeStep DEF BoundInv
<1>3. IInv => TypeOK
  BY TypesHold
<1> QED
  BY <1>1, <1>2, <1>3, PTL DEF Spec
====
