---- MODULE StopSequenceProofs ----
(***************************************************************************)
(* Theorems about StopSequence, for every set of sessions and requests and *)
(* every bound: the session cache implements SessionStore, and what was    *)
(* invalidated, counted and drained.                                       *)
(***************************************************************************)
EXTENDS StopSequence, FiniteSetTheorems, TLAPS

(***************************************************************************)
(* The inductive invariant of the session cache.                           *)
(***************************************************************************)
Queued == {writes[i] : i \in DOMAIN writes}
Taken == {x.write : x \in inflight}
Outstanding == Queued \cup Taken

CallType ==
  [at : {"none", "loaded", "saving", "invalidating", "waiting", "returned"},
   session : Session \cup {"none"}, loaded : Nat, gone : BOOLEAN]

TypeInv ==
  /\ version \in Nat
  /\ entries \in [Session -> EntryType] /\ rows \in [Session -> EntryType]
  /\ floor \in [Session -> Nat] /\ saved \in [Session -> SUBSET Nat] /\ expired \subseteq Nat
  /\ writes \in Seq(WriteType)
  /\ inflight \subseteq [write : WriteType, ok : BOOLEAN] /\ \A x, y \in inflight : x = y
  /\ call \in [Request -> CallType]

\* Versions are given out in order. A marker, unlike a saved state, expires
\* after everything that is older.
VersionInv ==
  /\ \A k \in Session :
       /\ entries[k].version <= version /\ floor[k] <= version
       /\ \A v \in saved[k] : v \in 1..version
  /\ \A v \in expired :
       v <= version /\ ((\E k \in Session : v \in saved[k]) \/ 1..(v - 1) \subseteq expired)

\* A usable state was saved; a row is the last version that reached the disk.
EntryInv ==
  \A k \in Session :
    /\ entries[k].usable <=> entries[k].version \in saved[k]
    /\ rows[k].usable <=> rows[k].version \in saved[k]
    /\ rows[k].version # 0 => rows[k].version = floor[k]

\* A write is a save, or the marker of an invalidation with the state it hides.
WriteInv ==
  \A w \in Outstanding :
    /\ w.entry.version \in 1..version
    /\ w.entry.usable <=> w.entry.version \in saved[w.session]
    /\ w.by # "none" =>
         /\ ~w.entry.usable /\ \A k \in Session : w.entry.version \notin saved[k]
         /\ w.prior.usable /\ w.prior.version = w.expected
         /\ w.expected \in saved[w.session] /\ w.expected < w.entry.version

\* Writes are taken in the order of their versions, and only then reach the disk.
OrderInv ==
  /\ \A i, j \in DOMAIN writes : i < j => writes[i].entry.version < writes[j].entry.version
  /\ \A w \in Queued :
       /\ \A k \in Session : floor[k] < w.entry.version
       /\ \A x \in Taken : x.entry.version < w.entry.version

\* The entry of a session is gone, or its last outstanding write or newer; what
\* a marker hides is not older than the writes before it.
LastInv ==
  /\ \A w \in Outstanding :
       \/ entries[w.session].version = 0 \/ entries[w.session] = w.entry
       \/ entries[w.session].version > w.entry.version
  /\ \A w, x \in Outstanding :
       w.session = x.session /\ x.by # "none" /\ w.entry.version < x.entry.version =>
         w.entry.version <= x.prior.version

\* What a request knows: the state it loaded, and the invalidation it waits for.
CallInv ==
  /\ \A r \in Request :
       /\ call[r].at \in {"loaded", "saving", "invalidating", "waiting"} \/ call[r].gone =>
            call[r].session \in Session
       /\ call[r].loaded <= version
       /\ call[r].loaded # 0 =>
            call[r].session \in Session /\ call[r].loaded \in saved[call[r].session]
       /\ call[r].gone => call[r].at = "returned"
  /\ \A w \in Outstanding : w.by # "none" =>
       /\ call[w.by].at \in {"waiting", "returned"}
       /\ call[w.by].at = "waiting" =>
            call[w.by].session = w.session /\ call[w.by].loaded = w.expected

\* After a successful invalidation everything of the session that is usable, or
\* may become usable again, is newer than what the request had loaded.
Newer(k, v) ==
  /\ entries[k].usable => entries[k].version > v
  /\ rows[k].usable => rows[k].version > v
  /\ \A w \in Outstanding : w.session = k =>
       /\ w.entry.version > v
       /\ w.by # "none" => w.prior.version > v

GoneInv ==
  /\ \A r \in Request, k \in Session, v \in Nat :
       call[r].gone /\ call[r].session = k /\ call[r].loaded = v => Newer(k, v)
  /\ \A x \in inflight : x.ok => rows[x.write.session] = x.write.entry

SessionInv ==
  /\ TypeInv /\ VersionInv /\ EntryInv /\ WriteInv /\ OrderInv /\ LastInv /\ CallInv /\ GoneInv

LEMMA InitSession == ASSUME Init PROVE SessionInv
<1>1. /\ version \in Nat /\ version = Cardinality(Session)
      /\ rows \in [Session -> EntryType]
      /\ \A k \in Session : rows[k].version <= version /\ (rows[k].usable => rows[k].version # 0)
  BY SessionCacheAssumption, FS_CardinalityType DEF Init, SessionInit
<1>2. /\ entries \in [Session -> EntryType]
      /\ \A k \in Session :
           entries[k] = NoEntry \/ (rows[k].usable /\ rows[k].version # 0 /\ entries[k] = Entry(rows[k].version, TRUE))
  <2>1. /\ entries = Preloaded(rows)
        /\ \A k \in Session :
             \/ entries[k] = NoEntry
             \/ Loadable(rows[k]) /\ entries[k] = Entry(rows[k].version, TRUE)
    BY DEF Init, SessionInit, Preloaded
  <2>2. \A k \in Session : NoEntry \in EntryType /\ Entry(rows[k].version, TRUE) \in EntryType
    BY <1>1 DEF NoEntry, Entry, EntryType
  <2>3. entries \in [Session -> EntryType]
    BY <2>1, <2>2 DEF Preloaded
  <2> QED
    BY <2>1, <2>3 DEF Loadable, Present
<1>3. /\ floor = [k \in Session |-> rows[k].version]
      /\ saved = [k \in Session |-> IF rows[k].usable THEN {rows[k].version} ELSE {}]
      /\ expired = {} /\ writes = <<>> /\ inflight = {}
      /\ call = [r \in Request |-> NoCall]
  BY DEF Init, SessionInit
<1>4. Queued = {} /\ Taken = {} /\ Outstanding = {}
  BY <1>3 DEF Queued, Taken, Outstanding
<1>5. TypeInv
  BY <1>1, <1>2, <1>3 DEF TypeInv, EntryType, CallType, NoCall
<1>6. VersionInv
  BY <1>1, <1>2, <1>3 DEF VersionInv, EntryType, NoEntry, Entry
<1>7. EntryInv
  BY <1>1, <1>2, <1>3 DEF EntryInv, EntryType, NoEntry, Entry
<1>8. WriteInv /\ OrderInv /\ LastInv
  BY <1>3, <1>4 DEF WriteInv, OrderInv, LastInv
<1>9. CallInv
  BY <1>1, <1>3, <1>4 DEF CallInv, NoCall
<1>10. GoneInv
  BY <1>3 DEF GoneInv, NoCall
<1> QED
  BY <1>5, <1>6, <1>7, <1>8, <1>9, <1>10 DEF SessionInv

(***************************************************************************)
(* The steps, as far as the session cache is concerned.                    *)
(***************************************************************************)
StoreVars == <<version, entries, writes, inflight, rows, expired, saved, floor>>

\* A request goes on without touching the cache.
Advances(r) ==
  \/ call'[r] = call[r]
  \/ call'[r] = [NoCall EXCEPT !.at = "returned"]
  \/ /\ call[r].at = "loaded"
     /\ \E to \in {"saving", "invalidating"} : call'[r] = [call[r] EXCEPT !.at = to]

CallStep == UNCHANGED StoreVars /\ call' \in [Request -> CallType] /\ \A r \in Request : Advances(r)

LEMMA SessionCases ==
  ASSUME TypeInv, [Next]_vars
  PROVE  \/ stage = "serving" /\ \E r \in Request, k \in Session : Load(r, k)
         \/ \E r \in Request, usable \in BOOLEAN : Save(r, usable)
         \/ \E r \in Request : Invalidate(r)
         \/ WriteRow \/ Acknowledge
         \/ \E v \in 1..version : Expire(v)
         \/ New
         \/ CallStep
<1> USE DEF memoryVars
<1>1. ASSUME UNCHANGED sessionVars PROVE CallStep
  BY <1>1 DEF CallStep, StoreVars, sessionVars, Advances, TypeInv
<1>2. /\ NoCall \in CallType /\ [NoCall EXCEPT !.at = "returned"] \in CallType
      /\ \A c \in CallType, to \in {"saving", "invalidating"} : [c EXCEPT !.at = to] \in CallType
  BY DEF NoCall, CallType
<1>3. ASSUME NEW r \in Request, Return(r), UNCHANGED StoreVars PROVE CallStep
  BY <1>2, <1>3 DEF Return, CallStep, Advances, TypeInv
<1>4. ASSUME NEW r \in Request, NEW to \in {"saving", "invalidating"}, Enter(r, to) PROVE CallStep
  BY <1>2, <1>4 DEF Enter, CallStep, Advances, StoreVars, TypeInv
<1>5. ASSUME NEW r \in Request, HandlerStep(r)
      PROVE  \/ CallStep \/ (\E usable \in BOOLEAN : Save(r, usable)) \/ Invalidate(r)
  <2>1. CASE Accepted(r) \/ ContinuityInvalid(r)
    BY <1>4, <2>1 DEF Accepted, ContinuityInvalid
  <2>2. CASE SaveState(r) \/ InvalidateState(r)
    BY <2>2 DEF SaveState, InvalidateState
  <2>3. CASE StopWaiting(r)
    BY <1>3, <2>3 DEF StopWaiting, Leave, StoreVars
  <2>4. CASE Report(r)
    <3>1. UNCHANGED StoreVars /\ (Return(r) \/ UNCHANGED call)
      BY <2>4 DEF Report, StoreVars
    <3>2. CASE Return(r)
      BY <1>3, <3>1, <3>2
    <3>3. CASE UNCHANGED call
      BY <3>1, <3>3 DEF CallStep, Advances, TypeInv
    <3> QED
      BY <3>1, <3>2, <3>3
  <2> QED
    BY <1>5, <2>1, <2>2, <2>3, <2>4 DEF HandlerStep
<1>6. ASSUME NEW r \in Request, Disconnect(r) PROVE CallStep
  BY <1>6 DEF Disconnect, CallStep, StoreVars, Advances, TypeInv
<1>7. ASSUME WriterExits \/ BeginStop \/ AuthorityChanges PROVE CallStep
  BY <1>7 DEF WriterExits, BeginStop, AuthorityChanges, CallStep, StoreVars, Advances, TypeInv
<1>8. ASSUME Consume \/ StopStep \/ GiveUp \/ EndBudget PROVE UNCHANGED sessionVars
  BY <1>8 DEF Consume, StopStep, Shutdown, Exit, GiveUp, EndBudget, Cleanup
<1>9. CASE Next
  <2>1. CASE \E r \in Request : (\E k \in Session : Begin(r, k)) \/ HandlerStep(r) \/ Disconnect(r)
    BY <1>5, <1>6, <2>1 DEF Begin
  <2>2. CASE Persist \/ Answer
    BY <2>2 DEF Persist, Answer
  <2>3. CASE WriterExits \/ BeginStop
    BY <1>7, <2>3
  <2>4. CASE Consume \/ StopStep \/ GiveUp \/ EndBudget
    BY <1>1, <1>8, <2>4
  <2>5. CASE Restart
    BY <2>5 DEF Restart
  <2>6. CASE World
    BY <1>7, <2>6 DEF World
  <2> QED
    BY <1>9, <2>1, <2>2, <2>3, <2>4, <2>5, <2>6 DEF Next
<1>10. CASE UNCHANGED vars
  BY <1>1, <1>10 DEF vars
<1> QED
  BY <1>9, <1>10

(***************************************************************************)
(* The queue.                                                              *)
(***************************************************************************)
LEMMA AppendQueue ==
  ASSUME TypeInv, NEW w \in WriteType, writes' = Append(writes, w)
  PROVE  /\ writes' \in Seq(WriteType)
         /\ Queued' = Queued \cup {w}
         /\ \A i \in DOMAIN writes' :
              (i \in DOMAIN writes /\ writes'[i] = writes[i]) \/ (i = Len(writes) + 1 /\ writes'[i] = w)
<1>1. /\ writes' \in Seq(WriteType)
      /\ DOMAIN writes' = 1..(Len(writes) + 1) /\ DOMAIN writes = 1..Len(writes)
      /\ writes'[Len(writes) + 1] = w
      /\ \A i \in 1..Len(writes) : writes'[i] = writes[i]
      /\ Len(writes) \in Nat
  BY DEF TypeInv
<1>2. Queued' = Queued \cup {w}
  BY <1>1 DEF Queued
<1> QED
  BY <1>1, <1>2

LEMMA TailQueue ==
  ASSUME TypeInv, OrderInv, writes # <<>>, writes' = Tail(writes)
  PROVE  /\ writes' \in Seq(WriteType) /\ Head(writes) \in WriteType /\ Head(writes) \in Queued
         /\ Queued = Queued' \cup {Head(writes)}
         /\ \A w \in Queued' : Head(writes).entry.version < w.entry.version
         /\ \A i \in DOMAIN writes' : i + 1 \in DOMAIN writes /\ writes'[i] = writes[i + 1]
<1>1. /\ writes' \in Seq(WriteType) /\ Head(writes) \in WriteType
      /\ DOMAIN writes = 1..Len(writes) /\ DOMAIN writes' = 1..(Len(writes) - 1)
      /\ Head(writes) = writes[1] /\ Len(writes) \in Nat \ {0}
      /\ \A i \in 1..(Len(writes) - 1) : writes'[i] = writes[i + 1]
  BY DEF TypeInv
<1>2. Queued = Queued' \cup {Head(writes)}
  <2>1. ASSUME NEW i \in 1..Len(writes) PROVE writes[i] \in Queued' \cup {Head(writes)}
    <3>1. CASE i = 1
      BY <1>1, <3>1
    <3>2. CASE i # 1
      <4>1. i - 1 \in 1..(Len(writes) - 1) /\ writes'[i - 1] = writes[i]
        BY <1>1, <3>2
      <4> QED
        BY <1>1, <4>1 DEF Queued
    <3> QED
      BY <3>1, <3>2
  <2>2. \A i \in 1..(Len(writes) - 1) : writes'[i] \in Queued
    BY <1>1 DEF Queued
  <2>3. Head(writes) \in Queued
    BY <1>1 DEF Queued
  <2> QED
    BY <1>1, <2>1, <2>2, <2>3 DEF Queued
<1>3. \A i \in 1..(Len(writes) - 1) : writes[1].entry.version < writes[i + 1].entry.version
  BY <1>1 DEF OrderInv
<1>4. \A w \in Queued' : Head(writes).entry.version < w.entry.version
  BY <1>1, <1>3 DEF Queued
<1> QED
  BY <1>1, <1>2, <1>4

LEMMA WriteTypes ==
  ASSUME TypeInv
  PROVE  /\ Queued \subseteq WriteType /\ Taken \subseteq WriteType /\ Outstanding \subseteq WriteType
         /\ \A x, y \in Taken : x = y
<1>1. Queued \subseteq WriteType
  BY DEF Queued, TypeInv
<1>2. Taken \subseteq WriteType /\ \A x, y \in Taken : x = y
  BY DEF Taken, TypeInv
<1> QED
  BY <1>1, <1>2 DEF Outstanding

\* A version names one outstanding write.
LEMMA WritesDiffer ==
  ASSUME TypeInv, OrderInv, NEW w \in Outstanding, NEW x \in Outstanding,
         w.entry.version = x.entry.version
  PROVE  w = x
<1>1. w.entry.version \in Nat /\ x.entry.version \in Nat
  BY WriteTypes DEF WriteType, EntryType
<1>2. CASE w \in Queued /\ x \in Queued
  <2>1. PICK i \in DOMAIN writes : w = writes[i]
    BY <1>2 DEF Queued
  <2>2. PICK j \in DOMAIN writes : x = writes[j]
    BY <1>2 DEF Queued
  <2>3. i \in Nat /\ j \in Nat
    BY DEF TypeInv
  <2>4. ~(i < j) /\ ~(j < i)
    BY <1>1, <2>1, <2>2 DEF OrderInv
  <2> QED
    BY <2>1, <2>2, <2>3, <2>4
<1>3. CASE w \in Taken /\ x \in Taken
  BY <1>3, WriteTypes
<1>4. CASE w \in Taken /\ x \in Queued
  BY <1>1, <1>4 DEF OrderInv
<1>5. CASE w \in Queued /\ x \in Taken
  BY <1>1, <1>5 DEF OrderInv
<1> QED
  BY <1>2, <1>3, <1>4, <1>5 DEF Outstanding

(***************************************************************************)
(* Each step preserves the invariant.                                      *)
(***************************************************************************)
LEMMA SameWrites ==
  ASSUME UNCHANGED <<writes, inflight>>
  PROVE  Queued' = Queued /\ Taken' = Taken /\ Outstanding' = Outstanding
  BY DEF Queued, Taken, Outstanding

LEMMA CallStepKeeps ==
  ASSUME SessionInv, CallStep
  PROVE  SessionInv'
<1> USE DEF StoreVars
<1>1. Queued' = Queued /\ Taken' = Taken /\ Outstanding' = Outstanding
  BY SameWrites DEF CallStep
<1>2. TypeInv' /\ VersionInv' /\ EntryInv' /\ WriteInv' /\ OrderInv' /\ LastInv'
  BY <1>1 DEF CallStep, SessionInv, TypeInv, VersionInv, EntryInv, WriteInv, OrderInv, LastInv
<1>3. ASSUME NEW r \in Request
      PROVE  \/ call'[r] = call[r]
             \/ call'[r].at = "returned" /\ call'[r].loaded = 0 /\ ~call'[r].gone
             \/ /\ call[r].at = "loaded" /\ call'[r].at \in {"saving", "invalidating"}
                /\ call'[r].session = call[r].session /\ call'[r].loaded = call[r].loaded
                /\ call'[r].gone = call[r].gone
  <2>1. call[r] \in CallType /\ Advances(r)
    BY DEF CallStep, SessionInv, TypeInv
  <2>2. /\ [NoCall EXCEPT !.at = "returned"].at = "returned"
        /\ [NoCall EXCEPT !.at = "returned"].loaded = 0
        /\ ~[NoCall EXCEPT !.at = "returned"].gone
    BY DEF NoCall
  <2>3. \A c \in CallType : \A to :
          LET d == [c EXCEPT !.at = to]
          IN d.at = to /\ d.session = c.session /\ d.loaded = c.loaded /\ d.gone = c.gone
    BY DEF CallType
  <2>4. CASE call'[r] = [NoCall EXCEPT !.at = "returned"]
    BY <2>2, <2>4
  <2>5. CASE call[r].at = "loaded"
             /\ \E to \in {"saving", "invalidating"} : call'[r] = [call[r] EXCEPT !.at = to]
    <3>1. PICK to \in {"saving", "invalidating"} : call'[r] = [call[r] EXCEPT !.at = to]
      BY <2>5
    <3> QED
      BY <2>1, <2>3, <2>5, <3>1
  <2> QED
    BY <2>1, <2>4, <2>5 DEF Advances
<1>4. CallInv'
  <2>1. ASSUME NEW r \in Request
        PROVE  /\ call'[r].at \in {"loaded", "saving", "invalidating", "waiting"} \/ call'[r].gone =>
                    call'[r].session \in Session
               /\ call'[r].loaded <= version
               /\ call'[r].loaded # 0 =>
                    call'[r].session \in Session /\ call'[r].loaded \in saved[call'[r].session]
               /\ call'[r].gone => call'[r].at = "returned"
    BY <1>3 DEF SessionInv, CallInv, TypeInv
  <2>2. ASSUME NEW w \in Outstanding, w.by # "none"
        PROVE  /\ call'[w.by].at \in {"waiting", "returned"}
               /\ call'[w.by].at = "waiting" =>
                    call'[w.by].session = w.session /\ call'[w.by].loaded = w.expected
    <3>1. w.by \in Request
      BY <2>2, WriteTypes DEF SessionInv, WriteType
    <3> QED
      BY <1>3, <2>2, <3>1 DEF SessionInv, CallInv
  <2> QED
    BY <1>1, <2>1, <2>2 DEF CallInv, CallStep
<1>5. GoneInv'
  <2>1. ASSUME NEW r \in Request, call'[r].gone
        PROVE  call[r].gone /\ call'[r].session = call[r].session /\ call'[r].loaded = call[r].loaded
    BY <1>3, <2>1 DEF SessionInv, CallInv
  <2>2. \A k \in Session, v \in Nat : Newer(k, v) => Newer(k, v)'
    BY <1>1 DEF Newer, CallStep
  <2> QED
    BY <2>1, <2>2 DEF GoneInv, SessionInv, CallStep
<1> QED
  BY <1>2, <1>4, <1>5 DEF SessionInv

\* An entry that has expired goes.
LEMMA LoadKeeps ==
  ASSUME SessionInv, NEW r \in Request, NEW k \in Session, Load(r, k)
  PROVE  SessionInv'
<1> USE DEF memoryVars
<1>1. Queued' = Queued /\ Taken' = Taken /\ Outstanding' = Outstanding
  BY SameWrites DEF Load
<1>2. /\ UNCHANGED <<version, writes, inflight, rows, expired, saved, floor>>
      /\ \A s \in Session : entries'[s] = entries[s] \/ entries'[s] = NoEntry
      /\ entries' \in [Session -> EntryType]
  BY DEF Load, SessionInv, TypeInv, EntryType, NoEntry
<1>3. /\ call' \in [Request -> CallType]
      /\ \A q \in Request \ {r} : call'[q] = call[q]
      /\ call[r].at = "none" /\ call'[r].at = "loaded" /\ call'[r].session = k /\ ~call'[r].gone
      /\ call'[r].loaded # 0 => entries[k].usable /\ call'[r].loaded = entries[k].version
      /\ call'[r].loaded \in Nat
  <2>1. entries[k].version \in Nat
    BY DEF SessionInv, TypeInv, EntryType
  <2> DEFINE c == [at |-> "loaded", session |-> k, gone |-> FALSE,
                   loaded |-> IF Fresh(entries[k]) /\ entries[k].usable THEN entries[k].version ELSE 0]
  <2>2. c \in CallType
    BY <2>1 DEF CallType
  <2>3. call' = [call EXCEPT ![r] = c] /\ call[r].at = "none"
    BY DEF Load
  <2>4. call'[r] = c /\ \A q \in Request \ {r} : call'[q] = call[q]
    BY <2>3 DEF SessionInv, TypeInv
  <2> HIDE DEF c
  <2>5. call' \in [Request -> CallType]
    BY <2>2, <2>3 DEF SessionInv, TypeInv
  <2> QED
    BY <2>1, <2>2, <2>3, <2>4, <2>5 DEF c
<1>4. TypeInv'
  BY <1>2, <1>3 DEF SessionInv, TypeInv
<1>5. VersionInv' /\ EntryInv'
  <2>1. version \in Nat /\ \A s \in Session : 0 \notin saved[s]
    BY DEF SessionInv, TypeInv, VersionInv
  <2>2. NoEntry.version = 0 /\ ~NoEntry.usable
    BY DEF NoEntry
  <2>3. VersionInv'
    BY <1>2, <2>1, <2>2 DEF SessionInv, VersionInv
  <2> QED
    BY <1>2, <2>1, <2>2, <2>3 DEF SessionInv, EntryInv
<1>6. WriteInv' /\ OrderInv'
  BY <1>1, <1>2 DEF SessionInv, WriteInv, OrderInv
<1>7. LastInv'
  <2>1. \A w \in Outstanding : w.session \in Session
    BY WriteTypes DEF WriteType, SessionInv
  <2> QED
    BY <1>1, <1>2, <2>1 DEF SessionInv, LastInv, NoEntry
<1>8. CallInv'
  <2>1. ASSUME NEW w \in Outstanding, w.by # "none" PROVE w.by \in Request \ {r}
    <3>1. w.by \in Request /\ call[w.by].at \in {"waiting", "returned"}
      BY <2>1, WriteTypes DEF SessionInv, WriteType, CallInv
    <3> QED
      BY <1>3, <3>1
  <2>2. entries[k].usable => entries[k].version \in saved[k] /\ entries[k].version <= version
    BY DEF SessionInv, EntryInv, VersionInv
  <2>3. ASSUME NEW q \in Request
        PROVE  /\ call'[q].at \in {"loaded", "saving", "invalidating", "waiting"} \/ call'[q].gone =>
                    call'[q].session \in Session
               /\ call'[q].loaded <= version
               /\ call'[q].loaded # 0 =>
                    call'[q].session \in Session /\ call'[q].loaded \in saved[call'[q].session]
               /\ call'[q].gone => call'[q].at = "returned"
    <3>1. CASE q = r
      BY <1>3, <2>2, <3>1 DEF SessionInv, TypeInv
    <3>2. CASE q # r
      BY <1>3, <3>2 DEF SessionInv, CallInv
    <3> QED
      BY <3>1, <3>2
  <2> QED
    BY <1>1, <1>2, <1>3, <2>1, <2>3 DEF SessionInv, CallInv
<1>9. GoneInv'
  <2>1. \A s \in Session, v \in Nat : Newer(s, v) => Newer(s, v)'
    BY <1>1, <1>2 DEF Newer, NoEntry
  <2> QED
    BY <1>2, <1>3, <2>1 DEF GoneInv, SessionInv, CallInv
<1> QED
  BY <1>4, <1>5, <1>6, <1>7, <1>8, <1>9 DEF SessionInv

\* A state gets too old, a marker after everything older.
LEMMA ExpireKeeps ==
  ASSUME SessionInv, NEW v \in 1..version, Expire(v)
  PROVE  SessionInv'
<1> USE DEF memoryVars
<1>1. Queued' = Queued /\ Taken' = Taken /\ Outstanding' = Outstanding
  BY SameWrites DEF Expire
<1>2. /\ UNCHANGED <<version, entries, writes, inflight, rows, saved, floor, call>>
      /\ expired' = expired \cup {v}
      /\ (\E k \in Session : v \in saved[k]) \/ 1..(v - 1) \subseteq expired
  BY DEF Expire
<1>3. TypeInv' /\ VersionInv'
  BY <1>2 DEF SessionInv, TypeInv, VersionInv
<1>4. EntryInv' /\ WriteInv' /\ OrderInv' /\ LastInv' /\ CallInv' /\ GoneInv'
  BY <1>1, <1>2 DEF SessionInv, EntryInv, WriteInv, OrderInv, LastInv, CallInv, GoneInv, Newer
<1> QED
  BY <1>3, <1>4 DEF SessionInv

\* A new version: a write w that may find the queue full, and its entry, which
\* may displace others.
Adds(w) ==
  /\ version' = version + 1 /\ w.entry.version = version'
  /\ entries' \in [Session -> EntryType] /\ entries'[w.session] = w.entry
  /\ \A s \in Session \ {w.session} : entries'[s] = entries[s] \/ entries'[s] = NoEntry
  /\ writes' = writes \/ writes' = Append(writes, w)
  /\ saved' \in [Session -> SUBSET Nat]
  /\ \A s \in Session : saved'[s] = IF s = w.session /\ w.entry.usable
                                    THEN saved[s] \cup {version'} ELSE saved[s]
  /\ w.by # "none" =>
       /\ ~w.entry.usable /\ w.prior = entries[w.session] /\ w.expected = w.prior.version
       /\ w.prior.version \in saved[w.session]
  /\ UNCHANGED <<inflight, rows, expired, floor>>

LEMMA AddsKeeps ==
  ASSUME SessionInv, NEW w \in WriteType, Adds(w)
  PROVE  /\ VersionInv' /\ EntryInv' /\ WriteInv' /\ OrderInv' /\ LastInv'
         /\ writes' \in Seq(WriteType) /\ Taken' = Taken
         /\ Queued' = Queued \/ Queued' = Queued \cup {w}
         /\ \A s \in Session : saved[s] \subseteq saved'[s]
         /\ \A s \in Session, v \in 0..version : Newer(s, v) => Newer(s, v)'
<1> DEFINE k == w.session
<1>1. /\ version \in Nat /\ k \in Session
      /\ w.entry.version = version + 1 /\ w.entry \in EntryType
      /\ NoEntry.version = 0 /\ ~NoEntry.usable
  BY DEF SessionInv, TypeInv, WriteType, Adds, NoEntry
<1>2. /\ writes' \in Seq(WriteType)
      /\ Queued' = Queued \/ Queued' = Queued \cup {w}
      /\ \A i \in DOMAIN writes' :
           (i \in DOMAIN writes /\ writes'[i] = writes[i]) \/ (i = Len(writes) + 1 /\ writes'[i] = w)
  <2>1. CASE writes' = writes
    BY <2>1 DEF Queued, SessionInv, TypeInv
  <2>2. CASE writes' = Append(writes, w)
    BY <2>2, AppendQueue DEF SessionInv
  <2> QED
    BY <2>1, <2>2 DEF Adds
<1>3. Taken' = Taken
  BY DEF Taken, Adds
<1>4. /\ Outstanding' \subseteq Outstanding \cup {w} /\ Outstanding \subseteq WriteType
      /\ \A x \in Outstanding : x.entry.version \in 1..version
  BY <1>2, <1>3, WriteTypes DEF Outstanding, SessionInv, WriteInv
<1>5. \A s \in Session : /\ saved[s] \subseteq saved'[s]
                         /\ \A v \in saved'[s] : v \in saved[s] \/ v = version + 1
                         /\ \A v \in saved[s] : v \in 1..version
  BY DEF Adds, SessionInv, VersionInv
<1>6. VersionInv'
  <2>1. ASSUME NEW s \in Session PROVE entries'[s].version <= version + 1
    <3>1. entries[s].version <= version /\ entries[s].version \in Nat
      BY DEF SessionInv, VersionInv, TypeInv, EntryType
    <3>2. CASE s = k
      BY <1>1, <3>2 DEF Adds
    <3>3. CASE s # k
      BY <1>1, <3>1, <3>3 DEF Adds
    <3> QED
      BY <3>2, <3>3
  <2>2. \A s \in Session : floor[s] <= version + 1
    BY <1>1 DEF SessionInv, VersionInv, TypeInv
  <2>3. \A s \in Session : \A v \in saved'[s] : v \in 1..(version + 1)
    BY <1>1, <1>5
  <2>4. \A v \in expired :
          v <= version + 1 /\ ((\E s \in Session : v \in saved'[s]) \/ 1..(v - 1) \subseteq expired)
    BY <1>1, <1>5 DEF SessionInv, VersionInv, TypeInv
  <2> QED
    BY <2>1, <2>2, <2>3, <2>4 DEF VersionInv, Adds
<1>7. EntryInv'
  <2>1. ASSUME NEW s \in Session
        PROVE  /\ version + 1 \notin saved[s] /\ 0 \notin saved'[s]
               /\ entries[s].version # version + 1 /\ rows[s].version # version + 1
    <3>1. entries[s].version <= version /\ floor[s] <= version
          /\ (rows[s].version # 0 => rows[s].version = floor[s])
      BY DEF SessionInv, VersionInv, EntryInv
    <3> QED
      BY <1>1, <1>5, <3>1 DEF SessionInv, TypeInv, EntryType
  <2>2. ASSUME NEW s \in Session
        PROVE  /\ entries'[s].usable <=> entries'[s].version \in saved'[s]
               /\ rows[s].usable <=> rows[s].version \in saved'[s]
    <3>1. CASE s = k
      BY <1>1, <2>1, <3>1 DEF Adds, SessionInv, EntryInv
    <3>2. CASE s # k
      BY <1>1, <2>1, <3>2 DEF Adds, SessionInv, EntryInv
    <3> QED
      BY <3>1, <3>2
  <2> QED
    BY <2>2 DEF EntryInv, Adds, SessionInv
<1>8. WriteInv'
  <2>1. ASSUME NEW x \in Outstanding
        PROVE  /\ x.entry.version \in 1..version'
               /\ x.entry.usable <=> x.entry.version \in saved'[x.session]
               /\ x.by # "none" =>
                    /\ ~x.entry.usable /\ \A s \in Session : x.entry.version \notin saved'[s]
                    /\ x.prior.usable /\ x.prior.version = x.expected
                    /\ x.expected \in saved'[x.session] /\ x.expected < x.entry.version
    <3>1. x.session \in Session /\ x.entry.version \in 1..version /\ x.entry.version # version + 1
      BY <1>1, <1>4 DEF WriteType
    <3> QED
      BY <1>1, <1>5, <3>1 DEF SessionInv, WriteInv, Adds
  <2>2. /\ w.entry.version \in 1..version'
        /\ w.entry.usable <=> w.entry.version \in saved'[k]
    BY <1>1, <1>5 DEF Adds
  <2>3. ASSUME w.by # "none"
        PROVE  /\ ~w.entry.usable /\ \A s \in Session : w.entry.version \notin saved'[s]
               /\ w.prior.usable /\ w.prior.version = w.expected
               /\ w.expected \in saved'[k] /\ w.expected < w.entry.version
    <3>1. w.prior.usable /\ w.expected \in saved[k] /\ w.expected \in 1..version
      BY <1>1, <1>5, <2>3 DEF Adds, SessionInv, EntryInv
    <3> QED
      BY <1>1, <1>5, <2>3, <3>1 DEF Adds
  <2> QED
    BY <1>4, <2>1, <2>2, <2>3 DEF WriteInv
<1>9. OrderInv'
  <2>1. ASSUME NEW i \in DOMAIN writes', NEW j \in DOMAIN writes', i < j
        PROVE  writes'[i].entry.version < writes'[j].entry.version
    <3>0. DOMAIN writes = 1..Len(writes) /\ Len(writes) \in Nat
      BY DEF SessionInv, TypeInv
    <3>1. \A m \in DOMAIN writes : writes[m] \in Outstanding /\ m \in Nat /\ m <= Len(writes)
      BY <3>0 DEF Queued, Outstanding
    <3>2. i \in DOMAIN writes
      <4>1. CASE i = Len(writes) + 1
        <5>1. j \in Nat /\ j <= Len(writes) + 1
          BY <1>2, <3>0, <3>1
        <5> QED
          BY <2>1, <3>0, <4>1, <5>1
      <4> QED
        BY <1>2, <4>1
    <3> QED
      BY <1>1, <1>2, <1>4, <2>1, <3>1, <3>2 DEF SessionInv, OrderInv
  <2>2. \A s \in Session : floor[s] < w.entry.version
    BY <1>1 DEF SessionInv, VersionInv, TypeInv
  <2>3. \A x \in Taken : x.entry.version < w.entry.version
    BY <1>1, <1>4 DEF Outstanding
  <2> QED
    BY <1>2, <1>3, <2>1, <2>2, <2>3 DEF OrderInv, SessionInv, Adds
<1>10. LastInv'
  <2>1. ASSUME NEW x \in Outstanding'
        PROVE  \/ entries'[x.session].version = 0 \/ entries'[x.session] = x.entry
               \/ entries'[x.session].version > x.entry.version
    <3>1. CASE x = w
      BY <3>1 DEF Adds
    <3>2. CASE x \in Outstanding /\ x.session = k
      BY <1>1, <1>4, <3>2 DEF Adds
    <3>3. CASE x \in Outstanding /\ x.session # k
      BY <1>1, <1>4, <3>3 DEF Adds, SessionInv, LastInv, WriteType
    <3> QED
      BY <1>4, <3>1, <3>2, <3>3
  <2>2. ASSUME NEW x \in Outstanding', NEW y \in Outstanding',
               x.session = y.session, y.by # "none", x.entry.version < y.entry.version
        PROVE  x.entry.version <= y.prior.version
    <3>1. CASE y = w
      <4>1. x \in Outstanding /\ x.session = k /\ x.entry.version \in 1..version
        BY <1>1, <1>4, <2>2, <3>1
      <4>2. entries[k].version # 0 /\ y.prior = entries[k] /\ entries[k].version \in Nat
        BY <1>1, <1>5, <2>2, <3>1 DEF Adds, SessionInv, TypeInv, EntryType
      <4> QED
        BY <4>1, <4>2 DEF SessionInv, LastInv
    <3>2. CASE y \in Outstanding
      <4>1. x \in Outstanding
        BY <1>1, <1>4, <2>2, <3>2
      <4> QED
        BY <2>2, <3>2, <4>1 DEF SessionInv, LastInv
    <3> QED
      BY <1>4, <3>1, <3>2
  <2> QED
    BY <2>1, <2>2 DEF LastInv
<1>11. ASSUME NEW s \in Session, NEW v \in 0..version, Newer(s, v)
       PROVE  Newer(s, v)'
  <2>1. entries'[s].usable => entries'[s].version > v
    BY <1>1, <1>11 DEF Adds, Newer
  <2>2. ASSUME NEW x \in Outstanding', x.session = s
        PROVE  x.entry.version > v /\ (x.by # "none" => x.prior.version > v)
    <3>1. CASE x = w
      <4>1. w.by # "none" => entries[s].usable /\ w.prior = entries[s]
        BY <2>2, <3>1 DEF Adds, SessionInv, EntryInv
      <4> QED
        BY <1>1, <1>11, <3>1, <4>1 DEF Newer
    <3>2. CASE x \in Outstanding
      BY <1>11, <2>2, <3>2 DEF Newer
    <3> QED
      BY <1>4, <3>1, <3>2
  <2> QED
    BY <1>11, <2>1, <2>2 DEF Newer, Adds
<1> QED
  BY <1>2, <1>3, <1>5, <1>6, <1>7, <1>8, <1>9, <1>10, <1>11

\* A save, and the call of its request.
LEMMA SaveKeeps ==
  ASSUME SessionInv, NEW r \in Request, NEW usable \in BOOLEAN, Save(r, usable)
  PROVE  SessionInv'
<1> USE DEF memoryVars
<1> DEFINE k == call[r].session
           e == Entry(version + 1, usable)
           w == [session |-> k, entry |-> e, prior |-> NoEntry, expected |-> 0, by |-> "none"]
           c == [NoCall EXCEPT !.at = "returned"]
<1>1. /\ k \in Session /\ version \in Nat /\ e \in EntryType /\ NoEntry \in EntryType
      /\ e.version = version + 1 /\ e.usable = usable
  BY DEF Save, SessionInv, TypeInv, CallInv, Entry, EntryType, NoEntry
<1>2. w \in WriteType /\ w.session = k /\ w.entry = e /\ w.by = "none"
  BY <1>1 DEF WriteType
<1>0. c \in CallType /\ c.at = "returned" /\ c.loaded = 0 /\ ~c.gone
  BY DEF CallType, NoCall
<1>3. /\ version' = version + 1
      /\ entries' = [s \in Session |-> CASE s = k -> e [] s \in Evicted(k) -> NoEntry
                                         [] OTHER -> entries[s]]
      /\ writes' = Enqueue(w)
      /\ saved' = IF usable THEN [saved EXCEPT ![k] = @ \cup {version'}] ELSE saved
      /\ call' = [call EXCEPT ![r] = c]
      /\ UNCHANGED <<inflight, rows, expired, floor>>
  BY DEF Save, Return
<1> HIDE DEF w, c, e
<1>4. Adds(w)
  <2>1. entries' \in [Session -> EntryType] /\ entries'[k] = e
        /\ \A s \in Session \ {k} : entries'[s] = entries[s] \/ entries'[s] = NoEntry
    <3>0. \A s \in Session : entries'[s] = CASE s = k -> e [] s \in Evicted(k) -> NoEntry
                                              [] OTHER -> entries[s]
      BY <1>3
    <3>1. entries'[k] = e
      <4>1. k \notin Evicted(k)
        BY DEF Evicted, Stale, Occupied
      <4> QED
        BY <1>1, <3>0, <4>1
    <3>2. \A s \in Session \ {k} : entries'[s] = entries[s] \/ entries'[s] = NoEntry
      BY <3>0
    <3>3. \A s \in Session : entries'[s] \in EntryType
      BY <1>1, <3>1, <3>2 DEF SessionInv, TypeInv
    <3> QED
      BY <1>3, <3>1, <3>2, <3>3
  <2>2. writes' = writes \/ writes' = Append(writes, w)
    BY <1>3 DEF Enqueue
  <2>3. saved' \in [Session -> SUBSET Nat]
        /\ \A s \in Session : saved'[s] = IF s = k /\ usable THEN saved[s] \cup {version'} ELSE saved[s]
    <3>1. saved \in [Session -> SUBSET Nat] /\ version' \in Nat
      BY <1>1, <1>3 DEF SessionInv, TypeInv
    <3>2. CASE usable
      BY <1>1, <1>3, <3>1, <3>2
    <3>3. CASE ~usable
      BY <1>3, <3>1, <3>3
    <3> QED
      BY <3>2, <3>3
  <2> QED
    BY <1>1, <1>2, <1>3, <2>1, <2>2, <2>3 DEF Adds
<1>5. /\ call'[r] = c /\ \A q \in Request \ {r} : call'[q] = call[q]
      /\ call' \in [Request -> CallType]
  BY <1>0, <1>3 DEF SessionInv, TypeInv
<1>6. /\ VersionInv' /\ EntryInv' /\ WriteInv' /\ OrderInv' /\ LastInv'
      /\ writes' \in Seq(WriteType) /\ Taken' = Taken
      /\ Queued' = Queued \/ Queued' = Queued \cup {w}
      /\ \A s \in Session : saved[s] \subseteq saved'[s]
      /\ \A s \in Session, v \in 0..version : Newer(s, v) => Newer(s, v)'
  BY <1>2, <1>4, AddsKeeps
<1>7. TypeInv'
  BY <1>3, <1>4, <1>5, <1>6 DEF SessionInv, TypeInv, Adds
<1>8. CallInv'
  <2>1. ASSUME NEW q \in Request
        PROVE  /\ call'[q].at \in {"loaded", "saving", "invalidating", "waiting"} \/ call'[q].gone =>
                    call'[q].session \in Session
               /\ call'[q].loaded <= version + 1
               /\ call'[q].loaded # 0 =>
                    call'[q].session \in Session /\ call'[q].loaded \in saved'[call'[q].session]
               /\ call'[q].gone => call'[q].at = "returned"
    <3>1. CASE q = r
      BY <1>0, <1>1, <1>5, <3>1
    <3>2. CASE q # r
      <4>1. /\ call[q].loaded \in Nat /\ call[q].loaded <= version
            /\ call[q].loaded # 0 =>
                 call[q].session \in Session /\ call[q].loaded \in saved[call[q].session]
        BY DEF SessionInv, CallInv, TypeInv, CallType
      <4> QED
        BY <1>1, <1>5, <1>6, <3>2, <4>1 DEF SessionInv, CallInv
    <3> QED
      BY <3>1, <3>2
  <2>2. ASSUME NEW x \in Outstanding', x.by # "none"
        PROVE  /\ call'[x.by].at \in {"waiting", "returned"}
               /\ call'[x.by].at = "waiting" =>
                    call'[x.by].session = x.session /\ call'[x.by].loaded = x.expected
    <3>1. x \in Outstanding
      BY <1>2, <1>6, <2>2 DEF Outstanding
    <3>2. x.by \in Request
      BY <2>2, <3>1, WriteTypes DEF SessionInv, WriteType
    <3> QED
      BY <1>0, <1>5, <2>2, <3>1, <3>2 DEF SessionInv, CallInv
  <2> QED
    BY <1>3, <2>1, <2>2 DEF CallInv
<1>9. GoneInv'
  <2>1. ASSUME NEW q \in Request, NEW s \in Session, NEW v \in Nat,
               call'[q].gone, call'[q].session = s, call'[q].loaded = v
        PROVE  Newer(s, v)'
    <3>1. call[q].gone /\ call'[q] = call[q]
      BY <1>0, <1>5, <2>1
    <3>2. v \in 0..version
      BY <1>1, <2>1, <3>1 DEF SessionInv, CallInv
    <3>3. Newer(s, v)
      BY <2>1, <3>1 DEF SessionInv, GoneInv
    <3> QED
      BY <1>6, <3>2, <3>3
  <2> QED
    BY <1>3, <2>1 DEF GoneInv, SessionInv
<1> QED
  BY <1>6, <1>7, <1>8, <1>9 DEF SessionInv

\* An invalidation puts its marker in the place of the state, or does nothing.
LEMMA InvalidateKeeps ==
  ASSUME SessionInv, NEW r \in Request, Invalidate(r)
  PROVE  SessionInv'
<1> USE DEF memoryVars
<1> DEFINE k == call[r].session
           e == Entry(version + 1, FALSE)
           w == [session |-> k, entry |-> e, prior |-> entries[k],
                 expected |-> call[r].loaded, by |-> r]
<1>1. /\ k \in Session /\ version \in Nat /\ call[r].at = "invalidating"
      /\ call[r].loaded \in Nat /\ call[r] \in CallType /\ r # "none"
  BY SessionCacheAssumption DEF Invalidate, SessionInv, TypeInv, CallInv, CallType
<1>2. CASE Return(r) /\ UNCHANGED <<version, entries, writes>>
  <2>1. CallStep
    <3>1. [NoCall EXCEPT !.at = "returned"] \in CallType
      BY DEF NoCall, CallType
    <3> QED
      BY <1>2, <3>1 DEF Invalidate, Return, CallStep, StoreVars, Advances, SessionInv, TypeInv
  <2> QED
    BY <2>1, CallStepKeeps
<1>3. CASE /\ Matches(entries[k], call[r].loaded) /\ Len(writes) < QueueSize
           /\ version' = version + 1
           /\ entries' = [entries EXCEPT ![k] = e]
           /\ writes' = Append(writes, w)
           /\ call' = [call EXCEPT ![r].at = "waiting"]
  <2>1. /\ e \in EntryType /\ e.version = version + 1 /\ ~e.usable
        /\ entries[k] \in EntryType /\ entries[k].version = call[r].loaded
        /\ call[r].loaded # 0 /\ call[r].loaded \in saved[k]
    BY <1>1, <1>3 DEF Entry, EntryType, SessionInv, TypeInv, CallInv, Matches, Present
  <2>2. /\ w \in WriteType /\ w.session = k /\ w.entry = e /\ w.by = r
        /\ w.prior = entries[k] /\ w.expected = call[r].loaded
    BY <1>1, <2>1 DEF WriteType
  <2> HIDE DEF w, e
  <2>3. /\ entries' \in [Session -> EntryType] /\ entries'[k] = e
        /\ \A s \in Session \ {k} : entries'[s] = entries[s]
    BY <1>1, <1>3, <2>1 DEF SessionInv, TypeInv
  <2>4. Adds(w)
    BY <1>1, <1>3, <2>1, <2>2, <2>3 DEF Adds, Invalidate, SessionInv, TypeInv
  <2>5. /\ VersionInv' /\ EntryInv' /\ WriteInv' /\ OrderInv' /\ LastInv'
        /\ writes' \in Seq(WriteType) /\ Taken' = Taken
        /\ Queued' = Queued \/ Queued' = Queued \cup {w}
        /\ \A s \in Session : saved[s] \subseteq saved'[s]
        /\ \A s \in Session, v \in 0..version : Newer(s, v) => Newer(s, v)'
    BY <2>2, <2>4, AddsKeeps
  <2>6. /\ call' \in [Request -> CallType]
        /\ \A q \in Request \ {r} : call'[q] = call[q]
        /\ call'[r].at = "waiting" /\ call'[r].session = k /\ call'[r].loaded = call[r].loaded
        /\ call'[r].gone = call[r].gone
    BY <1>1, <1>3 DEF SessionInv, TypeInv, CallType
  <2>7. TypeInv'
    BY <1>1, <1>3, <2>3, <2>4, <2>5, <2>6 DEF SessionInv, TypeInv, Adds
  <2>8. CallInv'
    <3>1. ASSUME NEW q \in Request
          PROVE  /\ call'[q].at \in {"loaded", "saving", "invalidating", "waiting"} \/ call'[q].gone =>
                      call'[q].session \in Session
                 /\ call'[q].loaded <= version'
                 /\ call'[q].loaded # 0 =>
                      call'[q].session \in Session /\ call'[q].loaded \in saved'[call'[q].session]
                 /\ call'[q].gone => call'[q].at = "returned"
      <4>1. /\ call[q].loaded \in Nat /\ call[q].loaded <= version
            /\ call[q].loaded # 0 =>
                 call[q].session \in Session /\ call[q].loaded \in saved[call[q].session]
        BY DEF SessionInv, CallInv, TypeInv, CallType
      <4>2. CASE q = r
        BY <1>1, <1>3, <2>5, <2>6, <4>1, <4>2 DEF SessionInv, CallInv
      <4>3. CASE q # r
        BY <1>1, <1>3, <2>5, <2>6, <4>1, <4>3 DEF SessionInv, CallInv
      <4> QED
        BY <4>2, <4>3
    <3>2. ASSUME NEW x \in Outstanding', x.by # "none"
          PROVE  /\ call'[x.by].at \in {"waiting", "returned"}
                 /\ call'[x.by].at = "waiting" =>
                      call'[x.by].session = x.session /\ call'[x.by].loaded = x.expected
      <4>1. CASE x = w
        BY <2>2, <2>6, <4>1
      <4>2. CASE x \in Outstanding
        <5>1. x.by \in Request /\ call[x.by].at \in {"waiting", "returned"}
          BY <3>2, <4>2, WriteTypes DEF SessionInv, WriteType, CallInv
        <5> QED
          BY <1>1, <2>6, <3>2, <4>2, <5>1 DEF SessionInv, CallInv
      <4> QED
        BY <2>5, <4>1, <4>2 DEF Outstanding
    <3> QED
      BY <3>1, <3>2 DEF CallInv
  <2>9. GoneInv'
    <3>1. ASSUME NEW q \in Request, NEW s \in Session, NEW v \in Nat,
                 call'[q].gone, call'[q].session = s, call'[q].loaded = v
          PROVE  Newer(s, v)'
      <4>1. call[q].gone /\ call'[q] = call[q]
        BY <1>1, <2>6, <3>1 DEF SessionInv, CallInv
      <4>2. v \in 0..version
        BY <1>1, <3>1, <4>1 DEF SessionInv, CallInv
      <4>3. Newer(s, v)
        BY <3>1, <4>1 DEF SessionInv, GoneInv
      <4> QED
        BY <2>5, <4>2, <4>3
    <3> QED
      BY <2>4, <3>1 DEF GoneInv, SessionInv, Adds
  <2> QED
    BY <2>5, <2>7, <2>8, <2>9 DEF SessionInv
<1> QED
  BY <1>2, <1>3 DEF Invalidate

\* The first write of the queue is taken, and reaches its row or not.
Takes(w, ok) ==
  /\ writer = "running" /\ inflight = {} /\ writes # <<>> /\ w = Head(writes)
  /\ writes' = Tail(writes) /\ inflight' = {[write |-> w, ok |-> ok]}
  /\ ok => /\ rows' = [rows EXCEPT ![w.session] = w.entry]
           /\ floor' = [floor EXCEPT ![w.session] = w.entry.version]
  /\ ~ok => UNCHANGED <<rows, floor>>
  /\ UNCHANGED <<version, entries, call, expired, saved>>

LEMMA WriteRowTakes ==
  ASSUME WriteRow
  PROVE  \E ok \in BOOLEAN : Takes(Head(writes), ok)
  BY DEF WriteRow, Takes

LEMMA TakesKeeps ==
  ASSUME SessionInv, NEW w, NEW ok \in BOOLEAN, Takes(w, ok)
  PROVE  /\ SessionInv'
         /\ w \in WriteType /\ Queued = Queued' \cup {w} /\ Taken = {} /\ Taken' = {w}
         /\ \A x \in Queued' : w.entry.version < x.entry.version
<1>1. /\ writes' \in Seq(WriteType) /\ w \in WriteType /\ w \in Queued
      /\ Queued = Queued' \cup {w}
      /\ \A x \in Queued' : w.entry.version < x.entry.version
      /\ \A i \in DOMAIN writes' : i + 1 \in DOMAIN writes /\ writes'[i] = writes[i + 1]
  BY TailQueue DEF SessionInv, Takes
<1>2. Taken = {} /\ Taken' = {w} /\ Outstanding' = Outstanding
  BY <1>1 DEF Taken, Outstanding, Takes
<1>3. w \in Outstanding /\ w.session \in Session /\ w.entry \in EntryType /\ w.entry.version \in Nat
  BY <1>1 DEF Outstanding, WriteType, EntryType
<1>4. /\ rows' \in [Session -> EntryType] /\ floor' \in [Session -> Nat]
      /\ \A s \in Session :
           \/ rows'[s] = rows[s] /\ floor'[s] = floor[s]
           \/ s = w.session /\ rows'[s] = w.entry /\ floor'[s] = w.entry.version
      /\ ok => rows'[w.session] = w.entry
  BY <1>3 DEF SessionInv, TypeInv, Takes
<1>5. TypeInv'
  <2>1. inflight' \subseteq [write : WriteType, ok : BOOLEAN] /\ \A x, y \in inflight' : x = y
    BY <1>1 DEF Takes
  <2> QED
    BY <1>1, <1>4, <2>1 DEF SessionInv, TypeInv, Takes
<1>6. VersionInv'
  <2>1. \A s \in Session : floor'[s] <= version
    BY <1>3, <1>4 DEF SessionInv, VersionInv, WriteInv
  <2> QED
    BY <2>1 DEF SessionInv, VersionInv, Takes
<1>7. EntryInv'
  <2>1. \A s \in Session : /\ rows'[s].usable <=> rows'[s].version \in saved[s]
                           /\ rows'[s].version # 0 => rows'[s].version = floor'[s]
    BY <1>3, <1>4 DEF SessionInv, EntryInv, WriteInv
  <2> QED
    BY <2>1 DEF SessionInv, EntryInv, Takes
<1>8. WriteInv' /\ LastInv' /\ CallInv'
  BY <1>2 DEF SessionInv, WriteInv, LastInv, CallInv, Takes
<1>9. OrderInv'
  <2>1. \A i, j \in DOMAIN writes' : i < j => writes'[i].entry.version < writes'[j].entry.version
    <3>1. \A i \in DOMAIN writes' : i \in Int
      BY <1>1
    <3> QED
      BY <1>1, <3>1 DEF SessionInv, OrderInv
  <2>2. \A x \in Queued', s \in Session : floor'[s] < x.entry.version
    BY <1>1, <1>4 DEF SessionInv, OrderInv
  <2> QED
    BY <1>1, <1>2, <2>1, <2>2 DEF OrderInv
<1>10. GoneInv'
  <2>1. ASSUME NEW s \in Session, NEW v \in Nat, Newer(s, v)
        PROVE  Newer(s, v)'
    <3>1. rows'[s].usable => rows'[s].version > v
      BY <1>3, <1>4, <2>1 DEF Newer
    <3> QED
      BY <1>2, <2>1, <3>1 DEF Newer, Takes
  <2>2. \A x \in inflight' : x.ok => rows'[x.write.session] = x.write.entry
    BY <1>4 DEF Takes
  <2> QED
    BY <2>1, <2>2 DEF SessionInv, GoneInv, Takes
<1> QED
  BY <1>1, <1>2, <1>5, <1>6, <1>7, <1>8, <1>9, <1>10 DEF SessionInv

\* The taken write is acknowledged: its marker goes, or gives the state back.
LEMMA AcknowledgeFacts ==
  ASSUME SessionInv, Acknowledge
  PROVE  \E done \in inflight :
           LET w == done.write
               marked == w.by # "none" /\ entries[w.session] = w.entry
           IN /\ w \in WriteType /\ w \in Outstanding /\ w.session \in Session /\ done.ok \in BOOLEAN
              /\ Taken = {w} /\ Taken' = {} /\ Queued' = Queued /\ Outstanding' = Queued
              /\ UNCHANGED <<version, writes, rows, expired, saved, floor>> /\ inflight' = {}
              /\ entries' \in [Session -> EntryType]
              /\ \A s \in Session \ {w.session} : entries'[s] = entries[s]
              /\ entries'[w.session] = IF marked THEN IF done.ok THEN NoEntry ELSE w.prior
                                       ELSE entries[w.session]
              /\ call' \in [Request -> CallType]
              /\ \A q \in Request :
                   \/ call'[q] = call[q]
                   \/ /\ q = w.by /\ call[q].at = "waiting" /\ call'[q].at = "returned"
                      /\ \/ call'[q].loaded = 0 /\ ~call'[q].gone
                         \/ /\ done.ok /\ call'[q].gone
                            /\ call'[q].loaded = call[q].loaded /\ call'[q].session = call[q].session
<1> USE DEF memoryVars
<1> PICK done \in inflight :
           LET w == done.write
           IN /\ entries' = IF w.by # "none" /\ entries[w.session] = w.entry
                            THEN [entries EXCEPT ![w.session] = IF done.ok THEN NoEntry ELSE w.prior]
                            ELSE entries
              /\ call' = IF Answers(done)
                         THEN [call EXCEPT ![w.by] =
                                 IF Gone(done.ok) THEN [@ EXCEPT !.at = "returned", !.gone = TRUE]
                                 ELSE [NoCall EXCEPT !.at = "returned"]]
                         ELSE call
              /\ inflight' = {}
              /\ UNCHANGED <<version, writes, rows, expired, saved, floor>>
  BY DEF Acknowledge
<1> DEFINE w == done.write
<1>1. /\ w \in WriteType /\ w.session \in Session /\ done.ok \in BOOLEAN
      /\ \A x \in inflight : x = done
  BY DEF SessionInv, TypeInv, WriteType
<1>2. /\ Taken = {w} /\ Taken' = {} /\ Queued' = Queued /\ Outstanding' = Queued /\ w \in Outstanding
  <2>1. Taken = {w} /\ Taken' = {}
    BY <1>1 DEF Taken
  <2>2. Queued' = Queued
    BY DEF Queued
  <2> QED
    BY <2>1, <2>2 DEF Outstanding
<1>3. NoEntry \in EntryType /\ w.prior \in EntryType
  BY <1>1 DEF NoEntry, EntryType, WriteType
<1>4. /\ entries' \in [Session -> EntryType]
      /\ \A s \in Session \ {w.session} : entries'[s] = entries[s]
      /\ entries'[w.session] = IF w.by # "none" /\ entries[w.session] = w.entry
                               THEN IF done.ok THEN NoEntry ELSE w.prior
                               ELSE entries[w.session]
  <2>1. entries \in [Session -> EntryType]
    BY DEF SessionInv, TypeInv
  <2>2. CASE w.by # "none" /\ entries[w.session] = w.entry
    <3>1. PICK e \in EntryType : e = IF done.ok THEN NoEntry ELSE w.prior
      BY <1>3
    <3>2. entries' = [entries EXCEPT ![w.session] = e]
      BY <2>2, <3>1
    <3> QED
      BY <1>1, <2>1, <2>2, <3>1, <3>2
  <2>3. CASE ~(w.by # "none" /\ entries[w.session] = w.entry)
    BY <2>1, <2>3
  <2> QED
    BY <2>2, <2>3
<1>5. /\ call' \in [Request -> CallType]
      /\ \A q \in Request :
           \/ call'[q] = call[q]
           \/ /\ q = w.by /\ call[q].at = "waiting" /\ call'[q].at = "returned"
              /\ \/ call'[q].loaded = 0 /\ ~call'[q].gone
                 \/ /\ done.ok /\ call'[q].gone
                    /\ call'[q].loaded = call[q].loaded /\ call'[q].session = call[q].session
  <2>1. call \in [Request -> CallType]
    BY DEF SessionInv, TypeInv
  <2>2. CASE Answers(done)
    <3>1. w.by \in Request /\ call[w.by].at = "waiting" /\ call[w.by] \in CallType
      BY <1>1, <2>1, <2>2 DEF Answers, WriteType
    <3>2. CASE done.ok
      <4> DEFINE c == [call[w.by] EXCEPT !.at = "returned", !.gone = TRUE]
      <4>1. c \in CallType /\ c.at = "returned" /\ c.gone /\ c.loaded = call[w.by].loaded
            /\ c.session = call[w.by].session
        BY <3>1 DEF CallType
      <4>2. call' = [call EXCEPT ![w.by] = c]
        BY <2>2, <3>2 DEF Gone
      <4> HIDE DEF c
      <4>3. call'[w.by] = c /\ \A q \in Request \ {w.by} : call'[q] = call[q]
        BY <2>1, <3>1, <4>2
      <4>4. call' \in [Request -> CallType]
        BY <2>1, <4>1, <4>2
      <4> QED
        BY <3>1, <3>2, <4>1, <4>3, <4>4
    <3>3. CASE ~done.ok
      <4> DEFINE c == [NoCall EXCEPT !.at = "returned"]
      <4>1. c \in CallType /\ c.at = "returned" /\ ~c.gone /\ c.loaded = 0
        BY DEF CallType, NoCall
      <4>2. call' = [call EXCEPT ![w.by] = c]
        BY <2>2, <3>3 DEF Gone
      <4> HIDE DEF c
      <4>3. call'[w.by] = c /\ \A q \in Request \ {w.by} : call'[q] = call[q]
        BY <2>1, <3>1, <4>2
      <4>4. call' \in [Request -> CallType]
        BY <2>1, <4>1, <4>2
      <4> QED
        BY <3>1, <4>1, <4>3, <4>4
    <3> QED
      BY <3>2, <3>3
  <2>3. CASE ~Answers(done)
    BY <2>1, <2>3
  <2> QED
    BY <2>2, <2>3
<1> QED
  BY <1>1, <1>2, <1>4, <1>5

LEMMA AcknowledgeKeeps ==
  ASSUME SessionInv, Acknowledge
  PROVE  SessionInv'
<1> PICK done \in inflight :
           LET w == done.write
               marked == w.by # "none" /\ entries[w.session] = w.entry
           IN /\ w \in WriteType /\ w \in Outstanding /\ w.session \in Session /\ done.ok \in BOOLEAN
              /\ Taken = {w} /\ Taken' = {} /\ Queued' = Queued /\ Outstanding' = Queued
              /\ UNCHANGED <<version, writes, rows, expired, saved, floor>> /\ inflight' = {}
              /\ entries' \in [Session -> EntryType]
              /\ \A s \in Session \ {w.session} : entries'[s] = entries[s]
              /\ entries'[w.session] = IF marked THEN IF done.ok THEN NoEntry ELSE w.prior
                                       ELSE entries[w.session]
              /\ call' \in [Request -> CallType]
              /\ \A q \in Request :
                   \/ call'[q] = call[q]
                   \/ /\ q = w.by /\ call[q].at = "waiting" /\ call'[q].at = "returned"
                      /\ \/ call'[q].loaded = 0 /\ ~call'[q].gone
                         \/ /\ done.ok /\ call'[q].gone
                            /\ call'[q].loaded = call[q].loaded /\ call'[q].session = call[q].session
  BY AcknowledgeFacts
<1> DEFINE w == done.write
           k == w.session
           marked == w.by # "none" /\ entries[k] = w.entry
<1>1. /\ version \in Nat /\ w.entry.version \in 1..version /\ NoEntry.version = 0 /\ ~NoEntry.usable
      /\ w.by # "none" =>
           /\ ~w.entry.usable /\ w.prior.usable /\ w.prior.version = w.expected
           /\ w.expected \in saved[k] /\ w.expected < w.entry.version /\ w.expected \in 1..version
  BY DEF SessionInv, TypeInv, WriteInv, VersionInv, NoEntry
<1>2. TypeInv'
  BY DEF SessionInv, TypeInv
<1>3. VersionInv'
  <2>1. ASSUME NEW s \in Session PROVE entries'[s].version <= version
    <3>1. entries[s].version <= version
      BY DEF SessionInv, VersionInv
    <3> QED
      BY <1>1, <3>1
  <2> QED
    BY <2>1 DEF SessionInv, VersionInv
<1>4. EntryInv'
  <2>1. ASSUME NEW s \in Session PROVE entries'[s].usable <=> entries'[s].version \in saved[s]
    <3>1. (entries[s].usable <=> entries[s].version \in saved[s]) /\ 0 \notin saved[s]
      BY DEF SessionInv, EntryInv, VersionInv
    <3>2. CASE s = k /\ marked
      BY <1>1, <3>1, <3>2
    <3>3. CASE ~(s = k /\ marked)
      BY <3>1, <3>3
    <3> QED
      BY <3>2, <3>3
  <2> QED
    BY <2>1 DEF SessionInv, EntryInv
<1>5. WriteInv' /\ OrderInv'
  BY DEF SessionInv, WriteInv, OrderInv, Outstanding
<1>6. \A x \in Queued : x \in Outstanding /\ w.entry.version < x.entry.version
                        /\ x.session \in Session /\ x.entry.version \in 1..version
  BY WriteTypes DEF SessionInv, OrderInv, Outstanding, WriteInv, WriteType
<1>7. LastInv'
  <2>1. ASSUME NEW x \in Queued
        PROVE  \/ entries'[x.session].version = 0 \/ entries'[x.session] = x.entry
               \/ entries'[x.session].version > x.entry.version
    <3>1. \/ entries[x.session].version = 0 \/ entries[x.session] = x.entry
          \/ entries[x.session].version > x.entry.version
      BY <1>6 DEF SessionInv, LastInv
    <3>2. ~(x.session = k /\ marked)
      BY <1>1, <1>6, <3>1
    <3> QED
      BY <1>6, <3>1, <3>2
  <2> QED
    BY <1>6, <2>1 DEF SessionInv, LastInv
<1>8. CallInv'
  <2>1. ASSUME NEW q \in Request
        PROVE  /\ call'[q].at \in {"loaded", "saving", "invalidating", "waiting"} \/ call'[q].gone =>
                    call'[q].session \in Session
               /\ call'[q].loaded <= version
               /\ call'[q].loaded # 0 =>
                    call'[q].session \in Session /\ call'[q].loaded \in saved[call'[q].session]
               /\ call'[q].gone => call'[q].at = "returned"
    <3>1. CASE call'[q] = call[q]
      BY <3>1 DEF SessionInv, CallInv
    <3>2. CASE call'[q] # call[q]
      BY <1>1, <3>2 DEF SessionInv, CallInv
    <3> QED
      BY <3>1, <3>2
  <2>2. ASSUME NEW x \in Queued, x.by # "none"
        PROVE  /\ call'[x.by].at \in {"waiting", "returned"}
               /\ call'[x.by].at = "waiting" =>
                    call'[x.by].session = x.session /\ call'[x.by].loaded = x.expected
    <3>1. x.by \in Request
      BY <1>6, <2>2, WriteTypes DEF SessionInv, WriteType
    <3> QED
      BY <1>6, <2>2, <3>1 DEF SessionInv, CallInv
  <2> QED
    BY <2>1, <2>2 DEF CallInv
<1>9. GoneInv'
  <2>1. ASSUME NEW q \in Request, NEW s \in Session, NEW v \in Nat,
               call'[q].gone, call'[q].session = s, call'[q].loaded = v
        PROVE  Newer(s, v)'
    <3>1. CASE call'[q] = call[q]
      <4>1. Newer(s, v)
        BY <2>1, <3>1 DEF SessionInv, GoneInv
      <4>2. entries'[s].usable => entries'[s].version > v
        <5>1. CASE s = k /\ marked
          BY <1>1, <4>1, <5>1 DEF Newer
        <5>2. CASE ~(s = k /\ marked)
          BY <4>1, <5>2 DEF Newer
        <5> QED
          BY <5>1, <5>2
      <4> QED
        BY <1>6, <4>1, <4>2 DEF Newer
    <3>2. CASE call'[q] # call[q]
      <4>1. /\ q = w.by /\ w.by # "none" /\ done.ok /\ call[q].at = "waiting"
            /\ s = k /\ v = w.expected
        BY <2>1, <3>2, SessionCacheAssumption DEF SessionInv, CallInv
      <4>2. rows[k] = w.entry
        BY <4>1 DEF SessionInv, GoneInv
      <4>3. entries'[k].usable => entries'[k].version > v
        <5>1. CASE marked
          BY <1>1, <4>1, <5>1
        <5>2. CASE ~marked
          <6>1. \/ entries[k].version = 0 \/ entries[k].version > w.entry.version
            BY <4>1, <5>2 DEF SessionInv, LastInv
          <6>2. entries[k].usable => entries[k].version # 0
            BY DEF SessionInv, EntryInv, VersionInv
          <6>3. entries[k].version \in Nat
            BY DEF SessionInv, TypeInv, EntryType
          <6> QED
            BY <1>1, <4>1, <5>2, <6>1, <6>2, <6>3
        <5> QED
          BY <5>1, <5>2
      <4>4. ASSUME NEW x \in Queued, x.session = k
            PROVE  x.entry.version > v /\ (x.by # "none" => x.prior.version > v)
        <5>1. x.by # "none" => w.entry.version <= x.prior.version /\ x.prior.version \in Nat
          BY <1>6, <4>4, WriteTypes DEF SessionInv, LastInv, WriteType, EntryType
        <5> QED
          BY <1>1, <1>6, <4>1, <5>1
      <4> QED
        BY <1>1, <4>1, <4>2, <4>3, <4>4 DEF Newer
    <3> QED
      BY <3>1, <3>2
  <2> QED
    BY <2>1 DEF GoneInv
<1> QED
  BY <1>2, <1>3, <1>4, <1>5, <1>7, <1>8, <1>9 DEF SessionInv

\* A new process loads rows that are usable, and knows no writes.
LEMMA NewFacts ==
  ASSUME SessionInv, New
  PROVE  /\ rows' \in [Session -> EntryType] /\ entries' \in [Session -> EntryType]
         /\ \A s \in Session :
              /\ rows'[s] = rows[s] \/ rows'[s] = NoEntry
              /\ \/ entries'[s] = NoEntry
                 \/ /\ rows[s].usable /\ rows[s].version # 0 /\ rows[s].version \notin expired
                    /\ rows'[s] = rows[s] /\ entries'[s] = rows[s]
         /\ writes' = <<>> /\ inflight' = {}
         /\ Queued' = {} /\ Taken' = {} /\ Outstanding' = {}
         /\ call' \in [Request -> CallType]
         /\ \A r \in Request : call'[r] = call[r] \/ (call'[r].loaded = 0 /\ ~call'[r].gone
                                                      /\ call'[r].at = "returned")
         /\ UNCHANGED <<version, expired, saved, floor>>
<1> DEFINE disk == [k \in Session |-> IF authority /\ Fresh(rows[k]) THEN rows[k] ELSE NoEntry]
<1>1. /\ rows' = disk /\ entries' = Preloaded(disk)
      /\ writes' = <<>> /\ inflight' = {}
      /\ call' = [r \in Request |-> IF call[r].at \in {"none", "returned"} THEN call[r]
                                    ELSE [NoCall EXCEPT !.at = "returned"]]
      /\ UNCHANGED <<version, expired, saved, floor>>
  BY DEF New
<1>2. rows \in [Session -> EntryType] /\ call \in [Request -> CallType]
      /\ NoEntry \in EntryType /\ ~NoEntry.usable
  BY DEF SessionInv, TypeInv, NoEntry, EntryType
<1>3. disk \in [Session -> EntryType] /\ \A s \in Session : disk[s] = rows[s] \/ disk[s] = NoEntry
  BY <1>2
<1>4. ASSUME NEW s \in Session
      PROVE  \/ entries'[s] = NoEntry
             \/ Loadable(disk[s]) /\ entries'[s] = Entry(disk[s].version, TRUE)
  BY <1>1 DEF Preloaded
<1>5. ASSUME NEW s \in Session, Loadable(disk[s])
      PROVE  /\ Entry(disk[s].version, TRUE) = rows[s] /\ disk[s] = rows[s]
             /\ rows[s].usable /\ rows[s].version # 0 /\ rows[s].version \notin expired
  <2>1. disk[s].usable /\ disk[s].version # 0 /\ disk[s].version \notin expired
    BY <1>5 DEF Loadable, Present, Fresh
  <2>2. disk[s] = rows[s]
    BY <1>2, <1>3, <2>1
  <2>3. rows[s] \in EntryType
    BY <1>2
  <2>4. rows[s].usable = TRUE
    BY <2>1, <2>2, <2>3 DEF EntryType
  <2> HIDE DEF disk
  <2>5. [version |-> rows[s].version, usable |-> TRUE] = rows[s]
    BY <2>3, <2>4 DEF EntryType
  <2> QED
    BY <2>1, <2>2, <2>5 DEF Entry
<1>6. entries' \in [Session -> EntryType]
  <2>1. \A s \in Session : entries'[s] \in EntryType
    BY <1>2, <1>4, <1>5
  <2>2. entries' = [s \in Session |-> entries'[s]]
    BY <1>1 DEF Preloaded
  <2> QED
    BY <2>1, <2>2
<1>7. /\ call' \in [Request -> CallType]
      /\ \A r \in Request : call'[r] = call[r] \/ (call'[r].loaded = 0 /\ ~call'[r].gone
                                                   /\ call'[r].at = "returned")
  <2> DEFINE c == [NoCall EXCEPT !.at = "returned"]
  <2>1. c \in CallType /\ c.loaded = 0 /\ ~c.gone /\ c.at = "returned"
    BY DEF NoCall, CallType
  <2>2. call' = [r \in Request |-> IF call[r].at \in {"none", "returned"} THEN call[r] ELSE c]
    BY <1>1
  <2> HIDE DEF c
  <2> QED
    BY <1>2, <2>1, <2>2
<1>8. Queued' = {} /\ Taken' = {} /\ Outstanding' = {}
  BY <1>1 DEF Queued, Taken, Outstanding
<1> QED
  BY <1>1, <1>3, <1>4, <1>5, <1>6, <1>7, <1>8

LEMMA NewKeeps ==
  ASSUME SessionInv, New
  PROVE  SessionInv'
<1>1. /\ rows' \in [Session -> EntryType] /\ entries' \in [Session -> EntryType]
      /\ \A s \in Session :
           /\ rows'[s] = rows[s] \/ rows'[s] = NoEntry
           /\ entries'[s] = NoEntry \/ entries'[s] = rows[s]
      /\ writes' = <<>> /\ inflight' = {}
      /\ Queued' = {} /\ Taken' = {} /\ Outstanding' = {}
      /\ call' \in [Request -> CallType]
      /\ \A r \in Request : call'[r] = call[r] \/ (call'[r].loaded = 0 /\ ~call'[r].gone
                                                   /\ call'[r].at = "returned")
      /\ UNCHANGED <<version, expired, saved, floor>>
  BY NewFacts
<1>2. version \in Nat /\ NoEntry.version = 0 /\ ~NoEntry.usable
  BY DEF SessionInv, TypeInv, NoEntry
<1>3. TypeInv'
  BY <1>1 DEF SessionInv, TypeInv
<1>4. VersionInv'
  <2>1. ASSUME NEW s \in Session PROVE entries'[s].version <= version
    <3>1. rows[s].version <= version
      BY <1>2 DEF SessionInv, VersionInv, EntryInv
    <3> QED
      BY <1>1, <1>2, <3>1
  <2> QED
    BY <1>1, <2>1 DEF SessionInv, VersionInv
<1>5. EntryInv'
  <2>1. ASSUME NEW s \in Session
        PROVE  /\ entries'[s].usable <=> entries'[s].version \in saved[s]
               /\ rows'[s].usable <=> rows'[s].version \in saved[s]
               /\ rows'[s].version # 0 => rows'[s].version = floor[s]
    <3>1. /\ rows[s].usable <=> rows[s].version \in saved[s]
          /\ rows[s].version # 0 => rows[s].version = floor[s]
          /\ 0 \notin saved[s]
      BY DEF SessionInv, EntryInv, VersionInv
    <3> QED
      BY <1>1, <1>2, <3>1
  <2> QED
    BY <1>1, <2>1 DEF EntryInv
<1>6. WriteInv' /\ OrderInv' /\ LastInv'
  BY <1>1 DEF WriteInv, OrderInv, LastInv
<1>7. CallInv'
  BY <1>1, <1>2 DEF SessionInv, CallInv
<1>8. GoneInv'
  <2>1. ASSUME NEW q \in Request, NEW s \in Session, NEW v \in Nat,
               call'[q].gone, call'[q].session = s, call'[q].loaded = v
        PROVE  Newer(s, v)'
    <3>1. Newer(s, v)
      BY <1>1, <2>1 DEF SessionInv, GoneInv
    <3> QED
      BY <1>1, <1>2, <3>1 DEF Newer
  <2> QED
    BY <1>1, <2>1 DEF GoneInv
<1> QED
  BY <1>3, <1>4, <1>5, <1>6, <1>7, <1>8 DEF SessionInv

LEMMA SessionStep == ASSUME SessionInv, [Next]_vars PROVE SessionInv'
<1>1. ASSUME WriteRow PROVE SessionInv'
  <2>1. PICK ok \in BOOLEAN : Takes(Head(writes), ok)
    BY <1>1, WriteRowTakes
  <2> QED
    BY <2>1, TakesKeeps
<1> QED
  BY <1>1, SessionCases, LoadKeeps, SaveKeeps, InvalidateKeeps, AcknowledgeKeeps, ExpireKeeps,
     NewKeeps, CallStepKeeps DEF SessionInv


\* What the session cache, its queue and its rows hold is consistent in every
\* state of every process (Load, Save, Invalidate, Run and preload of
\* runtime/sessionstore).
THEOREM SessionInvariant == Spec => []SessionInv
<1>1. Init => SessionInv
  BY InitSession
<1>2. SessionInv /\ [Next]_vars => SessionInv'
  BY SessionStep
<1> QED
  BY <1>1, <1>2, PTL DEF Spec

\* What an invalidation was answered for (completed in the writer) is gone from
\* memory and disk, and no restart brings it back.
THEOREM GoneCorrect == Spec => []GoneIsGone
<1>1. ASSUME SessionInv PROVE GoneIsGone
  <2>1. ASSUME NEW r \in Request, call[r].gone
        PROVE  \A e \in {entries[call[r].session], rows[call[r].session]} :
                 e.usable => e.version > call[r].loaded
    <3>1. call[r].session \in Session /\ call[r].loaded \in Nat
      BY <1>1, <2>1 DEF SessionInv, CallInv, TypeInv, CallType
    <3>2. Newer(call[r].session, call[r].loaded)
      BY <1>1, <2>1, <3>1 DEF SessionInv, GoneInv
    <3> QED
      BY <3>2 DEF Newer
  <2> QED
    BY <2>1 DEF GoneIsGone
<1> QED
  BY <1>1, SessionInvariant, PTL

(***************************************************************************)
(* The cache implements SessionStore.                                      *)
(***************************************************************************)
Refused == {x.write : x \in {y \in inflight : ~y.ok}}

LEMMA HiddenIs ==
  ASSUME NEW k
  PROVE  Hidden(k) = {w \in Queued \cup Refused :
                        w.session = k /\ w.by # "none" /\ w.entry = entries[k]}
  BY DEF Hidden, Queued, Refused

AskedFor(w) == [session |-> w.session, expected |-> w.expected, version |-> w.entry.version]

LEMMA AskedIs == AskedInvalidations = {AskedFor(w) : w \in {x \in Queued : x.by # "none"}}
<1>1. {writes[i] : i \in {j \in DOMAIN writes : writes[j].by # "none"}}
        = {x \in Queued : x.by # "none"}
  BY DEF Queued
<1> QED
  BY <1>1 DEF AskedInvalidations, AskedFor

LEMMA AskedNext == AskedInvalidations' = {AskedFor(w) : w \in {x \in Queued' : x.by # "none"}}
<1>1. {writes'[i] : i \in {j \in DOMAIN writes' : writes'[j].by # "none"}}
        = {x \in Queued' : x.by # "none"}
  BY DEF Queued
<1> QED
  BY <1>1 DEF AskedInvalidations, AskedFor

\* The stored state is that of the entry, or the one its marker hides.
StoredInv ==
  /\ StoredState \in [Session -> Nat]
  /\ \A k \in Session :
       /\ entries[k].usable => StoredState[k] = entries[k].version
       /\ \A w \in Hidden(k) : StoredState[k] = w.prior.version /\ ~entries[k].usable
       /\ ~entries[k].usable /\ Hidden(k) = {} => StoredState[k] = 0
       /\ StoredState[k] # 0 => StoredState[k] \in saved[k] /\ StoredState[k] <= version
       /\ \A w \in Hidden(k) : w \in Outstanding /\ w.by # "none" /\ w.session = k /\ w.entry = entries[k]

LEMMA StoredIs == SessionInv => StoredInv
<1> SUFFICES ASSUME SessionInv PROVE StoredInv
  OBVIOUS
<1>1. ASSUME NEW k \in Session, NEW w \in Hidden(k)
      PROVE  /\ w \in Outstanding /\ w.by # "none" /\ w.session = k /\ w.entry = entries[k]
             /\ ~entries[k].usable /\ w.prior.version \in saved[k]
  <2>1. w \in Outstanding /\ w.by # "none" /\ w.session = k /\ w.entry = entries[k]
    BY HiddenIs DEF Outstanding, Taken, Refused
  <2> QED
    BY <2>1 DEF SessionInv, WriteInv
<1>2. \A k \in Session : \A w, x \in Hidden(k) : w = x
  BY <1>1, WritesDiffer DEF SessionInv
<1>3. ASSUME NEW k \in Session
      PROVE  /\ entries[k].usable => StoredState[k] = entries[k].version
             /\ \A w \in Hidden(k) : StoredState[k] = w.prior.version
             /\ ~entries[k].usable /\ Hidden(k) = {} => StoredState[k] = 0
  <2>1. StoredState[k] = IF entries[k].usable THEN entries[k].version
                         ELSE IF Hidden(k) # {} THEN (CHOOSE w \in Hidden(k) : TRUE).prior.version
                         ELSE 0
    BY DEF StoredState
  <2>2. ASSUME NEW w \in Hidden(k) PROVE StoredState[k] = w.prior.version
    <3>1. (CHOOSE x \in Hidden(k) : TRUE) = w
      BY <1>2, <2>2
    <3> QED
      BY <1>1, <2>1, <2>2, <3>1
  <2> QED
    BY <2>1, <2>2
<1>4. ASSUME NEW k \in Session
      PROVE  /\ StoredState[k] \in Nat
             /\ StoredState[k] # 0 => StoredState[k] \in saved[k] /\ StoredState[k] <= version
  <2>1. /\ entries[k].version \in Nat /\ (entries[k].usable => entries[k].version \in saved[k])
        /\ \A v \in saved[k] : v \in Nat /\ v <= version
    BY DEF SessionInv, TypeInv, EntryType, EntryInv, VersionInv
  <2>2. CASE entries[k].usable
    BY <1>3, <2>1, <2>2
  <2>3. CASE \E w \in Hidden(k) : TRUE
    BY <1>1, <1>3, <2>1, <2>3
  <2>4. CASE ~entries[k].usable /\ Hidden(k) = {}
    BY <1>3, <2>4
  <2> QED
    BY <2>2, <2>3, <2>4
<1>5. StoredState \in [Session -> Nat]
  <2>1. StoredState = [k \in Session |-> StoredState[k]]
    BY DEF StoredState
  <2> QED
    BY <1>4, <2>1
<1> QED
  BY <1>1, <1>3, <1>4, <1>5 DEF StoredInv

LEMMA StoredNext == SessionInv' => StoredInv'
  BY StoredIs, PTL

\* Two states with the same entry and the same hidden writes store the same.
LEMMA StoredSame ==
  ASSUME StoredInv, StoredInv', NEW k \in Session,
         entries'[k] = entries[k], Hidden(k)' = Hidden(k)
  PROVE  StoredState'[k] = StoredState[k]
<1>1. CASE entries[k].usable
  BY <1>1 DEF StoredInv
<1>2. CASE \E w \in Hidden(k) : TRUE
  BY <1>2 DEF StoredInv
<1>3. CASE ~entries[k].usable /\ Hidden(k) = {}
  BY <1>3 DEF StoredInv
<1> QED
  BY <1>1, <1>2, <1>3

\* The refinement is a matter of these four and of what does not change.
StoreSteps ==
  \/ \E k \in Session, usable \in BOOLEAN, displaced \in SUBSET Session :
       Promise!Save(k, usable, displaced \ {k})
  \/ \E k \in Session : \E v \in saved[k] : Promise!Ask(k, v)
  \/ \E a \in AskedInvalidations : Promise!Invalidate(a) \/ Promise!Refuse(a)
  \/ \E k \in Session, v \in 1..version : Promise!Settle(k, v)
  \/ \E v \in 1..version : Promise!Expire(v)
  \/ \E k \in Session : Promise!Forget(k)
  \/ Promise!Restart
  \/ UNCHANGED <<version, saved, StoredState, AskedInvalidations, floor, expired>>

LEMMA StoreStepsAre == StoreSteps => [Promise!Next]_(Promise!vars)
  BY DEF StoreSteps, Promise!Next, Promise!vars

LEMMA AllStoredSame ==
  ASSUME StoredInv, StoredInv', \A k \in Session : StoredState'[k] = StoredState[k]
  PROVE  StoredState' = StoredState
  BY DEF StoredInv

LEMMA QuietImplements ==
  ASSUME SessionInv, SessionInv', UNCHANGED <<version, entries, writes, inflight, saved, floor, expired>>
  PROVE  StoreSteps
<1>1. Queued' = Queued /\ Refused' = Refused
  BY DEF Queued, Refused
<1>2. \A k \in Session : Hidden(k)' = Hidden(k)
  BY <1>1, HiddenIs DEF Hidden
<1>3. StoredState' = StoredState
  BY <1>2, StoredIs, StoredNext, StoredSame, AllStoredSame
<1>4. AskedInvalidations' = AskedInvalidations
  BY DEF AskedInvalidations
<1> QED
  BY <1>3, <1>4 DEF StoreSteps

LEMMA LoadImplements ==
  ASSUME SessionInv, SessionInv', NEW r \in Request, NEW k \in Session, Load(r, k)
  PROVE  StoreSteps
<1>1. /\ entries' = IF Fresh(entries[k]) THEN entries ELSE [entries EXCEPT ![k] = NoEntry]
      /\ UNCHANGED <<version, writes, inflight, saved, floor, expired>>
  BY DEF Load
<1>2. CASE Fresh(entries[k])
  BY <1>1, <1>2, QuietImplements
<1>3. CASE ~Fresh(entries[k])
  <2>1. StoredInv /\ StoredInv'
    BY StoredIs, StoredNext
  <2>2. Queued' = Queued /\ Refused' = Refused /\ Outstanding' = Outstanding
    BY <1>1 DEF Queued, Refused, Outstanding, Taken
  <2>3. /\ entries'[k] = NoEntry /\ \A s \in Session \ {k} : entries'[s] = entries[s]
        /\ NoEntry.version = 0 /\ ~NoEntry.usable
    BY <1>1, <1>3 DEF SessionInv, TypeInv, NoEntry
  <2>4. \A s \in Session \ {k} : Hidden(s)' = Hidden(s)
    BY <2>2, <2>3 DEF Hidden, Queued, Refused
  <2>5. \A s \in Session \ {k} : StoredState'[s] = StoredState[s]
    BY <2>1, <2>3, <2>4, StoredSame
  <2>6. Hidden(k)' = {}
    <3>1. \A w \in Hidden(k)' : w \in Outstanding /\ w.entry = NoEntry
      BY <2>1, <2>2, <2>3 DEF StoredInv
    <3> QED
      BY <2>3, <3>1 DEF SessionInv, WriteInv
  <2>7. StoredState'[k] = 0
    BY <2>1, <2>3, <2>6 DEF StoredInv
  <2>8. StoredState' = [StoredState EXCEPT ![k] = 0]
    BY <2>1, <2>5, <2>7 DEF StoredInv
  <2>9. AskedInvalidations' = AskedInvalidations
    BY <1>1 DEF AskedInvalidations
  <2>10. CASE StoredState[k] = 0
    <3>1. StoredState' = StoredState
      BY <2>1, <2>8, <2>10 DEF StoredInv
    <3> QED
      BY <1>1, <2>9, <3>1 DEF StoreSteps
  <2>11. CASE StoredState[k] # 0
    <3>1. entries[k].version \in expired
      BY <1>3 DEF Fresh
    <3>2. ASSUME entries[k].usable PROVE StoredState[k] \in expired
      BY <2>1, <3>1, <3>2 DEF StoredInv
    <3>3. ASSUME ~entries[k].usable PROVE StoredState[k] \in expired
      <4>1. PICK w \in Hidden(k) : StoredState[k] = w.prior.version
        BY <2>1, <2>11, <3>3 DEF StoredInv
      <4>2. w \in Outstanding /\ w.by # "none" /\ w.session = k /\ w.entry = entries[k]
        BY <2>1, <4>1 DEF StoredInv
      <4>3. /\ \A s \in Session : entries[k].version \notin saved[s]
            /\ w.prior.version \in saved[k] /\ w.prior.version < entries[k].version
        BY <4>2 DEF SessionInv, WriteInv
      <4>4. w.prior.version \in 1..(entries[k].version - 1)
        BY <4>3 DEF SessionInv, VersionInv, TypeInv, EntryType
      <4>5. 1..(entries[k].version - 1) \subseteq expired
        BY <3>1, <4>3 DEF SessionInv, VersionInv
      <4> QED
        BY <4>1, <4>4, <4>5
    <3>4. StoredState[k] \in expired
      BY <3>2, <3>3
    <3>5. Promise!Forget(k)
      BY <1>1, <2>8, <2>9, <3>4 DEF Promise!Forget
    <3> QED
      BY <3>5 DEF StoreSteps
  <2> QED
    BY <2>10, <2>11
<1> QED
  BY <1>2, <1>3

LEMMA ExpireImplements ==
  ASSUME SessionInv, SessionInv', NEW v \in 1..version, Expire(v)
  PROVE  StoreSteps
<1>1. /\ UNCHANGED <<version, entries, writes, inflight, saved, floor>>
      /\ expired' = expired \cup {v}
  BY DEF Expire, memoryVars
<1>2. Queued' = Queued /\ Refused' = Refused
  BY <1>1 DEF Queued, Refused
<1>3. \A k \in Session : Hidden(k)' = Hidden(k)
  BY <1>1 DEF Hidden
<1>4. StoredState' = StoredState
  BY <1>1, <1>3, StoredIs, StoredNext, StoredSame, AllStoredSame
<1>5. AskedInvalidations' = AskedInvalidations
  BY <1>1 DEF AskedInvalidations
<1>6. Promise!Expire(v)
  BY <1>1, <1>4, <1>5 DEF Promise!Expire
<1> QED
  BY <1>6 DEF StoreSteps

LEMMA NewImplements ==
  ASSUME SessionInv, SessionInv', New
  PROVE  StoreSteps
<1>1. /\ \A s \in Session :
           \/ entries'[s] = NoEntry
           \/ /\ rows[s].usable /\ rows[s].version # 0 /\ rows[s].version \notin expired
              /\ entries'[s] = rows[s]
      /\ writes' = <<>> /\ Queued' = {} /\ Outstanding' = {}
      /\ UNCHANGED <<version, expired, saved, floor>>
  BY NewFacts
<1>2. StoredInv'
  BY StoredNext
<1>3. ASSUME NEW s \in Session, StoredState'[s] # 0
      PROVE  StoredState'[s] \in saved[s] \ expired /\ StoredState'[s] >= floor[s]
  <2>1. \A w \in Hidden(s)' : w \in Outstanding'
    BY <1>2 DEF StoredInv
  <2>2. entries'[s].usable /\ StoredState'[s] = entries'[s].version
    BY <1>1, <1>2, <1>3, <2>1 DEF StoredInv
  <2>3. entries'[s] = rows[s] /\ rows[s].usable /\ rows[s].version # 0 /\ rows[s].version \notin expired
    BY <1>1, <2>2 DEF NoEntry
  <2>4. rows[s].version \in saved[s] /\ rows[s].version = floor[s] /\ floor[s] \in Nat
    BY <2>3 DEF SessionInv, EntryInv, TypeInv
  <2> QED
    BY <2>2, <2>3, <2>4
<1>4. StoredState' \in [Session -> 0..version]
  BY <1>1, <1>2 DEF StoredInv, SessionInv, TypeInv
<1>5. AskedInvalidations' = {}
  BY <1>1 DEF AskedInvalidations
<1>6. Promise!Restart
  BY <1>1, <1>3, <1>4, <1>5 DEF Promise!Restart
<1> QED
  BY <1>6 DEF StoreSteps

LEMMA SaveImplements ==
  ASSUME SessionInv, SessionInv', NEW r \in Request, NEW usable \in BOOLEAN, Save(r, usable)
  PROVE  StoreSteps
<1> USE DEF memoryVars
<1> DEFINE k == call[r].session
           e == Entry(version + 1, usable)
           w == [session |-> k, entry |-> e, prior |-> NoEntry, expected |-> 0, by |-> "none"]
<1>1. /\ k \in Session /\ version \in Nat /\ e \in EntryType /\ NoEntry \in EntryType
      /\ e.version = version + 1 /\ e.usable = usable /\ NoEntry.version = 0 /\ ~NoEntry.usable
  BY DEF Save, SessionInv, TypeInv, CallInv, Entry, EntryType, NoEntry
<1>2. w \in WriteType /\ w.by = "none"
  BY <1>1 DEF WriteType
<1>3. /\ version' = version + 1
      /\ entries' = [s \in Session |-> CASE s = k -> e [] s \in Evicted(k) -> NoEntry
                                         [] OTHER -> entries[s]]
      /\ writes' = writes \/ writes' = Append(writes, w)
      /\ saved' = IF usable THEN [saved EXCEPT ![k] = @ \cup {version'}] ELSE saved
      /\ UNCHANGED <<inflight, floor, expired>>
  BY DEF Save, Enqueue
<1> HIDE DEF w, e
<1>4. Evicted(k) \subseteq Session /\ k \notin Evicted(k)
  BY DEF Evicted, Stale, Occupied
<1>5. /\ entries'[k] = e
      /\ \A s \in Evicted(k) : entries'[s] = NoEntry
      /\ \A s \in Session : s # k /\ s \notin Evicted(k) => entries'[s] = entries[s]
  <2>1. \A s \in Session : entries'[s] = CASE s = k -> e [] s \in Evicted(k) -> NoEntry
                                            [] OTHER -> entries[s]
    BY <1>3
  <2>2. entries'[k] = e
    BY <1>1, <1>4, <2>1
  <2>3. \A s \in Evicted(k) : entries'[s] = NoEntry
    BY <1>4, <2>1
  <2> QED
    BY <2>1, <2>2, <2>3
<1>6. StoredInv /\ StoredInv'
  BY StoredIs, StoredNext
<1>7. /\ {x \in Queued' : x.by # "none"} = {x \in Queued : x.by # "none"}
      /\ Refused' = Refused /\ Taken' = Taken
  <2>1. Queued' = Queued \/ Queued' = Queued \cup {w}
    <3>1. CASE writes' = writes
      BY <3>1 DEF Queued
    <3>2. CASE writes' = Append(writes, w)
      BY <1>2, <3>2, AppendQueue DEF SessionInv
    <3> QED
      BY <1>3, <3>1, <3>2
  <2> QED
    BY <1>2, <1>3, <2>1 DEF Refused, Taken
<1>8. AskedInvalidations' = AskedInvalidations
  <2>1. AskedInvalidations' = {AskedFor(x) : x \in {y \in Queued' : y.by # "none"}}
    BY AskedNext
  <2> QED
    BY <1>7, <2>1, AskedIs
<1>9. ASSUME NEW s \in Session
      PROVE  StoredState'[s] = IF s = k THEN IF usable THEN version' ELSE 0
                               ELSE IF s \in Evicted(k) THEN 0 ELSE StoredState[s]
  <2>1. \A x \in Hidden(s)' : x \in Outstanding /\ x.by # "none" /\ x.entry = entries'[s]
    <3>1. \A x \in Hidden(s)' : x \in Outstanding' /\ x.by # "none" /\ x.entry = entries'[s]
      BY <1>6 DEF StoredInv
    <3> QED
      BY <1>7, <3>1 DEF Outstanding
  <2>2. \A x \in Outstanding : x.entry.version # 0 /\ x.entry.version # version + 1
    BY <1>1 DEF SessionInv, WriteInv
  <2>3. CASE s = k
    <3>1. CASE usable
      BY <1>1, <1>3, <1>5, <1>6, <2>3, <3>1 DEF StoredInv
    <3>2. CASE ~usable
      <4>1. Hidden(s)' = {}
        BY <1>1, <1>5, <2>1, <2>2, <2>3
      <4> QED
        BY <1>1, <1>5, <1>6, <2>3, <3>2, <4>1 DEF StoredInv
    <3> QED
      BY <3>1, <3>2
  <2>4. CASE s \in Evicted(k)
    <3>1. Hidden(s)' = {}
      BY <1>1, <1>5, <2>1, <2>2, <2>4
    <3> QED
      BY <1>1, <1>4, <1>5, <1>6, <2>4, <3>1 DEF StoredInv
  <2>5. CASE s # k /\ s \notin Evicted(k)
    <3>1. entries'[s] = entries[s]
      BY <1>5, <2>5
    <3>2. Hidden(s)' = {x \in Queued' \cup Refused' :
                          x.session = s /\ x.by # "none" /\ x.entry = entries'[s]}
      BY DEF Hidden, Queued, Refused
    <3>3. Hidden(s)' = Hidden(s)
      BY <1>7, <3>1, <3>2, HiddenIs
    <3> QED
      BY <1>6, <2>5, <3>1, <3>3, StoredSame
  <2> QED
    BY <2>3, <2>4, <2>5
<1>10. Promise!Save(k, usable, Evicted(k) \ {k})
  <2>1. StoredState' = [s \in Session |-> IF s = k THEN IF usable THEN version' ELSE 0
                                          ELSE IF s \in Evicted(k) \ {k} THEN 0 ELSE StoredState[s]]
    BY <1>6, <1>9 DEF StoredInv
  <2> QED
    BY <1>3, <1>8, <2>1 DEF Promise!Save
<1> QED
  BY <1>1, <1>4, <1>10 DEF StoreSteps

LEMMA InvalidateImplements ==
  ASSUME SessionInv, SessionInv', NEW r \in Request, Invalidate(r)
  PROVE  StoreSteps
<1> DEFINE k == call[r].session
           e == Entry(version + 1, FALSE)
           w == [session |-> k, entry |-> e, prior |-> entries[k],
                 expected |-> call[r].loaded, by |-> r]
<1>1. /\ k \in Session /\ version \in Nat /\ call[r].at = "invalidating"
      /\ call[r].loaded \in Nat /\ call[r] \in CallType /\ r # "none"
      /\ UNCHANGED <<inflight, saved, floor, expired>>
  BY SessionCacheAssumption DEF Invalidate, SessionInv, TypeInv, CallInv, CallType
<1>2. CASE UNCHANGED <<version, entries, writes>>
  BY <1>1, <1>2, QuietImplements
<1>3. CASE /\ Matches(entries[k], call[r].loaded)
           /\ version' = version + 1
           /\ entries' = [entries EXCEPT ![k] = e]
           /\ writes' = Append(writes, w)
  <2>1. /\ e \in EntryType /\ e.version = version + 1 /\ ~e.usable
        /\ entries[k] \in EntryType /\ entries[k].version = call[r].loaded
        /\ call[r].loaded # 0 /\ call[r].loaded \in saved[k]
    BY <1>1, <1>3 DEF Entry, EntryType, SessionInv, TypeInv, CallInv, Matches, Present
  <2>2. /\ w \in WriteType /\ w.session = k /\ w.entry = e /\ w.by = r
        /\ w.prior = entries[k] /\ w.expected = call[r].loaded
    BY <1>1, <2>1 DEF WriteType
  <2> HIDE DEF w, e
  <2>3. /\ entries'[k] = e /\ \A s \in Session \ {k} : entries'[s] = entries[s]
    BY <1>1, <1>3, <2>1 DEF SessionInv, TypeInv
  <2>4. StoredInv /\ StoredInv'
    BY StoredIs, StoredNext
  <2>5. Queued' = Queued \cup {w} /\ Refused' = Refused
    BY <1>1, <1>3, <2>2, AppendQueue DEF SessionInv, Refused
  <2>6. \A s \in Session : Hidden(s)' = {x \in Queued' \cup Refused' :
                                           x.session = s /\ x.by # "none" /\ x.entry = entries'[s]}
    BY DEF Hidden, Queued, Refused
  <2>7. ASSUME NEW s \in Session PROVE StoredState'[s] = StoredState[s]
    <3>1. CASE s = k
      <4>1. w \in Hidden(s)'
        BY <1>1, <2>2, <2>3, <2>5, <2>6, <3>1
      <4>2. StoredState'[s] = entries[k].version
        BY <2>2, <2>4, <4>1 DEF StoredInv
      <4>3. entries[k].usable
        BY <1>1, <2>1 DEF SessionInv, EntryInv
      <4> QED
        BY <2>4, <3>1, <4>2, <4>3 DEF StoredInv
    <3>2. CASE s # k
      <4>1. Hidden(s)' = Hidden(s)
        BY <2>2, <2>3, <2>5, <2>6, <3>2, HiddenIs
      <4> QED
        BY <2>3, <2>4, <3>2, <4>1, StoredSame
    <3> QED
      BY <3>1, <3>2
  <2>8. StoredState' = StoredState
    BY <2>4, <2>7, AllStoredSame
  <2>9. AskedInvalidations' = AskedInvalidations \cup
          {[session |-> k, expected |-> call[r].loaded, version |-> version + 1]}
    <3>1. AskedInvalidations' = {AskedFor(x) : x \in {y \in Queued' : y.by # "none"}}
      BY AskedNext
    <3>2. {y \in Queued' : y.by # "none"} = {y \in Queued : y.by # "none"} \cup {w}
      BY <1>1, <2>2, <2>5
    <3>3. AskedFor(w) = [session |-> k, expected |-> call[r].loaded, version |-> version + 1]
      BY <2>1, <2>2 DEF AskedFor
    <3> QED
      BY <3>1, <3>2, <3>3, AskedIs
  <2>10. Promise!Ask(k, call[r].loaded)
    BY <1>1, <1>3, <2>8, <2>9 DEF Promise!Ask
  <2> QED
    BY <1>1, <2>1, <2>10 DEF StoreSteps
<1> QED
  BY <1>2, <1>3 DEF Invalidate

LEMMA WriteRowImplements ==
  ASSUME SessionInv, SessionInv', NEW w, NEW ok \in BOOLEAN, Takes(w, ok)
  PROVE  StoreSteps
<1> DEFINE k == w.session
<1>1. /\ w \in WriteType /\ Queued = Queued' \cup {w} /\ Taken = {}
      /\ \A x \in Queued' : w.entry.version < x.entry.version
      /\ w \in Queued /\ w \in Outstanding /\ k \in Session /\ w.entry.version \in Nat
      /\ Queued' \subseteq Outstanding
  BY TakesKeeps DEF Outstanding, WriteType, EntryType
<1>2. /\ UNCHANGED <<version, entries, expired, saved>>
      /\ ok => floor' = [floor EXCEPT ![k] = w.entry.version]
      /\ ~ok => UNCHANGED floor
      /\ Refused = {} /\ Refused' = IF ok THEN {} ELSE {w}
  <2>1. inflight = {} /\ inflight' = {[write |-> w, ok |-> ok]}
    BY DEF Takes
  <2>2. Refused = {}
    BY <2>1 DEF Refused
  <2>3. Refused' = IF ok THEN {} ELSE {w}
    <3>0. {y \in inflight' : ~y.ok} = IF ok THEN {} ELSE {[write |-> w, ok |-> ok]}
      BY <2>1
    <3>1. CASE ok
      BY <3>0, <3>1 DEF Refused
    <3>2. CASE ~ok
      <4>1. {y \in inflight' : ~y.ok} = {[write |-> w, ok |-> ok]}
        BY <3>0, <3>2
      <4>2. Refused' = {x.write : x \in {[write |-> w, ok |-> ok]}}
        BY <4>1 DEF Refused
      <4>3. [write |-> w, ok |-> ok].write = w
        OBVIOUS
      <4> QED
        BY <3>2, <4>2, <4>3
    <3> QED
      BY <3>1, <3>2
  <2> QED
    BY <2>2, <2>3 DEF Takes
<1>3. StoredInv /\ StoredInv'
  BY StoredIs, StoredNext
<1>4. w \notin Queued' /\ \A x \in Queued' : x.entry.version # w.entry.version
  BY <1>1
<1>5. \A s \in Session : Hidden(s)' = {x \in Queued' \cup Refused' :
                                         x.session = s /\ x.by # "none" /\ x.entry = entries[s]}
  BY <1>2 DEF Hidden, Queued, Refused
<1>6. w.entry.version \in 1..version /\ floor[k] < w.entry.version
  BY <1>1 DEF SessionInv, WriteInv, OrderInv
<1>7. AskedInvalidations' = {AskedFor(x) : x \in {y \in Queued' : y.by # "none"}}
  BY AskedNext
<1>8. ASSUME w.by = "none" PROVE StoreSteps
  <2>1. AskedInvalidations' = AskedInvalidations
    <3>1. {y \in Queued' : y.by # "none"} = {y \in Queued : y.by # "none"}
      BY <1>1, <1>8
    <3> QED
      BY <1>7, <3>1, AskedIs
  <2>2. \A s \in Session : Hidden(s)' = Hidden(s)
    BY <1>1, <1>2, <1>5, <1>8, HiddenIs
  <2>3. StoredState' = StoredState
    BY <1>2, <1>3, <2>2, StoredSame, AllStoredSame
  <2>4. CASE ok
    <3>1. w.entry.version \notin {a.version : a \in AskedInvalidations}
      BY <1>4, <1>7, <2>1 DEF AskedFor
    <3>2. Promise!Settle(k, w.entry.version)
      BY <1>2, <1>6, <2>1, <2>3, <2>4, <3>1 DEF Promise!Settle
    <3> QED
      BY <1>1, <1>6, <3>2 DEF StoreSteps
  <2>5. CASE ~ok
    BY <1>2, <2>1, <2>3, <2>5 DEF StoreSteps
  <2> QED
    BY <2>4, <2>5
<1>9. ASSUME w.by # "none" PROVE StoreSteps
  <2> DEFINE a == AskedFor(w)
  <2>1. /\ a.session = k /\ a.expected = w.expected /\ a.version = w.entry.version
        /\ a \in AskedInvalidations
    BY <1>1, <1>9, AskedIs DEF AskedFor
  <2>2. AskedInvalidations' = AskedInvalidations \ {a}
    <3>1. {y \in Queued : y.by # "none"} = {y \in Queued' : y.by # "none"} \cup {w}
      BY <1>1, <1>9
    <3>2. \A x \in Queued' : AskedFor(x).version # a.version
      BY <1>4, <2>1 DEF AskedFor
    <3> HIDE DEF a
    <3>3. AskedInvalidations = AskedInvalidations' \cup {AskedFor(w)}
      BY <1>7, <3>1, AskedIs
    <3>4. AskedFor(w) \notin AskedInvalidations'
      BY <1>7, <3>2 DEF a
    <3> QED
      BY <3>3, <3>4 DEF a
  <2> HIDE DEF a
  <2>3. CASE ~ok
    <3>1. \A s \in Session : Hidden(s)' = Hidden(s)
      BY <1>1, <1>2, <1>5, <2>3, HiddenIs
    <3>2. StoredState' = StoredState
      BY <1>2, <1>3, <3>1, StoredSame, AllStoredSame
    <3>3. Promise!Refuse(a)
      BY <1>2, <2>2, <2>3, <3>2 DEF Promise!Refuse
    <3> QED
      BY <2>1, <3>3 DEF StoreSteps
  <2>4. CASE ok
    <3>1. /\ ~w.entry.usable /\ w.prior.version = w.expected /\ w.expected \in saved[k]
          /\ w.expected < w.entry.version /\ w.entry.version \notin saved[k]
          /\ w.expected \in Nat /\ w.expected # 0
      BY <1>1, <1>9 DEF SessionInv, WriteInv, VersionInv
    <3>2. ASSUME NEW s \in Session, s # k PROVE StoredState'[s] = StoredState[s]
      <4>1. Hidden(s)' = Hidden(s)
        BY <1>1, <1>2, <1>5, <2>4, <3>2, HiddenIs
      <4> QED
        BY <1>2, <1>3, <4>1, StoredSame
    <3>3. /\ StoredState'[k] = IF StoredState[k] = w.expected THEN 0 ELSE StoredState[k]
          /\ StoredState'[k] \notin 1..w.entry.version
      <4>1. CASE entries[k] = w.entry
        <5>1. w \in Hidden(k)
          BY <1>1, <1>9, <4>1, HiddenIs
        <5>2. StoredState[k] = w.expected
          BY <1>1, <1>3, <3>1, <5>1 DEF StoredInv
        <5>3. Hidden(k)' = {}
          BY <1>1, <1>2, <1>4, <1>5, <2>4, <4>1
        <5>4. StoredState'[k] = 0
          BY <1>1, <1>2, <1>3, <3>1, <4>1, <5>3 DEF StoredInv
        <5> QED
          BY <5>2, <5>4
      <4>2. CASE entries[k] # w.entry
        <5>1. Hidden(k)' = Hidden(k)
          BY <1>1, <1>2, <1>5, <2>4, <4>2, HiddenIs
        <5>2. StoredState'[k] = StoredState[k]
          BY <1>1, <1>2, <1>3, <5>1, StoredSame
        <5>3. entries[k].version = 0 \/ entries[k].version > w.entry.version
          BY <1>1, <4>2 DEF SessionInv, LastInv
        <5>4. ASSUME StoredState[k] # 0 PROVE StoredState[k] > w.entry.version
          <6>1. CASE entries[k].usable
            <7>1. StoredState[k] = entries[k].version
              BY <1>1, <1>3, <6>1 DEF StoredInv
            <7> QED
              BY <5>3, <5>4, <7>1
          <6>2. CASE ~entries[k].usable
            <7>1. PICK x \in Hidden(k) : StoredState[k] = x.prior.version
              BY <1>1, <1>3, <5>4, <6>2 DEF StoredInv
            <7>2. x \in Outstanding /\ x.by # "none" /\ x.session = k /\ x.entry = entries[k]
              BY <1>1, <1>3, <7>1 DEF StoredInv
            <7>3. x.entry.version # 0 /\ x.prior.version \in saved[k] /\ x.prior.version \in Nat
              BY <1>1, <7>2 DEF SessionInv, WriteInv, VersionInv
            <7>4. w.entry.version <= x.prior.version
              BY <1>1, <5>3, <7>2, <7>3 DEF SessionInv, LastInv
            <7>5. w.entry.version # x.prior.version
              BY <3>1, <7>3
            <7> QED
              BY <1>1, <7>1, <7>3, <7>4, <7>5
          <6> QED
            BY <6>1, <6>2
        <5>5. StoredState[k] \in Nat
          BY <1>1, <1>3 DEF StoredInv
        <5> QED
          BY <1>1, <3>1, <5>2, <5>4, <5>5
      <4> QED
        BY <4>1, <4>2
    <3>4. StoredState' = [StoredState EXCEPT ![k] = IF @ = w.expected THEN 0 ELSE @]
      BY <1>1, <1>3, <3>2, <3>3 DEF StoredInv
    <3>5. Promise!Invalidate(a)
      BY <1>1, <1>2, <1>6, <2>1, <2>2, <2>4, <3>3, <3>4 DEF Promise!Invalidate
    <3> QED
      BY <2>1, <3>5 DEF StoreSteps
  <2> QED
    BY <2>3, <2>4
<1> QED
  BY <1>8, <1>9

LEMMA AcknowledgeImplements ==
  ASSUME SessionInv, SessionInv', Acknowledge
  PROVE  StoreSteps
<1>1. PICK done \in inflight :
        LET w == done.write
            marked == w.by # "none" /\ entries[w.session] = w.entry
        IN /\ w \in WriteType /\ w \in Outstanding /\ w.session \in Session /\ done.ok \in BOOLEAN
           /\ Queued' = Queued
           /\ UNCHANGED <<version, writes, rows, expired, saved, floor>> /\ inflight' = {}
           /\ \A s \in Session \ {w.session} : entries'[s] = entries[s]
           /\ entries'[w.session] = IF marked THEN IF done.ok THEN NoEntry ELSE w.prior
                                    ELSE entries[w.session]
  BY AcknowledgeFacts
<1> DEFINE w == done.write
           k == w.session
           marked == w.by # "none" /\ entries[k] = w.entry
<1>2. /\ Refused = (IF done.ok THEN {} ELSE {w}) /\ Refused' = {}
  <2>1. \A x \in inflight : x = done
    BY DEF SessionInv, TypeInv
  <2>2. CASE done.ok
    BY <1>1, <2>1, <2>2 DEF Refused
  <2>3. CASE ~done.ok
    BY <1>1, <2>1, <2>3 DEF Refused
  <2> QED
    BY <2>2, <2>3
<1>3. StoredInv /\ StoredInv'
  BY StoredIs, StoredNext
<1>4. \A s \in Session : Hidden(s)' = {x \in Queued' \cup Refused' :
                                         x.session = s /\ x.by # "none" /\ x.entry = entries'[s]}
  BY DEF Hidden, Queued, Refused
<1>5. /\ w.entry.version # 0 /\ \A x \in Queued : x.entry.version # w.entry.version /\ x.entry.version # 0
      /\ w.by # "none" => ~w.entry.usable /\ w.prior.usable
  <2>1. w \in Taken
    BY <1>1 DEF Taken
  <2>2. \A x \in Outstanding : x.entry.version \in Nat /\ x.entry.version # 0
    BY DEF SessionInv, WriteInv, TypeInv
  <2>3. \A x \in Queued : x \in Outstanding /\ w.entry.version < x.entry.version
    BY <2>1 DEF SessionInv, OrderInv, Outstanding
  <2>4. w.by # "none" => ~w.entry.usable /\ w.prior.usable
    BY <1>1 DEF SessionInv, WriteInv
  <2> QED
    BY <1>1, <2>2, <2>3, <2>4
<1>6. ASSUME NEW s \in Session PROVE StoredState'[s] = StoredState[s]
  <2>1. CASE s = k /\ marked /\ done.ok
    <3>1. entries'[s] = NoEntry /\ NoEntry.version = 0 /\ ~NoEntry.usable /\ ~entries[s].usable
      BY <1>1, <1>5, <2>1 DEF NoEntry
    <3>2. Hidden(s)' = {}
      BY <1>1, <1>2, <1>4, <1>5, <3>1
    <3>3. Hidden(s) = {}
      BY <1>2, <1>5, <2>1, HiddenIs
    <3> QED
      BY <1>3, <3>1, <3>2, <3>3 DEF StoredInv
  <2>2. CASE s = k /\ marked /\ ~done.ok
    <3>1. entries'[s] = w.prior /\ w.prior.usable
      BY <1>1, <1>5, <2>2
    <3>2. w \in Hidden(s)
      BY <1>2, <2>2, HiddenIs
    <3> QED
      BY <1>3, <3>1, <3>2 DEF StoredInv
  <2>3. CASE ~(s = k /\ marked)
    <3>1. entries'[s] = entries[s]
      BY <1>1, <2>3
    <3>2. Hidden(s)' = Hidden(s)
      BY <1>1, <1>2, <1>4, <2>3, <3>1, HiddenIs
    <3> QED
      BY <1>3, <3>1, <3>2, StoredSame
  <2> QED
    BY <1>1, <2>1, <2>2, <2>3
<1>7. StoredState' = StoredState
  BY <1>3, <1>6, AllStoredSame
<1>8. AskedInvalidations' = AskedInvalidations
  BY <1>1 DEF AskedInvalidations
<1> QED
  BY <1>1, <1>7, <1>8 DEF StoreSteps

LEMMA StoreStep ==
  ASSUME SessionInv, SessionInv', [Next]_vars
  PROVE  StoreSteps
<1>1. ASSUME WriteRow PROVE StoreSteps
  <2>1. PICK ok \in BOOLEAN : Takes(Head(writes), ok)
    BY <1>1, WriteRowTakes
  <2> QED
    BY <2>1, WriteRowImplements
<1>2. ASSUME CallStep PROVE StoreSteps
  BY <1>2, QuietImplements DEF CallStep, StoreVars
<1> QED
  BY <1>1, <1>2, SessionCases, LoadImplements, SaveImplements, InvalidateImplements,
     AcknowledgeImplements, ExpireImplements, NewImplements DEF SessionInv

\* What the durable store does to the sessions, with its cache, its queue, its
\* writer and any number of restarts, is what kernel.SessionStore promises.
THEOREM CacheImplementsStore == Spec => ImplementsSessionStore
<1>1. ASSUME Init PROVE Promise!Init
  <2>1. SessionInv
    BY <1>1, InitSession
  <2>2. StoredInv
    BY <2>1, StoredIs
  <2>3. /\ version \in Nat /\ version = Cardinality(Session)
        /\ writes = <<>> /\ inflight = {} /\ expired = {}
        /\ floor = [k \in Session |-> rows[k].version]
        /\ rows \in [Session -> EntryType]
        /\ \A k \in Session : rows[k].version <= version
    BY <1>1, SessionCacheAssumption, FS_CardinalityType DEF Init, SessionInit
  <2>4. saved \in [Session -> SUBSET (1..version)] /\ floor \in [Session -> 0..version]
    <3>1. saved = [k \in Session |-> saved[k]] /\ \A k \in Session : saved[k] \subseteq 1..version
      BY <1>1, <2>1 DEF SessionInv, VersionInv, Init, SessionInit
    <3> QED
      BY <2>3, <3>1 DEF EntryType
  <2>5. \A k \in Session : Hidden(k) = {}
    BY <2>3, HiddenIs DEF Queued, Refused
  <2>6. StoredState \in [Session -> 0..version]
    BY <2>2, <2>3 DEF StoredInv
  <2>7. ASSUME NEW k \in Session, StoredState[k] # 0
        PROVE  StoredState[k] \in saved[k] /\ StoredState[k] >= floor[k]
    <3>1. entries[k].usable /\ StoredState[k] = entries[k].version
      BY <2>2, <2>5, <2>7 DEF StoredInv
    <3>2. entries[k] = NoEntry \/ entries[k] = Entry(rows[k].version, TRUE)
      BY <1>1 DEF Init, SessionInit, Preloaded
    <3>3. entries[k].version = rows[k].version
      BY <3>1, <3>2 DEF NoEntry, Entry
    <3> QED
      BY <2>2, <2>3, <2>7, <3>1, <3>3 DEF StoredInv, EntryType
  <2>8. AskedInvalidations = {}
    BY <2>3 DEF AskedInvalidations
  <2> QED
    BY <2>3, <2>4, <2>6, <2>7, <2>8 DEF Promise!Init
<1>2. SessionInv /\ SessionInv' /\ [Next]_vars => [Promise!Next]_(Promise!vars)
  BY StoreStep, StoreStepsAre
<1> QED
  BY <1>1, <1>2, SessionInvariant, PTL DEF Spec, ImplementsSessionStore, Promise!Spec

(***************************************************************************)
(* The accounting of usage events.                                         *)
(***************************************************************************)
Waiting(a) == \E i \in DOMAIN events : events[i] = a

\* A final attempt is counted once, queued once or in hand, and an attempt that
\* is not final is nowhere.
Place(a) ==
  \/ /\ attempt[a] = "final" /\ Waiting(a) /\ a \notin hand /\ tally[a] = <<>>
  \/ /\ attempt[a] = "final" /\ ~Waiting(a) /\ a \in hand /\ tally[a] = <<>>
  \/ /\ attempt[a] = "final" /\ ~Waiting(a) /\ a \notin hand
     /\ \E fate \in Fates : tally[a] = <<fate>>
  \/ /\ attempt[a] # "final" /\ ~Waiting(a) /\ a \notin hand /\ tally[a] = <<>>

UsageInv ==
  /\ attempt \in [Attempt -> {"none", "open", "final", "over"}]
  /\ tally \in [Attempt -> Seq(Fates)] /\ events \in Seq(Attempt) /\ closed \in BOOLEAN
  /\ hand \subseteq Attempt /\ \A a, b \in hand : a = b
  /\ \A i, j \in DOMAIN events : events[i] = events[j] => i = j
  /\ \A a \in Attempt : Place(a)

LEMMA UsageCases ==
  ASSUME [Next]_vars
  PROVE  \/ \E a \in Attempt : Open(a) \/ Finish(a)
         \/ Receive \/ SaveUsageEvent \/ NewAccounting
         \/ UNCHANGED <<attempt, events, hand, tally>> /\ (closed' = closed \/ closed' = TRUE)
<1> USE StopAssumption
<1>1. CASE UNCHANGED usageVars
  BY <1>1 DEF usageVars
<1>2. CASE \E r \in Request : (\E k \in Session : Begin(r, k)) \/ HandlerStep(r) \/ Disconnect(r)
  BY <1>1, <1>2 DEF Begin, HandlerStep, Accepted, SaveState, ContinuityInvalid, InvalidateState,
     StopWaiting, Report, Disconnect
<1>3. CASE Persist \/ Answer \/ WriterExits \/ BeginStop \/ World
  BY <1>1, <1>3 DEF Persist, Answer, WriterExits, BeginStop, World
<1>4. CASE Consume \/ StopStep \/ GiveUp \/ EndBudget \/ Restart
  BY <1>1, <1>4 DEF Consume, ConsumerExits, StopStep, Shutdown, Exit, GiveUp, Cleanup, CloseEvents,
     EndBudget, CancelPersistence, Restart
<1>5. CASE UNCHANGED vars
  BY <1>1, <1>5 DEF vars
<1> QED
  BY <1>2, <1>3, <1>4, <1>5 DEF Next

LEMMA CountFacts ==
  ASSUME UsageInv, NEW a \in Attempt, NEW fate \in Fates, Count(a, fate)
  PROVE  /\ tally' \in [Attempt -> Seq(Fates)]
         /\ \A b \in Attempt \ {a} : tally'[b] = tally[b]
         /\ tally[a] = <<>> => tally'[a] = <<fate>>
<1>1. tally[a] \in Seq(Fates)
  BY DEF UsageInv
<1>2. /\ Append(tally[a], fate) \in Seq(Fates)
      /\ tally[a] = <<>> => Append(tally[a], fate) = <<fate>>
  <2>1. Append(tally[a], fate) \in Seq(Fates)
    BY <1>1
  <2>2. Append(<<>>, fate) = <<fate>>
    OBVIOUS
  <2> QED
    BY <2>1, <2>2
<1>3. tally' = [tally EXCEPT ![a] = Append(tally[a], fate)]
  BY DEF Count
<1> QED
  BY <1>2, <1>3 DEF UsageInv

LEMMA FinishKeepsUsage ==
  ASSUME UsageInv, NEW a \in Attempt, Finish(a)
  PROVE  UsageInv'
<1>1. /\ attempt[a] = "open" /\ attempt'[a] = "final"
      /\ attempt' \in [Attempt -> {"none", "open", "final", "over"}]
      /\ \A b \in Attempt \ {a} : attempt'[b] = attempt[b]
      /\ UNCHANGED <<closed, hand>>
      /\ ~Waiting(a) /\ a \notin hand /\ tally[a] = <<>>
  BY DEF Finish, Reports, UsageInv, Place
<1>2. CASE events' = Append(events, a) /\ UNCHANGED tally
  <2>1. /\ events' \in Seq(Attempt)
        /\ DOMAIN events' = 1..(Len(events) + 1) /\ DOMAIN events = 1..Len(events) /\ Len(events) \in Nat
        /\ events'[Len(events) + 1] = a /\ \A i \in 1..Len(events) : events'[i] = events[i]
    BY <1>2 DEF UsageInv
  <2>2. ASSUME NEW i \in DOMAIN events', NEW j \in DOMAIN events', events'[i] = events'[j]
        PROVE  i = j
    <3>1. \A m \in 1..Len(events) : events[m] # a
      BY <1>1, <2>1 DEF Waiting
    <3>2. \A m \in DOMAIN events' : m \in 1..Len(events) \/ m = Len(events) + 1
      BY <2>1
    <3> QED
      BY <2>1, <2>2, <3>1, <3>2 DEF UsageInv
  <2>3. Waiting(a)' /\ \A b \in Attempt \ {a} : Waiting(b)' <=> Waiting(b)
    BY <2>1 DEF Waiting
  <2>4. ASSUME NEW b \in Attempt PROVE Place(b)'
    <3>1. CASE b = a
      BY <1>1, <1>2, <2>3, <3>1 DEF Place
    <3>2. CASE b # a
      BY <1>1, <1>2, <2>3, <3>2 DEF Place, UsageInv
    <3> QED
      BY <3>1, <3>2
  <2> QED
    BY <1>1, <1>2, <2>1, <2>2, <2>4 DEF UsageInv
<1>3. CASE UNCHANGED events /\ \E fate \in Fates : Count(a, fate)
  <2>1. PICK fate \in Fates : Count(a, fate)
    BY <1>3
  <2>2. /\ tally' \in [Attempt -> Seq(Fates)] /\ tally'[a] = <<fate>>
        /\ \A b \in Attempt \ {a} : tally'[b] = tally[b]
    BY <1>1, <2>1, CountFacts
  <2>3. \A b \in Attempt : Waiting(b)' <=> Waiting(b)
    BY <1>3 DEF Waiting
  <2>4. ASSUME NEW b \in Attempt PROVE Place(b)'
    <3>1. CASE b = a
      BY <1>1, <2>2, <2>3, <3>1 DEF Place
    <3>2. CASE b # a
      BY <1>1, <2>2, <2>3, <3>2 DEF Place, UsageInv
    <3> QED
      BY <3>1, <3>2
  <2> QED
    BY <1>1, <1>3, <2>2, <2>4 DEF UsageInv
<1> QED
  BY <1>2, <1>3 DEF Finish, Fates

LEMMA ReceiveKeepsUsage ==
  ASSUME UsageInv, Receive
  PROVE  UsageInv'
<1>0. PICK a : a = Head(events)
  OBVIOUS
<1>1. /\ events' \in Seq(Attempt) /\ a \in Attempt /\ a = events[1] /\ Waiting(a)
      /\ DOMAIN events = 1..Len(events) /\ Len(events) \in Nat \ {0}
      /\ DOMAIN events' = 1..(Len(events) - 1)
      /\ \A i \in 1..(Len(events) - 1) : events'[i] = events[i + 1]
      /\ hand = {} /\ UNCHANGED <<attempt, closed>>
  BY <1>0 DEF Receive, UsageInv, Waiting
<1>2. attempt[a] = "final" /\ tally[a] = <<>>
  BY <1>1 DEF UsageInv, Place
<1>3. ASSUME NEW i \in DOMAIN events', NEW j \in DOMAIN events', events'[i] = events'[j]
      PROVE  i = j
  <2>1. /\ i \in Int /\ j \in Int /\ i + 1 \in DOMAIN events /\ j + 1 \in DOMAIN events
        /\ events[i + 1] = events[j + 1]
    BY <1>1, <1>3
  <2> QED
    BY <2>1 DEF UsageInv
<1>4. ~Waiting(a)'
  <2>1. \A i \in DOMAIN events' : i + 1 \in DOMAIN events /\ i + 1 # 1 /\ events'[i] = events[i + 1]
    BY <1>1
  <2>2. 1 \in DOMAIN events /\ events[1] = a
    BY <1>1
  <2> QED
    BY <2>1, <2>2 DEF UsageInv, Waiting
<1>5. ASSUME NEW b \in Attempt, b # a PROVE Waiting(b)' <=> Waiting(b)
  <2>1. ASSUME NEW i \in DOMAIN events, events[i] = b PROVE Waiting(b)'
    <3>1. i # 1 /\ i - 1 \in 1..(Len(events) - 1)
      BY <1>1, <1>5, <2>1
    <3> QED
      BY <1>1, <2>1, <3>1 DEF Waiting
  <2>2. Waiting(b)' => Waiting(b)
    BY <1>1 DEF Waiting
  <2> QED
    BY <2>1, <2>2 DEF Waiting
<1>6. CASE hand' = {a} /\ UNCHANGED tally
  <2>1. ASSUME NEW b \in Attempt PROVE Place(b)'
    <3>1. CASE b = a
      BY <1>1, <1>2, <1>4, <1>6, <3>1 DEF Place
    <3>2. CASE b # a
      BY <1>1, <1>5, <1>6, <3>2 DEF Place, UsageInv
    <3> QED
      BY <3>1, <3>2
  <2> QED
    BY <1>1, <1>3, <1>6, <2>1 DEF UsageInv
<1>7. CASE UNCHANGED hand /\ Count(a, "settled")
  <2>1. /\ tally' \in [Attempt -> Seq(Fates)] /\ tally'[a] = <<"settled">>
        /\ \A b \in Attempt \ {a} : tally'[b] = tally[b]
    BY <1>1, <1>2, <1>7, CountFacts DEF Fates
  <2>2. ASSUME NEW b \in Attempt PROVE Place(b)'
    <3>1. CASE b = a
      BY <1>1, <1>2, <1>4, <1>7, <2>1, <3>1 DEF Place, Fates
    <3>2. CASE b # a
      BY <1>1, <1>5, <1>7, <2>1, <3>2 DEF Place, UsageInv
    <3> QED
      BY <3>1, <3>2
  <2> QED
    BY <1>1, <1>3, <1>7, <2>1, <2>2 DEF UsageInv
<1> QED
  BY <1>0, <1>6, <1>7 DEF Receive

LEMMA UsageStep ==
  ASSUME UsageInv, [Next]_vars
  PROVE  UsageInv'
<1>1. ASSUME NEW a \in Attempt, Open(a) PROVE UsageInv'
  <2>1. /\ attempt' \in [Attempt -> {"none", "open", "final", "over"}]
        /\ attempt[a] = "none" /\ attempt'[a] = "open" /\ \A b \in Attempt \ {a} : attempt'[b] = attempt[b]
        /\ UNCHANGED <<closed, events, hand, tally>>
    BY <1>1 DEF Open, UsageInv
  <2>2. \A b \in Attempt : Place(b)'
    BY <2>1 DEF Place, UsageInv, Waiting
  <2> QED
    BY <2>1, <2>2 DEF UsageInv
<1>2. ASSUME SaveUsageEvent PROVE UsageInv'
  <2>1. PICK a \in hand : hand' = {} /\ Count(a, "settled") /\ UNCHANGED <<attempt, closed, events>>
    BY <1>2 DEF SaveUsageEvent
  <2>2. a \in Attempt /\ attempt[a] = "final" /\ ~Waiting(a) /\ tally[a] = <<>>
        /\ \A b \in Attempt \ {a} : b \notin hand
    BY DEF UsageInv, Place
  <2>3. /\ tally' \in [Attempt -> Seq(Fates)] /\ tally'[a] = <<"settled">>
        /\ \A b \in Attempt \ {a} : tally'[b] = tally[b]
    BY <2>1, <2>2, CountFacts DEF Fates
  <2>4. ASSUME NEW b \in Attempt PROVE Place(b)'
    <3>1. Waiting(b)' <=> Waiting(b)
      BY <2>1 DEF Waiting
    <3>2. CASE b = a
      BY <2>1, <2>2, <2>3, <3>1, <3>2 DEF Place, Fates
    <3>3. CASE b # a
      BY <2>1, <2>2, <2>3, <3>1, <3>3 DEF Place, UsageInv
    <3> QED
      BY <3>2, <3>3
  <2> QED
    BY <2>1, <2>3, <2>4 DEF UsageInv
<1>3. ASSUME NewAccounting PROVE UsageInv'
  <2>1. /\ events' = <<>> /\ hand' = {} /\ closed' = FALSE /\ tally' = [a \in Attempt |-> <<>>]
        /\ \A a \in Attempt : attempt'[a] \in {"none", "over"}
        /\ attempt' = [a \in Attempt |-> IF attempt[a] = "none" THEN "none" ELSE "over"]
    BY <1>3 DEF NewAccounting
  <2>2. \A b \in Attempt : Place(b)'
    BY <2>1 DEF Place, Waiting
  <2>3. <<>> \in Seq(Attempt) /\ <<>> \in Seq(Fates)
    OBVIOUS
  <2>4. /\ attempt' \in [Attempt -> {"none", "open", "final", "over"}]
        /\ tally' \in [Attempt -> Seq(Fates)] /\ events' \in Seq(Attempt)
    BY <2>1, <2>3
  <2>5. \A i, j \in DOMAIN events' : events'[i] = events'[j] => i = j
    BY <2>1
  <2> QED
    BY <2>1, <2>2, <2>4, <2>5 DEF UsageInv
<1>4. ASSUME UNCHANGED <<attempt, events, hand, tally>>, closed' = closed \/ closed' = TRUE
      PROVE  UsageInv'
  BY <1>4 DEF UsageInv, Place, Waiting
<1> QED
  BY <1>1, <1>2, <1>3, <1>4, UsageCases, FinishKeepsUsage, ReceiveKeepsUsage

LEMMA UsageStart == ASSUME Init PROVE UsageInv
<1>1. /\ events = <<>> /\ hand = {} /\ closed = FALSE /\ tally = [a \in Attempt |-> <<>>]
      /\ attempt = [a \in Attempt |-> "none"]
  BY DEF Init, UsageInit
<1>2. <<>> \in Seq(Attempt) /\ <<>> \in Seq(Fates)
  OBVIOUS
<1>3. /\ attempt \in [Attempt -> {"none", "open", "final", "over"}]
      /\ tally \in [Attempt -> Seq(Fates)] /\ events \in Seq(Attempt)
  BY <1>1, <1>2
<1>4. \A a \in Attempt : Place(a)
  BY <1>1 DEF Place, Waiting
<1>5. \A i, j \in DOMAIN events : events[i] = events[j] => i = j
  BY <1>1
<1> QED
  BY <1>1, <1>3, <1>4, <1>5 DEF UsageInv

\* No usage event is counted twice or lost, whatever the order in which the
\* handlers report, the queue fills, closes and drains, and the budget ends.
THEOREM CountedCorrect == Spec => []CountedOnce
<1>1. ASSUME UsageInv PROVE CountedOnce
  <2>1. ASSUME NEW a \in Attempt
        PROVE  Len(tally[a]) + Cardinality({i \in DOMAIN events : events[i] = a})
                 + (IF a \in hand THEN 1 ELSE 0) = IF attempt[a] = "final" THEN 1 ELSE 0
    <3>1. Place(a)
      BY <1>1 DEF UsageInv
    <3>2. CASE Waiting(a)
      <4>1. PICK i \in DOMAIN events : events[i] = a
        BY <3>2 DEF Waiting
      <4>2. {j \in DOMAIN events : events[j] = a} = {i}
        BY <1>1, <4>1 DEF UsageInv
      <4>3. Cardinality({j \in DOMAIN events : events[j] = a}) = 1
        BY <4>2, FS_Singleton
      <4>4. attempt[a] = "final" /\ a \notin hand /\ Len(tally[a]) = 0
        BY <3>1, <3>2 DEF Place
      <4> QED
        BY <4>3, <4>4
    <3>3. CASE ~Waiting(a)
      <4>1. {j \in DOMAIN events : events[j] = a} = {}
        BY <3>3 DEF Waiting
      <4>2. Cardinality({j \in DOMAIN events : events[j] = a}) = 0
        BY <4>1, FS_EmptySet
      <4>3. CASE tally[a] = <<>>
        BY <3>1, <3>3, <4>2, <4>3 DEF Place
      <4>4. CASE tally[a] # <<>>
        <5>1. attempt[a] = "final" /\ a \notin hand /\ Len(tally[a]) = 1
          BY <3>1, <3>3, <4>4 DEF Place
        <5> QED
          BY <4>2, <5>1
      <4> QED
        BY <4>3, <4>4
    <3> QED
      BY <3>2, <3>3
  <2> QED
    BY <2>1 DEF CountedOnce
<1>2. Init => UsageInv
  BY UsageStart
<1>3. UsageInv /\ [Next]_vars => UsageInv'
  BY UsageStep
<1> QED
  BY <1>1, <1>2, <1>3, PTL DEF Spec

(***************************************************************************)
(* The stop sequence.                                                      *)
(***************************************************************************)
Ending == {"draining", "exited"}

\* The writer returns after the cancellation, with nothing of its queue left;
\* what is queued afterwards is newer.
WriterInv ==
  writer = "exited" =>
    /\ inflight = {} /\ stage # "serving" /\ drained \in Nat /\ drained <= version
    /\ \A w \in Queued : w.entry.version > drained

\* The kernel is closed when the HTTP servers are down, and only a closed and
\* empty queue ends the consumer.
CloseInv ==
  /\ closed <=> stage \in Ending
  /\ consumer = "exited" => closed /\ events = <<>> /\ hand = {}
  /\ stage = "exited" => consumer = "exited" /\ writer = "exited"

\* Unless Shutdown gave up, all handlers are over when the kernel is closed.
AttemptInv ==
  /\ \A r \in Request : call[r].at = "none" => attempt[r] = "none"
  /\ stage \in Ending /\ ~gaveUp => HandlersOver
  /\ \A a \in Attempt : tally[a] = <<"refused">> => gaveUp

StageInv == WriterInv /\ CloseInv /\ AttemptInv

\* What a step does to the writer and its queue.
LEMMA WriterCases ==
  ASSUME SessionInv, [Next]_vars
  PROVE  \/ WriterExits
         \/ writer' = "running"
         \/ /\ writer' = writer /\ drained' = drained /\ (inflight' = inflight \/ inflight' = {})
            /\ stage = "serving" \/ stage' # "serving"
            /\ version' \in Nat /\ version <= version'
            /\ \A w \in Queued' : w \in Queued \/ w.entry.version = version + 1
<1> USE DEF memoryVars
<1> DEFINE Goal == \/ WriterExits
                   \/ writer' = "running"
                   \/ /\ writer' = writer /\ drained' = drained /\ (inflight' = inflight \/ inflight' = {})
                      /\ stage = "serving" \/ stage' # "serving"
                      /\ version' \in Nat /\ version <= version'
                      /\ \A w \in Queued' : w \in Queued \/ w.entry.version = version + 1
<1>1. version \in Nat
  BY DEF SessionInv, TypeInv
<1>2. ASSUME UNCHANGED <<version, writes, writer, drained>>, inflight' = inflight \/ inflight' = {},
             stage' = stage \/ stage' # "serving"
      PROVE  Goal
  <2>1. Queued' = Queued
    BY <1>2 DEF Queued
  <2> QED
    BY <1>1, <1>2, <2>1
<1>3. ASSUME NEW r \in Request, NEW usable \in BOOLEAN, Save(r, usable), UNCHANGED stageVars
      PROVE  Goal
  <2> DEFINE e == Entry(version + 1, usable)
             w == [session |-> call[r].session, entry |-> e, prior |-> NoEntry, expected |-> 0,
                   by |-> "none"]
  <2>1. /\ call[r].session \in Session /\ e \in EntryType /\ e.version = version + 1
        /\ NoEntry \in EntryType
    BY <1>1, <1>3 DEF Save, SessionInv, CallInv, Entry, EntryType, NoEntry
  <2>2. w \in WriteType /\ w.entry = e
    BY <2>1 DEF WriteType
  <2>3. /\ version' = version + 1 /\ UNCHANGED <<inflight, writer>>
        /\ writes' = writes \/ writes' = Append(writes, w)
    BY <1>3 DEF Save, Enqueue
  <2> HIDE DEF w, e
  <2>4. Queued' = Queued \/ Queued' = Queued \cup {w}
    <3>1. CASE writes' = writes
      BY <3>1 DEF Queued
    <3>2. CASE writes' = Append(writes, w)
      BY <2>2, <3>2, AppendQueue DEF SessionInv
    <3> QED
      BY <2>3, <3>1, <3>2
  <2> QED
    BY <1>1, <1>3, <2>1, <2>2, <2>3, <2>4 DEF stageVars
<1>4. ASSUME NEW r \in Request, Invalidate(r), UNCHANGED stageVars PROVE Goal
  <2> DEFINE e == Entry(version + 1, FALSE)
             w == [session |-> call[r].session, entry |-> e, prior |-> entries[call[r].session],
                   expected |-> call[r].loaded, by |-> r]
  <2>1. /\ call[r].session \in Session /\ e \in EntryType /\ e.version = version + 1
        /\ call[r].loaded \in Nat
    BY <1>1, <1>4 DEF Invalidate, SessionInv, TypeInv, CallInv, CallType, Entry, EntryType
  <2>2. w \in WriteType /\ w.entry = e
    BY <2>1 DEF WriteType, SessionInv, TypeInv
  <2>3. /\ UNCHANGED <<inflight, writer>>
        /\ UNCHANGED <<version, writes>> \/ (version' = version + 1 /\ writes' = Append(writes, w))
    BY <1>4 DEF Invalidate
  <2> HIDE DEF w, e
  <2>4. CASE UNCHANGED <<version, writes>>
    BY <1>2, <1>4, <2>3, <2>4 DEF stageVars
  <2>5. CASE version' = version + 1 /\ writes' = Append(writes, w)
    <3>1. Queued' = Queued \cup {w}
      BY <2>2, <2>5, AppendQueue DEF SessionInv
    <3> QED
      BY <1>1, <1>4, <2>1, <2>2, <2>3, <2>5, <3>1 DEF stageVars
  <2> QED
    BY <2>3, <2>4, <2>5
<1>5. CASE \E r \in Request : (\E k \in Session : Begin(r, k)) \/ HandlerStep(r) \/ Disconnect(r)
  <2>1. PICK r \in Request : (\E k \in Session : Begin(r, k)) \/ HandlerStep(r) \/ Disconnect(r)
    BY <1>5
  <2>2. CASE \E k \in Session : Begin(r, k)
    BY <1>2, <2>2 DEF Begin, Load, stageVars
  <2>3. CASE SaveState(r)
    BY <1>3, <2>3 DEF SaveState
  <2>4. CASE InvalidateState(r)
    BY <1>4, <2>4 DEF InvalidateState
  <2>5. CASE Accepted(r) \/ ContinuityInvalid(r) \/ StopWaiting(r) \/ Report(r) \/ Disconnect(r)
    BY <1>2, <2>5 DEF Accepted, ContinuityInvalid, StopWaiting, Report, Disconnect, Enter, Leave,
       stageVars
  <2> QED
    BY <2>1, <2>2, <2>3, <2>4, <2>5 DEF HandlerStep
<1>6. CASE Persist
  BY <1>6 DEF Persist, WriteRow
<1>7. CASE Answer
  BY <1>2, <1>7 DEF Answer, Acknowledge, stageVars
<1>8. CASE Consume \/ BeginStop \/ StopStep \/ GiveUp \/ EndBudget
  BY <1>2, <1>8 DEF Consume, BeginStop, StopStep, Shutdown, Exit, GiveUp, Cleanup, EndBudget,
     sessionVars, stageVars
<1>9. CASE World
  BY <1>2, <1>9 DEF World, AuthorityChanges, Expire, stageVars
<1>10. CASE Restart
  BY <1>10 DEF Restart, New
<1>11. CASE UNCHANGED vars
  BY <1>2, <1>11 DEF vars, sessionVars, stageVars
<1>12. CASE WriterExits
  BY <1>12
<1> QED
  BY <1>5, <1>6, <1>7, <1>8, <1>9, <1>10, <1>11, <1>12 DEF Next

LEMMA WriterKeeps ==
  ASSUME SessionInv, WriterInv, [Next]_vars
  PROVE  WriterInv'
<1>1. CASE WriterExits
  <2>1. /\ inflight' = {} /\ writes' = <<>> /\ drained' = version /\ version' = version
        /\ stage # "serving" /\ stage' = stage
    BY <1>1 DEF WriterExits, WriterDone
  <2>2. Queued' = {}
    BY <2>1 DEF Queued
  <2> QED
    BY <2>1, <2>2 DEF WriterInv, SessionInv, TypeInv
<1>2. CASE writer' = "running"
  BY <1>2 DEF WriterInv
<1>3. CASE /\ writer' = writer /\ drained' = drained /\ (inflight' = inflight \/ inflight' = {})
           /\ stage = "serving" \/ stage' # "serving"
           /\ version' \in Nat /\ version <= version'
           /\ \A w \in Queued' : w \in Queued \/ w.entry.version = version + 1
  BY <1>3 DEF WriterInv, SessionInv, TypeInv
<1> QED
  BY <1>1, <1>2, <1>3, WriterCases

\* Which steps change the stage, and what they find.
LEMMA StageCases ==
  ASSUME [Next]_vars
  PROVE  \/ stage' = stage /\ gaveUp' = gaveUp /\ closed' = closed
         \/ BeginStop
         \/ /\ stage = "stopping" /\ stage' = "draining" /\ closed' = TRUE
            /\ UNCHANGED <<attempt, events, hand, consumer, tally, sessionVars>>
            /\ gaveUp' = TRUE \/ (HandlersOver /\ gaveUp' = gaveUp)
         \/ Exit \/ Restart
<1>1. CASE \E r \in Request : (\E k \in Session : Begin(r, k)) \/ HandlerStep(r) \/ Disconnect(r)
  BY <1>1 DEF Begin, Open, HandlerStep, Accepted, SaveState, ContinuityInvalid, InvalidateState,
     StopWaiting, Report, Finish, Disconnect, stageVars, usageVars
<1>2. CASE Persist \/ Answer \/ WriterExits \/ Consume \/ EndBudget \/ World
  BY <1>2 DEF Persist, Answer, WriterExits, Consume, Receive, SaveUsageEvent, ConsumerExits,
     EndBudget, CancelPersistence, World, stageVars, usageVars
<1>3. CASE StopStep \/ GiveUp
  BY <1>3 DEF StopStep, Shutdown, GiveUp, Cleanup, CloseEvents
<1>4. CASE BeginStop \/ Restart
  BY <1>4
<1>5. CASE UNCHANGED vars
  BY <1>5 DEF vars, stageVars, usageVars
<1> QED
  BY <1>1, <1>2, <1>3, <1>4, <1>5 DEF Next

\* What a step does to the consumer.
LEMMA ConsumerCases ==
  ASSUME [Next]_vars
  PROVE  \/ ConsumerExits \/ NewAccounting
         \/ consumer = "running" /\ consumer' = "running"
         \/ /\ consumer' = consumer
            /\ hand' = hand \/ hand' = {}
            /\ events' = events \/ ~closed
<1>1. CASE \E r \in Request : (\E k \in Session : Begin(r, k)) \/ HandlerStep(r) \/ Disconnect(r)
  BY <1>1 DEF Begin, Open, HandlerStep, Accepted, SaveState, ContinuityInvalid, InvalidateState,
     StopWaiting, Report, Finish, Disconnect, usageVars
<1>2. CASE Persist \/ Answer \/ WriterExits \/ BeginStop \/ World
  BY <1>2 DEF Persist, Answer, WriterExits, BeginStop, World, usageVars
<1>3. CASE Consume
  BY <1>3 DEF Consume, Receive, SaveUsageEvent
<1>4. CASE StopStep \/ GiveUp \/ EndBudget
  BY <1>4 DEF StopStep, Shutdown, Exit, GiveUp, Cleanup, CloseEvents, EndBudget, CancelPersistence,
     usageVars
<1>5. CASE Restart \/ UNCHANGED vars
  BY <1>5 DEF Restart, vars, usageVars
<1> QED
  BY <1>1, <1>2, <1>3, <1>4, <1>5 DEF Next

LEMMA CloseKeeps ==
  ASSUME UsageInv, WriterInv', CloseInv, [Next]_vars
  PROVE  CloseInv'
<1>1. closed' <=> stage' \in Ending
  <2>1. CASE stage' = stage /\ closed' = closed
    BY <2>1 DEF CloseInv
  <2>2. CASE BeginStop
    BY <2>2 DEF BeginStop, CloseInv, Ending, usageVars
  <2>3. CASE stage' = "draining" /\ closed' = TRUE
    BY <2>3 DEF Ending
  <2>4. CASE Exit
    BY <2>4 DEF Exit, CloseInv, Ending, usageVars
  <2>5. CASE Restart
    BY <2>5 DEF Restart, NewAccounting, Ending
  <2> QED
    BY <2>1, <2>2, <2>3, <2>4, <2>5, StageCases
<1>2. ASSUME consumer' = "exited" PROVE closed' /\ events' = <<>> /\ hand' = {}
  <2>1. CASE ConsumerExits
    BY <2>1 DEF ConsumerExits
  <2>2. CASE NewAccounting
    BY <1>2, <2>2 DEF NewAccounting
  <2>3. CASE /\ consumer' = consumer
             /\ hand' = hand \/ hand' = {}
             /\ events' = events \/ ~closed
    <3>1. ~NewAccounting
      BY <1>2 DEF NewAccounting
    <3>2. closed /\ events' = <<>> /\ hand' = {}
      BY <1>2, <2>3 DEF CloseInv
    <3>3. closed'
      BY <3>1, <3>2, StageCases DEF BeginStop, Exit, Restart, usageVars
    <3> QED
      BY <3>2, <3>3
  <2> QED
    BY <1>2, <2>1, <2>2, <2>3, ConsumerCases
<1>3. ASSUME stage' = "exited" PROVE consumer' = "exited" /\ writer' = "exited"
  <2>1. CASE Exit
    BY <2>1 DEF Exit, sessionVars, memoryVars, usageVars
  <2>2. CASE stage' = stage
    <3>1. consumer = "exited" /\ writer = "exited" /\ stage = "exited"
      BY <1>3, <2>2 DEF CloseInv
    <3>2. ~Restart
      BY <1>3 DEF Restart
    <3>3. consumer' = "exited" /\ writer' = "exited"
      <4>1. CASE \E r \in Request : (\E k \in Session : Begin(r, k)) \/ HandlerStep(r) \/ Disconnect(r)
        BY <3>1, <4>1 DEF Begin, Open, Load, HandlerStep, Accepted, SaveState, ContinuityInvalid,
           InvalidateState, StopWaiting, Report, Finish, Disconnect, usageVars, Enter, Save,
           Invalidate, Leave, memoryVars
      <4>2. CASE Persist \/ Answer \/ WriterExits \/ BeginStop \/ World
        BY <3>1, <4>2 DEF Persist, WriteRow, Answer, Acknowledge, WriterExits, BeginStop, World,
           AuthorityChanges, Expire, usageVars, memoryVars
      <4>3. CASE Consume \/ StopStep \/ GiveUp \/ EndBudget
        BY <3>1, <4>3 DEF Consume, Receive, SaveUsageEvent, ConsumerExits, StopStep, Shutdown, Exit,
           GiveUp, EndBudget, CancelPersistence, sessionVars, memoryVars
      <4>4. CASE UNCHANGED vars
        BY <3>1, <4>4 DEF vars, sessionVars, memoryVars, usageVars
      <4> QED
        BY <3>2, <4>1, <4>2, <4>3, <4>4 DEF Next
    <3> QED
      BY <3>3
  <2>3. CASE BeginStop \/ stage' = "draining" \/ Restart
    BY <1>3, <2>3 DEF BeginStop, Restart
  <2> QED
    BY <2>1, <2>2, <2>3, StageCases
<1> QED
  BY <1>1, <1>2, <1>3 DEF CloseInv

LEMMA CallsStay ==
  ASSUME SessionInv, [Next]_vars
  PROVE  \A r \in Request : call'[r].at = "none" => call[r].at = "none"
<1> USE DEF memoryVars
<1>1. call \in [Request -> CallType]
  BY DEF SessionInv, TypeInv
<1>2. [NoCall EXCEPT !.at = "returned"].at = "returned"
  BY DEF NoCall
<1>3. ASSUME NEW r \in Request, NEW k \in Session, Load(r, k)
      PROVE  \A q \in Request : call'[q].at = "none" => call[q].at = "none"
  BY <1>1, <1>3 DEF Load
<1>4. ASSUME NEW r \in Request, Return(r)
      PROVE  \A q \in Request : call'[q].at = "none" => call[q].at = "none"
  BY <1>1, <1>2, <1>4 DEF Return
<1>5. ASSUME NEW r \in Request, Invalidate(r)
      PROVE  \A q \in Request : call'[q].at = "none" => call[q].at = "none"
  <2>1. CASE Return(r)
    BY <1>4, <2>1
  <2>2. CASE call' = [call EXCEPT ![r].at = "waiting"]
    <3>1. call'[r].at = "waiting" /\ \A q \in Request \ {r} : call'[q] = call[q]
      BY <1>1, <2>2 DEF CallType
    <3> QED
      BY <3>1
  <2> QED
    BY <1>5, <2>1, <2>2 DEF Invalidate
<1>6. ASSUME CallStep PROVE \A q \in Request : call'[q].at = "none" => call[q].at = "none"
  BY <1>1, <1>2, <1>6 DEF CallStep, Advances, CallType
<1>7. ASSUME Acknowledge PROVE \A q \in Request : call'[q].at = "none" => call[q].at = "none"
  BY <1>7, AcknowledgeFacts
<1>8. ASSUME New PROVE \A q \in Request : call'[q].at = "none" => call[q].at = "none"
  BY <1>8, NewFacts
<1>9. ASSUME WriteRow \/ \E v \in 1..version : Expire(v)
      PROVE  \A q \in Request : call'[q].at = "none" => call[q].at = "none"
  BY <1>9 DEF WriteRow, Expire
<1> QED
  BY <1>3, <1>4, <1>5, <1>6, <1>7, <1>8, <1>9, SessionCases DEF SessionInv, Save

\* A process that does not serve starts no handler.
LEMMA CallsEnd ==
  ASSUME SessionInv, [Next]_vars, stage # "serving", NEW r \in Request,
         call[r].at \in {"none", "returned"}
  PROVE  call'[r].at \in {"none", "returned"}
<1> USE DEF memoryVars
<1>1. call \in [Request -> CallType]
  BY DEF SessionInv, TypeInv
<1>2. [NoCall EXCEPT !.at = "returned"].at = "returned"
  BY DEF NoCall
<1>3. ASSUME NEW q \in Request, Return(q) PROVE call'[r].at \in {"none", "returned"}
  BY <1>1, <1>2, <1>3 DEF Return
<1>4. CASE \E q \in Request, usable \in BOOLEAN : Save(q, usable)
  BY <1>3, <1>4 DEF Save
<1>5. CASE \E q \in Request : Invalidate(q)
  <2>1. PICK q \in Request : Invalidate(q)
    BY <1>5
  <2>2. CASE Return(q)
    BY <1>3, <2>2
  <2>3. CASE call' = [call EXCEPT ![q].at = "waiting"]
    BY <1>1, <2>1, <2>3 DEF Invalidate
  <2> QED
    BY <2>1, <2>2, <2>3 DEF Invalidate
<1>6. CASE CallStep
  BY <1>2, <1>6 DEF CallStep, Advances
<1>7. CASE Acknowledge
  BY <1>7, AcknowledgeFacts
<1>8. CASE New
  BY <1>8, NewFacts
<1>9. CASE WriteRow \/ \E v \in 1..version : Expire(v)
  BY <1>9 DEF WriteRow, Expire
<1> QED
  BY <1>4, <1>5, <1>6, <1>7, <1>8, <1>9, SessionCases DEF SessionInv

\* A refused event is one that an open attempt reports to a closed kernel.
LEMMA AttemptCases ==
  ASSUME SessionInv, UsageInv, [Next]_vars
  PROVE  \/ \E r \in Request, k \in Session : Begin(r, k)
         \/ Restart
         \/ /\ \A r \in Request : attempt'[r] = attempt[r]
                                  \/ (attempt[r] = "open" /\ attempt'[r] = "final")
            /\ \A a \in Attempt : tally'[a] = <<"refused">> =>
                 tally[a] = <<"refused">> \/ (closed /\ attempt[a] = "open")
<1> USE StopAssumption
<1> DEFINE Goal == /\ \A r \in Request : attempt'[r] = attempt[r]
                                         \/ (attempt[r] = "open" /\ attempt'[r] = "final")
                   /\ \A a \in Attempt : tally'[a] = <<"refused">> =>
                        tally[a] = <<"refused">> \/ (closed /\ attempt[a] = "open")
<1>1. ASSUME UNCHANGED <<attempt, tally>> PROVE Goal
  BY <1>1
<1>2. ASSUME NEW r \in Request, Finish(r) PROVE Goal
  <2>1. /\ attempt[r] = "open" /\ attempt'[r] = "final"
        /\ \A q \in Request \ {r} : attempt'[q] = attempt[q]
    BY <1>2 DEF Finish, Reports, UsageInv
  <2>2. CASE UNCHANGED tally
    BY <2>1, <2>2
  <2>3. CASE Count(r, IF closed THEN "refused" ELSE "settled")
    <3>1. tally[r] = <<>>
      BY <2>1 DEF UsageInv, Place
    <3>2. PICK fate \in Fates : fate = (IF closed THEN "refused" ELSE "settled") /\ Count(r, fate)
      BY <2>3 DEF Fates
    <3>3. tally'[r] = <<fate>> /\ \A q \in Request \ {r} : tally'[q] = tally[q]
      BY <3>1, <3>2, CountFacts
    <3>4. tally'[r] = <<"refused">> => closed
      BY <3>2, <3>3
    <3> QED
      BY <2>1, <3>3, <3>4
  <2> QED
    BY <1>2, <2>2, <2>3 DEF Finish
<1>3. ASSUME NEW a \in Attempt, tally[a] = <<>>, Count(a, "settled"), UNCHANGED attempt PROVE Goal
  <2>1. tally'[a] = <<"settled">> /\ \A q \in Request \ {a} : tally'[q] = tally[q]
    BY <1>3, CountFacts DEF Fates
  <2> QED
    BY <1>3, <2>1
<1>4. CASE \E r \in Request : (\E k \in Session : Begin(r, k)) \/ HandlerStep(r) \/ Disconnect(r)
  BY <1>1, <1>2, <1>4 DEF HandlerStep, Accepted, SaveState, ContinuityInvalid, InvalidateState,
     StopWaiting, Report, Disconnect, usageVars
<1>5. CASE Persist \/ Answer \/ WriterExits \/ BeginStop \/ World
  BY <1>1, <1>5 DEF Persist, Answer, WriterExits, BeginStop, World, usageVars
<1>6. CASE Receive
  <2>1. PICK a : a = Head(events)
    OBVIOUS
  <2>2. a \in Attempt /\ Waiting(a)
    BY <1>6, <2>1 DEF Receive, UsageInv, Waiting
  <2>3. tally[a] = <<>>
    BY <2>2 DEF UsageInv, Place
  <2> QED
    BY <1>1, <1>3, <1>6, <2>1, <2>2, <2>3 DEF Receive
<1>7. CASE SaveUsageEvent
  BY <1>3, <1>7 DEF SaveUsageEvent, UsageInv, Place
<1>8. CASE ConsumerExits \/ StopStep \/ GiveUp \/ EndBudget \/ UNCHANGED vars
  BY <1>1, <1>8 DEF ConsumerExits, StopStep, Shutdown, Exit, GiveUp, Cleanup, CloseEvents,
     EndBudget, CancelPersistence, vars, usageVars
<1> QED
  BY <1>4, <1>5, <1>6, <1>7, <1>8 DEF Next, Consume

LEMMA AttemptKeeps ==
  ASSUME SessionInv, UsageInv, CloseInv, AttemptInv, [Next]_vars
  PROVE  AttemptInv'
<1> USE StopAssumption
<1>1. \A r \in Request : call'[r].at = "none" => call[r].at = "none"
  BY CallsStay
<1>2. CASE \E r \in Request, k \in Session : Begin(r, k)
  <2>1. PICK r \in Request, k \in Session : Begin(r, k)
    BY <1>2
  <2>2. /\ stage = "serving" /\ UNCHANGED <<stage, gaveUp, tally>>
        /\ call'[r].at = "loaded" /\ \A q \in Request \ {r} : attempt'[q] = attempt[q]
    BY <2>1 DEF Begin, Load, Open, stageVars, UsageInv, SessionInv, TypeInv
  <2> QED
    BY <1>1, <2>2 DEF AttemptInv, Ending
<1>3. CASE Restart
  <2>1. /\ stage' = "serving" /\ tally' = [a \in Attempt |-> <<>>]
        /\ attempt' = [a \in Attempt |-> IF attempt[a] = "none" THEN "none" ELSE "over"]
    BY <1>3 DEF Restart, NewAccounting
  <2> QED
    BY <1>1, <2>1 DEF AttemptInv, Ending
<1>4. CASE /\ \A r \in Request : attempt'[r] = attempt[r]
                                 \/ (attempt[r] = "open" /\ attempt'[r] = "final")
           /\ \A a \in Attempt : tally'[a] = <<"refused">> =>
                tally[a] = <<"refused">> \/ (closed /\ attempt[a] = "open")
  <2>1. \A r \in Request : call'[r].at = "none" => attempt'[r] = "none"
    BY <1>1, <1>4 DEF AttemptInv
  <2>2. \A a \in Attempt : tally'[a] = <<"refused">> => gaveUp
    BY <1>4 DEF AttemptInv, CloseInv, HandlersOver, HandlerOver
  <2>3. stage \in Ending /\ HandlersOver => HandlersOver'
    BY <1>4, CallsEnd DEF HandlersOver, HandlerOver, AttemptInv, Ending
  <2>4. CASE Restart
    BY <1>3, <2>4
  <2>5. CASE BeginStop
    BY <2>1, <2>2, <2>5 DEF BeginStop, AttemptInv, Ending
  <2>6. CASE stage' = stage /\ gaveUp' = gaveUp
    BY <2>3, <2>1, <2>2, <2>6 DEF AttemptInv
  <2>7. CASE Exit
    BY <2>3, <2>1, <2>2, <2>7 DEF Exit, AttemptInv, Ending
  <2>8. CASE /\ stage = "stopping" /\ stage' = "draining"
             /\ UNCHANGED <<attempt, tally, sessionVars>>
             /\ gaveUp' = TRUE \/ (HandlersOver /\ gaveUp' = gaveUp)
    BY <2>1, <2>2, <2>8 DEF AttemptInv, HandlersOver, HandlerOver, sessionVars
  <2> QED
    BY <2>4, <2>5, <2>6, <2>7, <2>8, StageCases
<1> QED
  BY <1>2, <1>3, <1>4, AttemptCases

LEMMA StageStart == ASSUME Init PROVE StageInv
<1>1. /\ stage = "serving" /\ writer = "running" /\ consumer = "running" /\ closed = FALSE
      /\ attempt = [a \in Attempt |-> "none"] /\ tally = [a \in Attempt |-> <<>>]
  BY DEF Init, SessionInit, UsageInit
<1> QED
  BY <1>1, StopAssumption DEF StageInv, WriterInv, CloseInv, AttemptInv, Ending

\* A process that ended left no usage event and no write of its queue behind, and
\* cut a handler off or turned its event away only when Shutdown had given up on
\* the handlers (Stop, drainUsage and the two Run loops).
THEOREM DrainedCorrect == Spec => []StoppedIsDrained
<1> DEFINE IInv == SessionInv /\ UsageInv /\ StageInv
<1>1. Init => IInv
  BY InitSession, UsageStart, StageStart
<1>2. IInv /\ [Next]_vars => IInv'
  BY SessionStep, UsageStep, WriterKeeps, CloseKeeps, AttemptKeeps DEF StageInv
<1>3. IInv => StoppedIsDrained
  <2> SUFFICES ASSUME IInv, stage = "exited"
               PROVE  /\ events = <<>> /\ hand = {} /\ inflight = {}
                      /\ \A i \in DOMAIN writes : writes[i].entry.version > drained
                      /\ ~gaveUp => HandlersOver /\ \A a \in Attempt : tally[a] # <<"refused">>
    BY DEF StoppedIsDrained
  <2> QED
    BY DEF StageInv, WriterInv, CloseInv, AttemptInv, Queued, Ending
<1> QED
  BY <1>1, <1>2, <1>3, PTL DEF Spec

(***************************************************************************)
(* The callers of Invalidate.                                              *)
(***************************************************************************)
\* Whoever waits has one write outstanding, and either the writer still runs or
\* the caller's context is over, so that nobody waits for a writer that left.
WaitingIsAnswerable ==
  \A r \in Request : call[r].at = "waiting" =>
    /\ \E w \in Outstanding : w.by = r /\ \A x \in Outstanding : x.by = r => x = w
    /\ writer = "exited" => r \in ctxDone

\* An invalidation is queued once, and its write stays until it is answered.
AskedInv ==
  /\ \A w, x \in Outstanding : w.by = x.by /\ w.by # "none" => w = x
  /\ \A r \in Request : call[r].at = "waiting" => \E w \in Outstanding : w.by = r

\* Stop cancels the contexts of all requests.
CancelInv == stage # "serving" => Request \subseteq ctxDone

\* A step that leaves the outstanding writes alone, but for saves, and lets
\* nobody begin to wait.
LEMMA AskedStays ==
  ASSUME AskedInv, Outstanding \subseteq Outstanding',
         \A w \in Outstanding' \ Outstanding : w.by = "none",
         \A r \in Request : call'[r].at = "waiting" => call[r].at = "waiting"
  PROVE  AskedInv'
BY DEF AskedInv

\* An invalidation is the only step that queues a tombstone, and its caller has
\* none outstanding.
LEMMA InvalidateAsks ==
  ASSUME SessionInv, AskedInv, NEW r \in Request, Invalidate(r)
  PROVE  AskedInv'
<1> DEFINE e == Entry(version + 1, FALSE)
           w == [session |-> call[r].session, entry |-> e, prior |-> entries[call[r].session],
                 expected |-> call[r].loaded, by |-> r]
<1>1. call \in [Request -> CallType] /\ version \in Nat /\ call[r].at = "invalidating"
  BY DEF SessionInv, TypeInv, Invalidate
<1>2. CASE UNCHANGED writes /\ Return(r)
  <2>1. Outstanding' = Outstanding
    BY <1>2, SameWrites DEF Invalidate
  <2>2. \A q \in Request : call'[q].at = "waiting" => call[q].at = "waiting"
    BY <1>1, <1>2 DEF Return, NoCall
  <2> QED
    BY <2>1, <2>2, AskedStays
<1>3. CASE writes' = Append(writes, w) /\ call' = [call EXCEPT ![r].at = "waiting"]
  <2>1. call[r].session \in Session /\ e \in EntryType /\ call[r].loaded \in Nat
    BY <1>1 DEF SessionInv, CallInv, CallType, Entry, EntryType
  <2>2. w \in WriteType /\ w.by = r
    BY <2>1 DEF WriteType, SessionInv, TypeInv
  <2> HIDE DEF w, e
  <2>3. Outstanding' = Outstanding \cup {w}
    <3>1. Queued' = Queued \cup {w}
      BY <1>3, <2>2, AppendQueue DEF SessionInv
    <3>2. Taken' = Taken
      BY DEF Invalidate, Taken
    <3> QED
      BY <3>1, <3>2 DEF Outstanding
  <2>4. \A x \in Outstanding : x.by # r
    <3>1. r # "none"
      BY SessionCacheAssumption
    <3> QED
      BY <1>1, <3>1 DEF SessionInv, CallInv
  <2>5. \A q \in Request \ {r} : call'[q] = call[q]
    BY <1>1, <1>3
  <2> QED
    BY <2>2, <2>3, <2>4, <2>5 DEF AskedInv
<1> QED
  BY <1>2, <1>3 DEF Invalidate

\* An answer reaches the caller that waits for it.
LEMMA AcknowledgeAnswers ==
  ASSUME SessionInv, AskedInv, Acknowledge
  PROVE  AskedInv'
<1>1. PICK done \in inflight :
        /\ call' = IF Answers(done)
                   THEN [call EXCEPT ![done.write.by] =
                           IF Gone(done.ok) THEN [@ EXCEPT !.at = "returned", !.gone = TRUE]
                           ELSE [NoCall EXCEPT !.at = "returned"]]
                   ELSE call
        /\ inflight' = {} /\ UNCHANGED writes
  BY DEF Acknowledge, memoryVars
<1>2. /\ call \in [Request -> CallType] /\ done.write \in WriteType
      /\ \A x \in inflight : x = done
  BY <1>1 DEF SessionInv, TypeInv
<1>3. Outstanding' \subseteq Outstanding /\ Outstanding \subseteq Outstanding' \cup {done.write}
  <2>1. Queued' = Queued /\ Taken = {done.write} /\ Taken' = {}
    BY <1>1, <1>2 DEF Queued, Taken
  <2> QED
    BY <2>1 DEF Outstanding
<1>4. ASSUME NEW r \in Request, call'[r].at = "waiting"
      PROVE  call[r].at = "waiting" /\ done.write.by # r
  <2>1. CASE Answers(done)
    <3>1. done.write.by \in Request
      BY <1>2, <2>1 DEF Answers, WriteType
    <3>2. call'[done.write.by].at = "returned"
      BY <1>1, <1>2, <2>1, <3>1 DEF CallType, NoCall
    <3>3. \A q \in Request \ {done.write.by} : call'[q] = call[q]
      BY <1>1, <1>2, <2>1, <3>1
    <3> QED
      BY <1>4, <3>2, <3>3
  <2>2. CASE ~Answers(done)
    BY <1>1, <1>4, <2>2, SessionCacheAssumption DEF Answers
  <2> QED
    BY <2>1, <2>2
<1> QED
  BY <1>3, <1>4 DEF AskedInv

\* Every step keeps the callers that wait and their writes together.
LEMMA AskedStep ==
  ASSUME SessionInv, AskedInv, [Next]_vars
  PROVE  AskedInv'
<1> USE DEF memoryVars
<1>1. call \in [Request -> CallType] /\ version \in Nat
  BY DEF SessionInv, TypeInv
<1>2. ASSUME UNCHANGED <<writes, inflight>>,
             \A r \in Request : call'[r].at = "waiting" => call[r].at = "waiting"
      PROVE  AskedInv'
  BY <1>2, SameWrites, AskedStays
<1>3. CASE \E r \in Request, k \in Session : Load(r, k)
  BY <1>1, <1>2, <1>3 DEF Load
<1>4. ASSUME NEW r \in Request, NEW usable \in BOOLEAN, Save(r, usable) PROVE AskedInv'
  <2> DEFINE e == Entry(version + 1, usable)
             w == [session |-> call[r].session, entry |-> e, prior |-> NoEntry, expected |-> 0,
                   by |-> "none"]
  <2>1. call[r].session \in Session /\ e \in EntryType /\ NoEntry \in EntryType
    BY <1>1, <1>4 DEF Save, SessionInv, CallInv, Entry, EntryType, NoEntry
  <2>2. w \in WriteType /\ w.by = "none"
    BY <2>1 DEF WriteType
  <2>3. writes' = writes \/ writes' = Append(writes, w)
    BY <1>4 DEF Save, Enqueue
  <2> HIDE DEF w, e
  <2>4. Queued' = Queued \/ Queued' = Queued \cup {w}
    BY <2>2, <2>3, AppendQueue DEF SessionInv, Queued
  <2>5. Taken' = Taken
    BY <1>4 DEF Save, Taken
  <2>6. \A q \in Request : call'[q].at = "waiting" => call[q].at = "waiting"
    BY <1>1, <1>4 DEF Save, Return, NoCall
  <2> QED
    BY <2>2, <2>4, <2>5, <2>6, AskedStays DEF Outstanding
<1>5. ASSUME WriteRow PROVE AskedInv'
  <2>1. PICK ok \in BOOLEAN : Takes(Head(writes), ok)
    BY <1>5, WriteRowTakes
  <2>2. Outstanding' = Outstanding
    BY <2>1, TakesKeeps DEF Outstanding
  <2>3. call' = call
    BY <2>1 DEF Takes
  <2> QED
    BY <2>2, <2>3, AskedStays
<1>6. CASE \E v \in 1..version : Expire(v)
  BY <1>2, <1>6 DEF Expire
<1>7. CASE New
  <2>1. Outstanding' = {}
    BY <1>7 DEF New, Outstanding, Queued, Taken
  <2>2. \A q \in Request : call'[q].at # "waiting"
    BY <1>7 DEF New, NoCall
  <2> QED
    BY <2>1, <2>2 DEF AskedInv
<1>8. CASE CallStep
  BY <1>1, <1>2, <1>8 DEF CallStep, Advances, StoreVars, CallType, NoCall
<1> QED
  BY <1>3, <1>4, <1>5, <1>6, <1>7, <1>8, InvalidateAsks, AcknowledgeAnswers, SessionCases
     DEF SessionInv

\* Contexts stay cancelled until the process is over.
LEMMA CancelStep ==
  ASSUME CancelInv, [Next]_vars
  PROVE  CancelInv'
<1>1. \/ ctxDone \subseteq ctxDone' /\ (stage' # "serving" => stage # "serving")
      \/ BeginStop \/ Restart
  <2>1. CASE \E r \in Request : (\E k \in Session : Begin(r, k)) \/ HandlerStep(r) \/ Disconnect(r)
    BY <2>1 DEF Begin, Load, HandlerStep, Accepted, SaveState, ContinuityInvalid, InvalidateState,
       StopWaiting, Report, Disconnect, Enter, Save, Invalidate, Leave, stageVars
  <2>2. CASE Persist \/ Answer \/ WriterExits \/ World
    BY <2>2 DEF Persist, WriteRow, Answer, Acknowledge, WriterExits, World, AuthorityChanges, Expire,
       stageVars
  <2>3. CASE Consume \/ StopStep \/ GiveUp \/ EndBudget
    BY <2>3 DEF Consume, StopStep, Shutdown, Exit, GiveUp, Cleanup, EndBudget, stageVars, sessionVars
  <2>4. CASE UNCHANGED vars
    BY <2>4 DEF vars, sessionVars, stageVars
  <2> QED
    BY <2>1, <2>2, <2>3, <2>4 DEF Next
<1>2. CASE BeginStop \/ Restart
  BY <1>2 DEF BeginStop, Restart, CancelInv
<1> QED
  BY <1>1, <1>2 DEF CancelInv

\* A caller of Invalidate never waits for a write that nobody holds, nor, with a
\* live context, for a writer that has returned (Cache.Invalidate, Cache.Run and
\* Stop): the safety half of InvalidationsAnswered.
THEOREM WaitingCorrect == Spec => []WaitingIsAnswerable
<1> DEFINE IInv == SessionInv /\ WriterInv /\ AskedInv /\ CancelInv
<1>1. Init => IInv
  <2>1. ASSUME Init PROVE AskedInv /\ CancelInv
    <3>1. Outstanding = {} /\ call = [r \in Request |-> NoCall] /\ stage = "serving"
      BY <2>1 DEF Init, SessionInit, Outstanding, Queued, Taken
    <3> QED
      BY <3>1 DEF AskedInv, CancelInv, NoCall
  <2> QED
    BY <2>1, InitSession, StageStart DEF StageInv
<1>2. IInv /\ [Next]_vars => IInv'
  BY SessionStep, WriterKeeps, AskedStep, CancelStep
<1>3. IInv => WaitingIsAnswerable
  <2> SUFFICES ASSUME IInv, NEW r \in Request, call[r].at = "waiting"
               PROVE  /\ \E w \in Outstanding : w.by = r /\ \A x \in Outstanding : x.by = r => x = w
                      /\ writer = "exited" => r \in ctxDone
    BY DEF WaitingIsAnswerable
  <2>1. \E w \in Outstanding : w.by = r /\ \A x \in Outstanding : x.by = r => x = w
    BY SessionCacheAssumption DEF AskedInv
  <2>2. writer = "exited" => r \in ctxDone
    BY DEF WriterInv, CancelInv
  <2> QED
    BY <2>1, <2>2
<1> QED
  BY <1>1, <1>2, <1>3, PTL DEF Spec
====
