---- MODULE SessionCache ----
(***************************************************************************)
(* The durable session store (runtime/sessionstore): a bounded cache in    *)
(* front of the rows of provider_sessions, and the one writer that owns    *)
(* them. Saves are visible at once and written later; an invalidation      *)
(* leaves a marker and is acknowledged when its tombstone is on disk.      *)
(*                                                                         *)
(* A state is its store version; version 0 is no state. An entry or a row  *)
(* that is not usable is a clear marker: an empty state, or one that was   *)
(* expired when it was saved. Every entry names the session of one         *)
(* connection under one principal and endpoint; authority says whether the *)
(* store still knows that principal and endpoint.                          *)
(***************************************************************************)
EXTENDS Integers, Sequences, FiniteSets

CONSTANTS
  Session, Request,
  Uses,        \* [Request -> the sessions it may belong to]
  FirstRows,   \* the rows an earlier process may have left
  MaxEntries,  \* entries the cache holds
  QueueSize,   \* writes the queue holds
  MaxTroubles  \* bound on disk errors, changes of authority, states that
               \* expire and clients that go away

EntryType == [version : Nat, usable : BOOLEAN]

\* Versions stand for the order of the rows an earlier process left, in which
\* no two rows are equal (comparePreload).
ASSUME SessionCacheAssumption ==
  /\ IsFiniteSet(Session) /\ "none" \notin Session \cup Request
  /\ FirstRows \subseteq [Session -> EntryType]
  /\ \A first \in FirstRows, k \in Session :
       /\ first[k].version <= Cardinality(Session)
       /\ first[k].usable => first[k].version # 0
       /\ \A s \in Session \ {k} : first[k].version = first[s].version => first[k].version = 0
  /\ Uses \in [Request -> SUBSET Session]
  /\ MaxEntries \in Nat \ {0} /\ QueueSize \in Nat \ {0}
  /\ MaxTroubles \in Nat

VARIABLES
  version, entries,
  writes,     \* the queue
  inflight,   \* the write the writer has applied and not acknowledged, if any
  writer,     \* the goroutine of Run
  rows,       \* durable
  authority,  \* durable: the binding and endpoint the states belong to are live
  call,       \* [Request -> its use of the store]
  ctxDone,    \* requests whose context is cancelled
  expired,    \* versions past their expiry
  troubles,
  saved,      \* history: [Session -> versions of usable states saved for it]
  floor       \* history: [Session -> last version that reached the disk]

memoryVars == <<version, entries, writes, inflight, writer>>
sessionVars == <<memoryVars, rows, authority, call, ctxDone, expired, troubles, saved, floor>>

NoEntry == [version |-> 0, usable |-> FALSE]
NoCall == [at |-> "none", session |-> "none", loaded |-> 0, gone |-> FALSE]

Entry(v, usable) == [version |-> v, usable |-> usable]

Present(e) == e.version # 0

Fresh(e) == e.version \notin expired

Trouble == troubles < MaxTroubles /\ troubles' = troubles + 1

(***************************************************************************)
(* Requests.                                                               *)
(***************************************************************************)
\* An expired entry is deleted, a clear marker is hidden.
Load(r, k) ==
  LET e == entries[k]
  IN /\ call[r].at = "none" /\ r \notin ctxDone /\ k \in Uses[r]
     /\ call' = [call EXCEPT ![r] =
          [at |-> "loaded", session |-> k, gone |-> FALSE,
           loaded |-> IF Fresh(e) /\ e.usable THEN e.version ELSE 0]]
     /\ entries' = IF Fresh(e) THEN entries ELSE [entries EXCEPT ![k] = NoEntry]
     /\ UNCHANGED <<version, writes, inflight, writer, rows, authority, ctxDone, expired, troubles,
                    saved, floor>>

\* Save and Invalidate look at the context before they take the lock.
Enter(r, to) ==
  /\ call[r].at = "loaded"
  /\ call' = [call EXCEPT ![r] = IF r \in ctxDone THEN [NoCall EXCEPT !.at = "returned"]
                                            ELSE [@ EXCEPT !.at = to]]
  /\ UNCHANGED <<memoryVars, rows, authority, ctxDone, expired, troubles, saved, floor>>

Occupied == {k \in Session : Present(entries[k])}

Stale == {k \in Occupied : ~Fresh(entries[k])}

\* Mutant: only expired entries make room.
EvictedExpired(k) == Stale

\* evictLocked: the expired entries, and the oldest one if they are too few.
Evicted(k) ==
  IF k \in Occupied \/ Cardinality(Occupied) < MaxEntries THEN {}
  ELSE LET kept == Occupied \ Stale
       IN Stale \cup (IF Cardinality(kept) < MaxEntries THEN {}
                      ELSE {s \in kept : \A t \in kept :
                              entries[s].version <= entries[t].version})

Return(r) == call' = [call EXCEPT ![r] = [NoCall EXCEPT !.at = "returned"]]

Enqueue(w) == IF Len(writes) < QueueSize THEN Append(writes, w) ELSE writes

\* The entry is live even when the queue is full and the save reports it.
Save(r, usable) ==
  LET k == call[r].session
      e == Entry(version + 1, usable)
  IN /\ call[r].at = "saving"
     /\ version' = version + 1
     /\ entries' = [s \in Session |-> CASE s = k -> e
                                        [] s \in Evicted(k) -> NoEntry
                                        [] OTHER -> entries[s]]
     /\ writes' = Enqueue([session |-> k, entry |-> e, prior |-> NoEntry,
                           expected |-> 0, by |-> "none"])
     /\ saved' = IF usable THEN [saved EXCEPT ![k] = @ \cup {version'}] ELSE saved
     /\ Return(r)
     /\ UNCHANGED <<inflight, writer, rows, authority, ctxDone, expired, troubles, floor>>

\* Mutant: any present entry is invalidated.
MatchesAny(e, expected) == Present(e)

\* DeepEqual of the entry with the state the request loaded.
Matches(e, expected) == Present(e) /\ e.version = expected

\* The context is looked at once more under the lock, but it may be cancelled
\* right after that.
Invalidate(r) ==
  LET k == call[r].session
      e == Entry(version + 1, FALSE)
  IN /\ call[r].at = "invalidating"
     /\ \/ /\ Matches(entries[k], call[r].loaded) /\ Len(writes) < QueueSize
           /\ version' = version + 1
           /\ entries' = [entries EXCEPT ![k] = e]
           /\ writes' = Append(writes, [session |-> k, entry |-> e, prior |-> entries[k],
                                        expected |-> call[r].loaded, by |-> r])
           /\ call' = [call EXCEPT ![r].at = "waiting"]
        \/ /\ ~Matches(entries[k], call[r].loaded) \/ Len(writes) >= QueueSize \/ r \in ctxDone
           /\ Return(r) /\ UNCHANGED <<version, entries, writes>>
     /\ UNCHANGED <<inflight, writer, rows, authority, ctxDone, expired, troubles, saved, floor>>

\* The caller of Invalidate stops waiting.
Leave(r) ==
  /\ call[r].at = "waiting" /\ r \in ctxDone
  /\ Return(r)
  /\ UNCHANGED <<memoryVars, rows, authority, ctxDone, expired, troubles, saved, floor>>

(***************************************************************************)
(* The writer.                                                             *)
(***************************************************************************)
\* SaveProviderSession: a state that is expired or whose authority is gone is
\* superseded, and the database may fail.
WriteRow ==
  /\ writer = "running" /\ inflight = {} /\ writes # <<>>
  /\ LET w == Head(writes)
         allowed == Fresh(w.entry) /\ authority
     IN \E ok \in BOOLEAN :
          /\ ok => allowed
          /\ IF ~ok /\ allowed THEN Trouble ELSE UNCHANGED troubles
          /\ inflight' = {[write |-> w, ok |-> ok]}
          /\ IF ok
             THEN /\ rows' = [rows EXCEPT ![w.session] = w.entry]
                  /\ floor' = [floor EXCEPT ![w.session] = w.entry.version]
             ELSE UNCHANGED <<rows, floor>>
  /\ writes' = Tail(writes)
  /\ UNCHANGED <<version, entries, writer, authority, call, ctxDone, expired, saved>>

\* Mutant: a failed tombstone leaves the marker's caller with a success.
GoneAlways(ok) == TRUE

Gone(ok) == ok

\* Mutant: a failed write is not answered.
AnswersSuccess(done) ==
  done.ok /\ done.write.by # "none" /\ call[done.write.by].at = "waiting"

Answers(done) == done.write.by # "none" /\ call[done.write.by].at = "waiting"

\* completed, then the answer: the marker goes, or the state it hid comes
\* back, unless the entry has changed meanwhile.
Acknowledge ==
  \E done \in inflight :
    LET w == done.write
    IN /\ entries' = IF w.by # "none" /\ entries[w.session] = w.entry
                     THEN [entries EXCEPT ![w.session] = IF done.ok THEN NoEntry ELSE w.prior]
                     ELSE entries
       /\ call' = IF Answers(done)
                  THEN [call EXCEPT ![w.by] =
                          IF Gone(done.ok) THEN [@ EXCEPT !.at = "returned", !.gone = TRUE]
                          ELSE [NoCall EXCEPT !.at = "returned"]]
                  ELSE call
       /\ inflight' = {}
       /\ UNCHANGED <<version, writes, writer, rows, authority, ctxDone, expired, troubles, saved,
                      floor>>

(***************************************************************************)
(* The world, and the start of a process.                                  *)
(***************************************************************************)
\* Only a state that an entry or a row holds matters. A marker lives for the
\* longest time a state may live.
Expire(v) ==
  /\ \E k \in Session : v \in {entries[k].version, rows[k].version} \ {0}
  /\ v \notin expired /\ Trouble
  /\ (\E k \in Session : v \in saved[k]) \/ 1..(v - 1) \subseteq expired
  /\ expired' = expired \cup {v}
  /\ UNCHANGED <<memoryVars, rows, authority, call, ctxDone, saved, floor>>

\* The endpoint or the enabled flag of the connection changes, or changes back.
AuthorityChanges ==
  /\ Trouble
  /\ authority' = ~authority
  /\ UNCHANGED <<memoryVars, rows, call, ctxDone, expired, saved, floor>>

Loadable(e) == Present(e) /\ e.usable /\ Fresh(e)

\* preload keeps the newest rows; ProviderSessions has deleted the rows that
\* expired or lost their authority.
Preloaded(disk) ==
  LET able == {k \in Session : Loadable(disk[k])}
      newer(k) == {s \in able : disk[s].version > disk[k].version}
  IN [k \in Session |-> IF k \in able /\ Cardinality(newer(k)) < MaxEntries
                        THEN Entry(disk[k].version, TRUE) ELSE NoEntry]

New ==
  LET disk == [k \in Session |-> IF authority /\ Fresh(rows[k]) THEN rows[k] ELSE NoEntry]
  IN /\ rows' = disk
     /\ entries' = Preloaded(disk)
     /\ writes' = <<>> /\ inflight' = {} /\ writer' = "running"
     /\ call' = [r \in Request |-> IF call[r].at \in {"none", "returned"} THEN call[r]
                                   ELSE [NoCall EXCEPT !.at = "returned"]]
     /\ ctxDone' = {}
     /\ UNCHANGED <<version, authority, expired, troubles, saved, floor>>

SessionInit ==
  /\ authority = TRUE /\ expired = {} /\ troubles = 0
  /\ rows \in FirstRows
  /\ version = Cardinality(Session)
  /\ entries = Preloaded(rows)
  /\ saved = [k \in Session |-> IF rows[k].usable THEN {rows[k].version} ELSE {}]
  /\ floor = [k \in Session |-> rows[k].version]
  /\ writes = <<>> /\ inflight = {} /\ writer = "running"
  /\ call = [r \in Request |-> NoCall] /\ ctxDone = {}
====
