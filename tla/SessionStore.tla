---- MODULE SessionStore ----
(***************************************************************************)
(* What a session store promises (kernel/session_store.go): the state a    *)
(* request loads is one that was saved for the session, an invalidation    *)
(* removes the state its caller had loaded and no other, and what a        *)
(* durable write has replaced does not come back, not even after a         *)
(* restart. States are named by the store version they are saved under.    *)
(***************************************************************************)
EXTENDS Integers

CONSTANTS Session, MaxVersion

VARIABLES
  version,  \* the last store version
  saved,    \* [Session -> versions of usable states saved for it]
  stored,   \* [Session -> version of its state, 0 when it has none]
  asked,    \* invalidations that were admitted
  floor,    \* [Session -> last version that reached the disk]
  expired   \* versions past their expiry

vars == <<version, saved, stored, asked, floor, expired>>

Init ==
  /\ version \in 0..MaxVersion
  /\ saved \in [Session -> SUBSET (1..version)]
  /\ stored \in [Session -> 0..version]
  /\ floor \in [Session -> 0..version]
  /\ \A k \in Session : stored[k] # 0 => stored[k] \in saved[k] /\ stored[k] >= floor[k]
  /\ asked = {} /\ expired = {}

\* A save makes the state visible at once. The sessions it displaces lose
\* their state in memory.
Save(k, usable, displaced) ==
  /\ version' = version + 1
  /\ saved' = IF usable THEN [saved EXCEPT ![k] = @ \cup {version'}] ELSE saved
  /\ stored' = [s \in Session |-> IF s = k THEN IF usable THEN version' ELSE 0
                                  ELSE IF s \in displaced THEN 0 ELSE stored[s]]
  /\ UNCHANGED <<asked, floor, expired>>

Ask(k, expected) ==
  /\ version' = version + 1
  /\ asked' = asked \cup {[session |-> k, expected |-> expected, version |-> version']}
  /\ UNCHANGED <<saved, stored, floor, expired>>

\* Of MemorySessionStore the whole Invalidate: the state goes if it is still
\* the expected one, and a newer one stays.
Invalidate(a) ==
  /\ asked' = asked \ {a}
  /\ stored' = [stored EXCEPT ![a.session] = IF @ = a.expected THEN 0 ELSE @]
  /\ stored'[a.session] \notin 1..a.version
  /\ floor[a.session] < a.version
  /\ floor' = [floor EXCEPT ![a.session] = a.version]
  /\ UNCHANGED <<version, saved, expired>>

\* An invalidation that cannot be made durable leaves the state.
Refuse(a) ==
  /\ asked' = asked \ {a}
  /\ UNCHANGED <<version, saved, stored, floor, expired>>

\* A saved state reaches the disk.
Settle(k, v) ==
  /\ floor[k] < v /\ v \notin {a.version : a \in asked}
  /\ floor' = [floor EXCEPT ![k] = v]
  /\ UNCHANGED <<version, saved, stored, asked, expired>>

Expire(v) ==
  /\ expired' = expired \cup {v}
  /\ UNCHANGED <<version, saved, stored, asked, floor>>

Forget(k) ==
  /\ stored[k] \in expired
  /\ stored' = [stored EXCEPT ![k] = 0]
  /\ UNCHANGED <<version, saved, asked, floor, expired>>

\* Writes that were not durable may be lost, and with them the newest states.
Restart ==
  /\ stored' \in [Session -> 0..version]
  /\ \A k \in Session :
       stored'[k] # 0 => stored'[k] \in saved[k] \ expired /\ stored'[k] >= floor[k]
  /\ asked' = {}
  /\ UNCHANGED <<version, saved, floor, expired>>

Next ==
  \/ \E k \in Session, usable \in BOOLEAN, displaced \in SUBSET Session :
       Save(k, usable, displaced \ {k})
  \/ \E k \in Session : \E v \in saved[k] : Ask(k, v)
  \/ \E a \in asked : Invalidate(a) \/ Refuse(a)
  \/ \E k \in Session, v \in 1..version : Settle(k, v)
  \/ \E v \in 1..version : Expire(v)
  \/ \E k \in Session : Forget(k)
  \/ Restart

Spec == Init /\ [][Next]_vars
====
