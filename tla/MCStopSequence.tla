---- MODULE MCStopSequence ----
(* Two requests of one session, one of which may belong to another session   *)
(* instead, share a cache of one entry and queues of one element.            *)
EXTENDS StopSequence

CONSTANTS s1, s2, r1, r2

MCUses == [r \in Request |-> IF r = r1 THEN {s1} ELSE Session]

\* An earlier process left a row per session; the cache holds the newer one.
MCFirstRows == {[s \in Session |-> Entry(IF s = s1 THEN 2 ELSE 1, TRUE)]}
====
