---- MODULE AuthorizationCallbacks ----
(***************************************************************************)
(* The registry of callback grants (daemon/authorization_callback.go,      *)
(* daemon/authorization_resources.go): sessions reserve and publish one    *)
(* loopback address, which all of them share. A grant that is delivered by *)
(* hand or through the configured ingress holds no listener and is left    *)
(* out.                                                                    *)
(***************************************************************************)
EXTENDS Integers

CONSTANT MaxSessions

ASSUME SessionsAssumption == MaxSessions \in Nat \ {0}

Session == 1..MaxSessions

VARIABLES
  bindings,     \* owners of a published grant
  reservations, \* owners of a reserved socket
  listener,     \* the address is listened on
  closed        \* callbacksClosed

registryVars == <<bindings, reservations, listener, closed>>

\* Mutant: releasing an owner closes the listener that others still use.
UsedByNobody(b, r) == FALSE

\* pruneAuthorizationCallbackListenersLocked.
Used(b, r) == b \cup r # {}

\* The address cannot be bound: another process has it.
CannotListen == ~listener

\* reserveAuthorizationCallbacks. An optional grant without a socket is manual;
\* a refusal rolls back and leaves what was there.
Reserves(s) ==
  /\ ~closed
  /\ reservations' = reservations \cup {s} /\ listener' = TRUE
  /\ UNCHANGED <<bindings, closed>>

ReservesByHand(s) ==
  /\ ~closed /\ CannotListen
  /\ reservations' = reservations \ {s}
  /\ UNCHANGED <<bindings, listener, closed>>

\* replaceAuthorizationCallbacks: the new grants of an owner replace its old
\* ones and its reservations at once, or nothing changes.
Replaces(s, granted) ==
  /\ ~closed
  /\ bindings' = IF granted THEN bindings \cup {s} ELSE bindings \ {s}
  /\ reservations' = reservations \ {s}
  /\ listener' = Used(bindings', reservations')
  /\ UNCHANGED closed

\* releaseAuthorizationCallbacks.
ReleaseOwner(s) ==
  /\ bindings' = bindings \ {s} /\ reservations' = reservations \ {s}
  /\ listener' = (listener /\ Used(bindings', reservations'))
  /\ UNCHANGED closed

\* closeAuthorizationCallbacks.
CloseRegistry ==
  /\ closed' = TRUE /\ bindings' = {} /\ reservations' = {} /\ listener' = FALSE

RegistryInit == bindings = {} /\ reservations = {} /\ listener = FALSE /\ closed = FALSE
====
