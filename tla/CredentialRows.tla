---- MODULE CredentialRows ----
(***************************************************************************)
(* The credential of one connection in the store, and the outbox row of    *)
(* its activation (store/credential_activation.go, the triggers of         *)
(* store/store.go). Revisions and principal generations are random in the  *)
(* code; here they are numbers that were not issued before. Type and owner *)
(* of the credential change with the principal and are part of it.         *)
(***************************************************************************)
EXTENDS Integers

VARIABLES
  live,    \* [enabled, revision, principal]
  issued,  \* the last revision or principal generation
  job      \* the row of credential_activations, or NoJob

rowVars == <<live, issued, job>>

Transition == {"renewal", "replacement"}
Status == {"pending", "active", "exhausted", "superseded"}

NoJob ==
  [revision |-> 0, principal |-> 0, transition |-> "renewal", status |-> "superseded",
   attempts |-> 0, due |-> FALSE, reset |-> FALSE]

SameCommit(x, y) ==
  x.revision = y.revision /\ x.principal = y.principal /\ x.transition = y.transition

\* ConnectionCredentialByID reads enabled connections only.
MatchesLive(x) ==
  live.enabled /\ live.revision = x.revision /\ live.principal = x.principal

\* Mutant: the swap does not compare the revision.
SwapsPrincipal(expected) == live.enabled /\ live.principal = expected.principal

Swaps(expected) == MatchesLive(expected)

\* A new secret rotates revision and principal; a renewal puts the principal
\* back.
SwappedPrincipal(expected, transition) ==
  IF transition = "renewal" THEN expected.principal ELSE issued + 1

\* CompareAndSwapConnectionCredential: the credential and its activation work
\* in one transaction.
CompareAndSwap(expected, transition) ==
  /\ Swaps(expected)
  /\ issued' = issued + 1
  /\ live' = [live EXCEPT !.revision = issued + 1,
                          !.principal = SwappedPrincipal(expected, transition)]
  /\ job' = [NoJob EXCEPT !.revision = issued + 1,
                          !.principal = SwappedPrincipal(expected, transition),
                          !.transition = transition, !.status = "pending", !.due = TRUE]

\* SaveCredentialActivation: only a superseded status is written after the
\* live credential has rotated.
Saves(a) == SameCommit(a, job) /\ (a.status # "superseded" => MatchesLive(a))

SaveActivation(a) == job' = IF Saves(a) THEN a ELSE job

\* ResetCredentialRoutingState.
ResetsRouting(a) == MatchesLive(a) /\ SameCommit(a, job)

\* UpdateConnection names type and enabled in every UPDATE, so the revision
\* rotates whatever was edited; a new secret, type or owner is a new principal.
UpdateConnection(renews, enabled) ==
  /\ issued' = issued + 1
  /\ live' = [enabled |-> enabled, revision |-> issued + 1,
              principal |-> IF renews THEN issued + 1 ELSE live.principal]
  /\ UNCHANGED job

RowsInit == live = [enabled |-> TRUE, revision |-> 1, principal |-> 1] /\ issued = 1 /\ job = NoJob
====
