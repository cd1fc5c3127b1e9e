---- MODULE CredentialActivation ----
(***************************************************************************)
(* What happens around the credential of one connection while requests use *)
(* it: the activation of a new credential by the outbox worker or an       *)
(* administrator (daemon/credential_activation.go), the reload that        *)
(* publishes it (Server.Reload, Manager.Reload, the reload hook of         *)
(* daemon/daemon.go), the leases of requests and their refresh             *)
(* (daemon/credential_lease.go, daemon/credential_refresh.go), and edits   *)
(* of the connection that take no lock.                                    *)
(*                                                                         *)
(* A snapshot is the principal of the route it holds for the connection,   *)
(* 0 when the connection is disabled. The other connections share only the *)
(* worker and the reload with this one.                                    *)
(***************************************************************************)
EXTENDS CredentialRows

CONSTANTS
  Requests,    \* requests are numbered in the order in which they start
  MaxAttempts, \* credentialActivationAttempts
  MaxChanges,  \* bound on edits, reloads, retries, sign-ins and crashes
  MaxFaults    \* bound on failing steps

ASSUME ActivationAssumption ==
  Requests \in Nat /\ MaxAttempts \in Nat \ {0} /\ MaxChanges \in Nat /\ MaxFaults \in Nat

Request == 1..Requests

VARIABLES
  lock,     \* holder of the credential lock of the connection, or "free"
  act,      \* [Actor -> its activation]
  worker,   \* the loop of runCredentialActivations
  setup,    \* the credential a sign-in expects to replace, or NoSetup
  reload,   \* the reload that holds reloadMu
  serving,  \* the snapshot the kernel executes
  gates,    \* the snapshot whose generations the health gate observes
  req,      \* [Request -> its lease]
  spent,    \* history: revisions whose exchange runs, or led to a credential
  changes, faults

activationVars == <<lock, act, worker, setup>>
reloadVars == <<reload, serving, gates>>
leaseVars == <<req, spent>>
boundVars == <<changes, faults>>
vars == <<rowVars, activationVars, reloadVars, leaseVars, boundVars>>

\* The outbox worker, one administrator (a sign-in, a retry), and the edit of
\* a connection, which ends in a reload.
Actor == {"worker", "admin", "edit"}

Idle == [at |-> "idle", job |-> NoJob, failed |-> FALSE]
NoReload == [by |-> "none", at |-> "free", snapshot |-> 0, failed |-> FALSE]
NoLease == [at |-> "idle", route |-> 0, material |-> 0, binding |-> 0, refreshed |-> FALSE]
Ended == [NoLease EXCEPT !.at = "over"]
NoSetup == [revision |-> 0, principal |-> 0]

Change == changes < MaxChanges /\ changes' = changes + 1 /\ UNCHANGED faults
Fault == faults < MaxFaults /\ faults' = faults + 1 /\ UNCHANGED changes

Snapshot == IF live.enabled THEN live.principal ELSE 0

Go(a, at, j, failed) == act' = [act EXCEPT ![a] = [at |-> at, job |-> j, failed |-> failed]]

(***************************************************************************)
(* The loop of the worker.                                                 *)
(***************************************************************************)
\* The timer is armed for the next attempt, or after a failure.
TimerFires == worker.tick = "soon" \/ (worker.tick = "next" /\ ~(job.status = "pending" /\ ~job.due))

\* NextCredentialActivation, and the budget of failures after which only a
\* wake or a restart goes on.
Settled(w, failed) ==
  IF failed
  THEN [w EXCEPT !.failures = @ + 1,
                 !.tick = IF w.failures + 1 >= MaxAttempts THEN "off" ELSE "soon"]
  ELSE [w EXCEPT !.failures = 0, !.tick = IF job.status = "pending" THEN "next" ELSE "off"]

\* The batch of due rows is read without the lock.
Scan ==
  LET awake == IF worker.wake THEN [worker EXCEPT !.wake = FALSE, !.failures = 0] ELSE worker
  IN /\ act["worker"].at = "idle" /\ (worker.wake \/ TimerFires)
     /\ \/ /\ job.status = "pending" /\ job.due
           /\ worker' = awake /\ Go("worker", "read", job, FALSE) /\ UNCHANGED boundVars
        \/ /\ ~(job.status = "pending" /\ job.due)
           /\ \/ worker' = Settled(awake, FALSE) /\ UNCHANGED boundVars
              \/ worker' = Settled(awake, TRUE) /\ Fault
           /\ UNCHANGED act
     /\ UNCHANGED <<rowVars, lock, setup, reloadVars, leaseVars>>

Settle ==
  /\ act["worker"].at = "settle"
  /\ \/ worker' = Settled(worker, act["worker"].failed) /\ UNCHANGED boundVars
     \/ ~act["worker"].failed /\ worker' = Settled(worker, TRUE) /\ Fault
  /\ Go("worker", "idle", NoJob, FALSE)
  /\ UNCHANGED <<rowVars, lock, setup, reloadVars, leaseVars>>

AttemptFallsDue ==
  /\ job.status = "pending" /\ ~job.due
  /\ job' = [job EXCEPT !.due = TRUE]
  /\ UNCHANGED <<live, issued, activationVars, reloadVars, leaseVars, boundVars>>

(***************************************************************************)
(* activateCredentialLocked, under the lock of the connection. The worker  *)
(* takes it for each row of its batch and drops it afterwards.             *)
(***************************************************************************)
\* The end of an activation. Every one but the worker's own is followed by a
\* wake of the worker.
Release(a, failed) ==
  /\ lock' = "free"
  /\ Go(a, IF a = "worker" THEN "settle" ELSE "idle", NoJob, a = "worker" /\ failed)
  /\ worker' = IF a = "worker" THEN worker ELSE [worker EXCEPT !.wake = TRUE]

Advance(a, at, j) == lock' = a /\ Go(a, at, j, FALSE) /\ UNCHANGED worker

\* A failing read of the row ends like a failing save below.
ReadActivation(a) ==
  LET key == act[a].job
  IN /\ act[a].at = "read"
     /\ a = "worker" => lock = "free"
     /\ \/ /\ ~SameCommit(key, job) \/ job.status # "pending"
           /\ Release(a, FALSE)
        \/ /\ SameCommit(key, job) /\ job.status = "pending" /\ ~MatchesLive(job)
           /\ Advance(a, "save", [job EXCEPT !.status = "superseded"])
        \/ /\ SameCommit(key, job) /\ job.status = "pending" /\ MatchesLive(job)
           /\ Advance(a, IF job.reset THEN "reload" ELSE "reset", [job EXCEPT !.attempts = @ + 1])
     /\ UNCHANGED <<rowVars, setup, reloadVars, leaseVars, boundVars>>

ResetRouting(a) ==
  LET j == act[a].job
  IN /\ act[a].at = "reset"
     /\ \/ /\ IF ResetsRouting(j) THEN Go(a, "reload", [j EXCEPT !.reset = TRUE], FALSE)
                                  ELSE Go(a, "recheck", [j EXCEPT !.status = "superseded"], FALSE)
           /\ UNCHANGED boundVars
        \/ Go(a, "recheck", j, FALSE) /\ Fault
     /\ UNCHANGED <<rowVars, lock, worker, setup, reloadVars, leaseVars>>

\* Mutant: one attempt too many.
RescheduledOnceMore(j) ==
  CASE ~MatchesLive(j) -> [j EXCEPT !.status = "superseded"]
    [] MatchesLive(j) /\ j.status = "pending" /\ j.attempts > MaxAttempts ->
         [j EXCEPT !.status = "exhausted", !.due = FALSE]
    [] MatchesLive(j) /\ j.status = "pending" /\ j.attempts <= MaxAttempts -> [j EXCEPT !.due = FALSE]
    [] OTHER -> j

\* The last look at the live credential, and the next attempt.
Rescheduled(j) ==
  CASE ~MatchesLive(j) -> [j EXCEPT !.status = "superseded"]
    [] MatchesLive(j) /\ j.status = "pending" /\ j.attempts >= MaxAttempts ->
         [j EXCEPT !.status = "exhausted", !.due = FALSE]
    [] MatchesLive(j) /\ j.status = "pending" /\ j.attempts < MaxAttempts -> [j EXCEPT !.due = FALSE]
    [] OTHER -> j

Recheck(a) ==
  /\ act[a].at = "recheck"
  /\ Go(a, "save", Rescheduled(act[a].job), FALSE)
  /\ UNCHANGED <<rowVars, lock, worker, setup, reloadVars, leaseVars, boundVars>>

Save(a) ==
  /\ act[a].at = "save"
  /\ \/ SaveActivation(act[a].job) /\ Release(a, FALSE) /\ UNCHANGED boundVars
     \/ Release(a, TRUE) /\ Fault /\ UNCHANGED job
  /\ UNCHANGED <<live, issued, setup, reloadVars, leaseVars>>

(***************************************************************************)
(* The reload. The control manager loads and publishes, the hook moves the *)
(* generations of the gate before it publishes to the kernel.              *)
(***************************************************************************)
\* Mutant: a failed reload reports success.
ReportsActive(failed) == TRUE

Reports(failed) == ~failed

EndReload(a, failed) ==
  /\ reload' = NoReload
  /\ IF a = "edit" THEN Go(a, "idle", NoJob, FALSE)
     ELSE Go(a, "recheck", [act[a].job EXCEPT !.status = IF Reports(failed) THEN "active" ELSE "pending"],
             FALSE)

\* Manager.Reload: the version of the published snapshot is a setting of the
\* store; the hook runs whether or not it was written.
ReloadControl(a) ==
  /\ act[a].at = "reload" /\ reload.at = "free"
  /\ \/ /\ reload' = [by |-> a, at |-> "hook", snapshot |-> Snapshot, failed |-> FALSE]
        /\ UNCHANGED <<act, boundVars>>
     \/ /\ reload' = [by |-> a, at |-> "hook", snapshot |-> Snapshot, failed |-> TRUE]
        /\ Fault /\ UNCHANGED act
     \/ EndReload(a, TRUE) /\ Fault
  /\ UNCHANGED <<rowVars, lock, worker, setup, serving, gates, leaseVars>>

MoveGenerations ==
  /\ reload.at = "hook"
  /\ \/ /\ gates' = reload.snapshot
        /\ reload' = [reload EXCEPT !.at = "publish"]
        /\ UNCHANGED <<act, boundVars>>
     \/ EndReload(reload.by, TRUE) /\ Fault /\ UNCHANGED gates
  /\ UNCHANGED <<rowVars, lock, worker, setup, serving, leaseVars>>

\* Mutant: the generations of the refused snapshot stay.
KeptGenerations == gates

RestoredGenerations == serving

\* restoreHealthForRoutes and PublishSnapshot.
PublishSnapshot ==
  /\ reload.at = "publish"
  /\ \/ serving' = reload.snapshot /\ EndReload(reload.by, reload.failed)
        /\ UNCHANGED <<gates, boundVars>>
     \/ gates' = RestoredGenerations /\ EndReload(reload.by, TRUE) /\ Fault
        /\ UNCHANGED serving
  /\ UNCHANGED <<rowVars, lock, worker, setup, leaseVars>>

(***************************************************************************)
(* The administrator.                                                      *)
(***************************************************************************)
\* retryCredentialActivation, up to the fenced save of the renewed row.
RetryReads ==
  /\ act["admin"].at = "idle" /\ lock = "free"
  /\ MatchesLive(job) /\ job.status # "active"
  /\ lock' = "admin" /\ Go("admin", "retry", job, FALSE) /\ Change
  /\ UNCHANGED <<rowVars, worker, setup, reloadVars, leaseVars>>

RetrySaves ==
  LET renewed == [act["admin"].job EXCEPT !.status = "pending", !.attempts = 0, !.due = TRUE]
  IN /\ act["admin"].at = "retry"
     /\ SaveActivation(renewed)
     /\ IF Saves(renewed) THEN Go("admin", "read", renewed, FALSE) /\ UNCHANGED lock
                          ELSE Go("admin", "idle", NoJob, FALSE) /\ lock' = "free"
     /\ UNCHANGED <<live, issued, worker, setup, reloadVars, leaseVars, boundVars>>

\* A sign-in remembers the credential it started from.
SignInStarts ==
  /\ setup = NoSetup /\ act["admin"].at = "idle" /\ live.enabled
  /\ setup' = [revision |-> live.revision, principal |-> live.principal]
  /\ Change
  /\ UNCHANGED <<rowVars, lock, act, worker, reloadVars, leaseVars>>

\* commitAuthorizationCredential: the swap and the activation under one lock.
SignInCommits ==
  /\ setup # NoSetup /\ act["admin"].at = "idle" /\ lock = "free"
  /\ setup' = NoSetup
  /\ \/ /\ CompareAndSwap(setup, "replacement")
        /\ lock' = "admin" /\ Go("admin", "read", job', FALSE)
     \/ /\ ~Swaps(setup)
        /\ UNCHANGED <<rowVars, lock, act>>
  /\ UNCHANGED <<worker, reloadVars, req, spent, boundVars>>

\* Edits take no lock of the credential: a rename, a new secret, or a switch.
Edit ==
  /\ act["edit"].at = "idle"
  /\ \/ UpdateConnection(FALSE, live.enabled) \/ UpdateConnection(TRUE, live.enabled)
     \/ UpdateConnection(FALSE, ~live.enabled)
  /\ Go("edit", "reload", NoJob, FALSE) /\ Change
  /\ UNCHANGED <<lock, worker, setup, reloadVars, req, spent>>

(***************************************************************************)
(* The lease of a request: acquireScopedCredentialLease, the check before  *)
(* the dispatch, and refreshCredential. Resolving and exchanging are calls *)
(* of the provider, so others move between the reads and their use.        *)
(***************************************************************************)
LeaseStep == UNCHANGED <<worker, setup, act, reloadVars, boundVars>>

\* credentialFlowForRoute: the route pins the principal it was built for.
RouteHolds(r) == live.enabled /\ live.principal = req[r].route

At(r, at) == req' = [req EXCEPT ![r].at = at]
EndRequest(r) == req' = [req EXCEPT ![r] = Ended]

\* A request has a route of the snapshot it was admitted with; resolveCredential
\* reads the live row. A token that is expired already is refreshed first.
Resolve(r) ==
  /\ req[r].at = "idle" /\ serving # 0
  /\ \A s \in 1..(r - 1) : req[s].at # "idle"
  /\ IF live.enabled /\ live.principal = serving
     THEN \E expired \in BOOLEAN :
            req' = [req EXCEPT ![r] =
                      [at |-> IF expired THEN "refresh" ELSE "issue", route |-> serving,
                       material |-> live.revision, binding |-> 0, refreshed |-> expired]]
     ELSE EndRequest(r)
  /\ LeaseStep /\ UNCHANGED <<rowVars, lock, spent>>

\* Mutant: the generation of the material is not compared.
IssuesAny(r) == RouteHolds(r)

Issues(r) == RouteHolds(r) /\ req[r].material = live.revision

Issue(r) ==
  /\ req[r].at = "issue"
  /\ IF Issues(r) THEN req' = [req EXCEPT ![r].at = "prepared", ![r].binding = live.revision]
                  ELSE EndRequest(r)
  /\ LeaseStep /\ UNCHANGED <<rowVars, lock, spent>>

\* ValidateForDispatch: the live binding is the one of the lease.
ValidForDispatch(r) == live.enabled /\ live.revision = req[r].binding

\* A refused dispatch ends the request, and so does an answer, unless it is an
\* authority failure, which is recovered from once (here not after the refresh
\* of an expired token, which bounds the revisions).
Dispatch(r) ==
  /\ req[r].at = "prepared"
  /\ \/ EndRequest(r)
     \/ /\ ValidForDispatch(r) /\ ~req[r].refreshed
        /\ req' = [req EXCEPT ![r].at = "refresh", ![r].refreshed = TRUE]
  /\ LeaseStep /\ UNCHANGED <<rowVars, lock, spent>>

\* Mutant: the refresh does not wait for the lock.
RefreshNeverWaits == TRUE

RefreshMayLock == lock = "free"

\* The caller goes away while it waits.
RefreshAbandoned(r) ==
  /\ req[r].at = "refresh"
  /\ EndRequest(r)
  /\ LeaseStep /\ UNCHANGED <<rowVars, lock, spent>>

\* What another request renewed meanwhile is used instead of an exchange.
RefreshLocks(r) ==
  /\ req[r].at = "refresh" /\ RefreshMayLock
  /\ \/ /\ ~RouteHolds(r)
        /\ EndRequest(r) /\ UNCHANGED <<lock, spent>>
     \/ /\ RouteHolds(r) /\ live.revision # req[r].material
        /\ req' = [req EXCEPT ![r].at = "issue", ![r].material = live.revision]
        /\ UNCHANGED <<lock, spent>>
     \/ /\ RouteHolds(r) /\ live.revision = req[r].material
        /\ At(r, "exchange") /\ lock' = "request" /\ spent' = spent \cup {live.revision}
  /\ LeaseStep /\ UNCHANGED rowVars

\* A failed or cancelled exchange, and one that returned the same state, leave
\* the request without a new credential.
ExchangeFails(r) ==
  /\ req[r].at = "exchange"
  /\ EndRequest(r) /\ lock' = "free" /\ spent' = spent \ {req[r].material}
  /\ LeaseStep /\ UNCHANGED rowVars

\* Mutant: the worker is not told of the renewal.
NotSignalled == worker

Signalled == [worker EXCEPT !.wake = TRUE]

\* The refresh token of the connection is spent even when the swap is refused.
CommitRenewal(r) ==
  LET expected == [revision |-> req[r].material, principal |-> req[r].route]
  IN /\ req[r].at = "exchange"
     /\ lock' = "free"
     /\ \/ /\ CompareAndSwap(expected, "renewal")
           /\ req' = [req EXCEPT ![r].at = "issue", ![r].material = issued']
           /\ worker' = Signalled /\ UNCHANGED spent
        \/ /\ ~Swaps(expected)
           /\ EndRequest(r) /\ spent' = spent \ {req[r].material}
           /\ UNCHANGED <<rowVars, worker>>
     /\ UNCHANGED <<act, setup, reloadVars, boundVars>>

(***************************************************************************)
(* A crash, and the start after it: the routes are loaded from the store,  *)
(* the worker looks at once.                                               *)
(***************************************************************************)
Started == [tick |-> "soon", wake |-> FALSE, failures |-> 0]

Crash ==
  /\ lock' = "free" /\ act' = [a \in Actor |-> Idle]
  /\ worker' = Started /\ setup' = NoSetup
  /\ reload' = NoReload /\ serving' = Snapshot /\ gates' = Snapshot
  /\ req' = [r \in Request |-> IF req[r].at = "idle" THEN req[r] ELSE Ended]
  /\ spent' = spent \ {req[r].material : r \in {x \in Request : req[x].at = "exchange"}}
  /\ Change
  /\ UNCHANGED rowVars

Init ==
  /\ RowsInit
  /\ lock = "free" /\ act = [a \in Actor |-> Idle]
  /\ worker = Started /\ setup = NoSetup
  /\ reload = NoReload /\ serving = 1 /\ gates = 1
  /\ req = [r \in Request |-> NoLease]
  /\ spent = {}
  /\ changes = 0 /\ faults = 0

ActivationStep(a) ==
  ReadActivation(a) \/ ResetRouting(a) \/ ReloadControl(a) \/ Recheck(a) \/ Save(a)

ReloadStep == MoveGenerations \/ PublishSnapshot

AdminStep == RetryReads \/ RetrySaves \/ SignInStarts \/ SignInCommits \/ Edit

WorkerStep == Scan \/ Settle \/ ActivationStep("worker")

RequestStep(r) ==
  \/ Resolve(r) \/ Issue(r) \/ Dispatch(r)
  \/ RefreshLocks(r) \/ RefreshAbandoned(r) \/ ExchangeFails(r) \/ CommitRenewal(r)

Next ==
  \/ WorkerStep \/ AttemptFallsDue \/ ReloadStep \/ AdminStep \/ Crash
  \/ ActivationStep("admin") \/ ActivationStep("edit")
  \/ \E r \in Request : RequestStep(r)

\* The worker is a loop; what it calls returns; the waiters of the lock are
\* served in order (semaphore.Weighted). A request that holds the lock ends
\* with its context.
Fairness ==
  /\ SF_vars(WorkerStep) /\ WF_vars(AttemptFallsDue) /\ WF_vars(ReloadStep)
  /\ WF_vars(RetrySaves \/ ActivationStep("admin")) /\ WF_vars(ActivationStep("edit"))
  /\ \A r \in Request : WF_vars(ExchangeFails(r) \/ CommitRenewal(r))

Spec == Init /\ [][Next]_vars /\ Fairness

(***************************************************************************)
(* Properties.                                                             *)
(***************************************************************************)
Stamp == 0..issued

Row ==
  [revision : Stamp, principal : Stamp, transition : Transition, status : Status,
   attempts : 0..MaxAttempts, due : BOOLEAN, reset : BOOLEAN]

Activation ==
  [at : {"idle", "read", "reset", "reload", "recheck", "save", "settle", "retry"},
   job : Row, failed : BOOLEAN]

Loop == [tick : {"off", "soon", "next"}, wake : BOOLEAN, failures : 0..MaxAttempts]

Reloading ==
  [by : Actor \cup {"none"}, at : {"free", "hook", "publish"}, snapshot : Stamp,
   failed : BOOLEAN]

Leased ==
  [at : {"idle", "issue", "prepared", "refresh", "exchange", "over"}, route : Stamp,
   material : Stamp, binding : Stamp, refreshed : BOOLEAN]

\* The types of the rows, the actors and the leases; no row, snapshot, lease or
\* sign-in holds a revision that the store has not issued.
TypeOK ==
  /\ issued \in Nat \ {0}
  /\ live \in [enabled : BOOLEAN, revision : 1..issued, principal : 1..issued]
  /\ job \in Row
  /\ lock \in {"free", "worker", "admin", "request"}
  /\ act \in [Actor -> Activation]
  /\ worker \in Loop
  /\ setup \in [revision : Stamp, principal : Stamp]
  /\ reload \in Reloading
  /\ serving \in Stamp /\ gates \in Stamp
  /\ req \in [Request -> Leased]
  /\ spent \subseteq 1..issued
  /\ changes \in 0..MaxChanges /\ faults \in 0..MaxFaults

\* An activation that is reported active, and whose credential is the live
\* one, is served by the kernel: no reload that failed, ran before the commit
\* or was overtaken counts as the publication, and no later reload, edit or
\* crash takes the served principal back (activateCredentialLocked).
ActiveIsServed ==
  job.status = "active" /\ MatchesLive(job) => serving = live.principal /\ job.reset

\* Whenever no reload is under way the health gate observes the generations
\* of the snapshot that is executed, also after a reload that failed halfway
\* (the reload hook of daemon.go).
GatesFollowServing == reload.at = "free" => gates = serving

\* A request never sends the credential of another principal than the one its
\* route was built for, nor one of another revision than its binding, whatever
\* edits, sign-ins and renewals came in between (daemon/credential_lease.go).
LeaseIsCoherent ==
  \A r \in Request : req[r].at = "prepared" /\ ValidForDispatch(r) =>
    live.revision = req[r].material /\ live.principal = req[r].route

\* A refresh token is exchanged again only after an exchange that led to no
\* credential (lockCredentialRefresh, the second read of refreshCredential).
ExchangeIsSingle ==
  [][\A r \in Request : req[r].at = "refresh" /\ req'[r].at = "exchange" =>
       req[r].material \notin spent]_vars

\* A commit replaces the very credential its exchange or sign-in started from,
\* and a renewal stays with the principal (CompareAndSwapConnectionCredential).
LineageIsUnbroken ==
  [][/\ \A r \in Request : req[r].at = "exchange" /\ req'[r].at = "issue" =>
          live.revision = req[r].material /\ live'.principal = live.principal
     /\ setup # NoSetup /\ act["admin"].at = "idle" /\ act'["admin"].at = "read" =>
          live.revision = setup.revision]_vars

\* The worker stopped after its budget of failures: a wake or a restart goes on.
WorkerGaveUp == worker.failures >= MaxAttempts

\* Every committed credential is activated, superseded or exhausted at last,
\* across crashes, unless storage failed until the worker gave up
\* (runCredentialActivations).
JobsSettle == job.status = "pending" ~> job.status # "pending" \/ WorkerGaveUp
====
