---- MODULE AuthorizationSetup ----
(***************************************************************************)
(* Sign-in sessions of one connection (daemon/authorization_setup.go,      *)
(* _lifecycle.go, _commit.go, _resume.go): the calls of the driver that    *)
(* advance a session, the timers and frontends that race them, the commit  *)
(* of the credential, and the end by expiry, cancellation or shutdown.     *)
(*                                                                         *)
(* Sessions are numbered in the order in which they are opened; the        *)
(* retention and the capacity of ended ones are left out. A driver may     *)
(* answer anything provider/authorization.go accepts: a rejection of the   *)
(* event, a failure, a credential, or a next step, which may poll and      *)
(* offer an input, by hand or through a callback, at the same time.        *)
(***************************************************************************)
EXTENDS CredentialRows, AuthorizationCallbacks

CONSTANTS
  MaxRevisions, \* bound on the steps of a session
  MaxEdits      \* bound on edits of the connection

ASSUME SetupAssumption == MaxRevisions \in Nat \ {0} /\ MaxEdits \in Nat

VARIABLES
  table,     \* [Session -> its entry of byID]
  owner,     \* byConnection: the session of the connection, or 0
  inFlight,
  call,      \* [Session -> [Kind -> the goroutine that advances it]]
  read,      \* the credentials a frontend may have read to open or to resume
  releases,  \* owners whose grants are released after the unlock
  daemon,    \* "running", "cancelled", "closed", "drained", "stopped"
  edits

sessionVars == <<table, owner, inFlight, call, releases>>
vars == <<rowVars, registryVars, sessionVars, read, daemon, edits>>

Kind == {"start", "submit", "poll", "await"}
Offer == {"poll", "await", "input", "callback"}

\* AuthorizationTransition.Validate: an await excludes the others, and a callback
\* delivers an offered input. A step that offers nothing only shows instructions.
Step ==
  {step \in SUBSET Offer :
     /\ "await" \in step => step = {"await"}
     /\ "callback" \in step => "input" \in step}
Active == {"starting", "awaiting"}
Admitted == {"driver", "commit", "release"}

NoCredential == [revision |-> 0, principal |-> 0]
NoEntry ==
  [status |-> "none", revision |-> 0, expected |-> NoCredential, step |-> {},
   awaitStarted |-> FALSE, timer |-> FALSE, late |-> FALSE, key |-> FALSE, pollTimer |-> 0]
NoCall == [at |-> "idle", revision |-> 0]

Identity == [revision |-> live.revision, principal |-> live.principal]
Unchanged(s) == live.enabled /\ table[s].expected = Identity

\* The context of a call ends with the one of the daemon, at the deadline of the
\* session, and by its cancel, which whoever ends the session calls.
ContextOver(s) == daemon # "running" \/ table[s].late \/ table[s].status \notin Active

Go(s, k, at) == call' = [call EXCEPT ![s][k].at = at]
EndCall(s, k) == [call EXCEPT ![s][k] = NoCall]

(***************************************************************************)
(* The end of a session.                                                   *)
(***************************************************************************)
\* Mutant: a session that has ended keeps its connection busy.
OwnerKept(s) == owner

OwnerAfter(s) == IF owner = s THEN 0 ELSE owner

Cleared(status) == [NoEntry EXCEPT !.status = status]

\* finishSetupAuthorization; nothing when the session has ended already.
Finish(s) ==
  IF table[s].status \in Active
  THEN /\ table' = [table EXCEPT ![s] = Cleared("ended")]
       /\ owner' = OwnerAfter(s)
       /\ releases' = IF table[s].key THEN releases \cup {s} ELSE releases
  ELSE UNCHANGED <<table, owner, releases>>

\* failSetupCall, and the release of the call that follows it: of an ended
\* session releaseSetupCall drops the mark only.
EndSession(s, k) == Finish(s) /\ call' = EndCall(s, k) /\ inFlight' = inFlight \ {s}

Environment == UNCHANGED <<rowVars, registryVars, read, daemon, edits>>

\* The frontend cancels, or the expiry timer fires.
Cancel(s) ==
  /\ table[s].status \in Active
  /\ Finish(s) /\ UNCHANGED <<inFlight, call>> /\ Environment

Expires(s) ==
  /\ table[s].status = "awaiting" /\ table[s].timer /\ table[s].late
  /\ Finish(s) /\ UNCHANGED <<inFlight, call>> /\ Environment

DeadlinePasses(s) ==
  /\ table[s].status \in Active /\ ~table[s].late
  /\ table' = [table EXCEPT ![s].late = TRUE]
  /\ UNCHANGED <<owner, inFlight, call, releases>> /\ Environment

\* pruneLocked, on any status query or open: not while a call is in flight.
Prune(s) ==
  /\ table[s].status \in Active /\ table[s].late /\ s \notin inFlight
  /\ Finish(s) /\ UNCHANGED <<inFlight, call>> /\ Environment

ReleaseGrants(s) ==
  /\ s \in releases
  /\ ReleaseOwner(s) /\ releases' = releases \ {s}
  /\ UNCHANGED <<rowVars, table, owner, inFlight, call, read, daemon, edits>>

(***************************************************************************)
(* Opening and resuming.                                                   *)
(***************************************************************************)
Fresh == {s \in Session : table[s].status = "none" /\ \A t \in 1..(s - 1) : table[t].status # "none"}

\* The credential is read before the sessions are locked: a frontend may hold
\* any that was live so far.
Reads == read' = read \cup (IF live'.enabled THEN {Identity'} ELSE {})

Open(s, credential) ==
  /\ s \in Fresh /\ owner = 0 /\ daemon \in {"running", "cancelled"}
  /\ table' = [table EXCEPT ![s] = [NoEntry EXCEPT !.status = "starting", !.expected = credential]]
  /\ owner' = s /\ inFlight' = inFlight \cup {s}
  /\ call' = [call EXCEPT ![s]["start"] = [NoCall EXCEPT !.at = "driver"]]
  /\ UNCHANGED releases /\ Environment

\* resumeSetupAuthorization: a start or a submit in flight is waited for; a
\* session whose binding changed since it started is ended, whether it changed
\* for the frontend or in the store.
Resume(s, credential) ==
  /\ s = owner
  /\ \/ table[s].expected # credential
     \/ ~(s \in inFlight /\ (table[s].revision = 0 \/ call[s]["submit"].at \in Admitted))
  /\ IF table[s].expected = credential /\ Unchanged(s)
     THEN UNCHANGED <<table, owner, releases>> ELSE Finish(s)
  /\ UNCHANGED <<inFlight, call>> /\ Environment

(***************************************************************************)
(* advanceSetupAuthorization: admission, the driver, the transition, the   *)
(* commit, and the release of the call.                                    *)
(***************************************************************************)
\* Mutant: a call in flight does not keep others out.
AdmitsBusy(s, revision) ==
  /\ daemon \in {"running", "cancelled"} /\ table[s].status = "awaiting"
  /\ table[s].revision = revision /\ ~table[s].late

Admits(s, revision) ==
  /\ daemon \in {"running", "cancelled"} /\ table[s].status = "awaiting" /\ s \notin inFlight
  /\ table[s].revision = revision /\ ~table[s].late

PollTaken(entry) == [entry EXCEPT !.pollTimer = 0]
AwaitTaken(entry) == [entry EXCEPT !.pollTimer = 0, !.step = @ \ {"await"}, !.awaitStarted = FALSE]

\* Admission stops the poll timer; then the live binding is read, and a changed
\* one fails the session. An input the schema refuses never reaches the driver.
Admit(s, k, valid) ==
  /\ \/ /\ valid /\ ~Unchanged(s)
        /\ EndSession(s, k)
     \/ /\ ~valid \/ Unchanged(s)
        /\ inFlight' = inFlight \cup {s}
        /\ table' = [table EXCEPT ![s] = IF k = "await" THEN AwaitTaken(@) ELSE PollTaken(@)]
        /\ call' = [call EXCEPT ![s][k] =
                      [NoCall EXCEPT !.at = IF valid THEN "driver" ELSE "release"]]
        /\ UNCHANGED <<owner, releases>>
  /\ Environment

Refuse(s, k) ==
  call' = EndCall(s, k) /\ UNCHANGED <<table, owner, inFlight, releases>> /\ Environment

\* A frontend submits an input for the revision it has seen, or a browser
\* arrives with a grant; the latter has waited for the step in flight. Either
\* may overtake a poll that is armed or has fired.
Submit(s) ==
  /\ call[s]["submit"].at = "idle" /\ Admits(s, table[s].revision)
  /\ \E valid \in BOOLEAN :
       /\ valid => "input" \in table[s].step
       /\ Admit(s, "submit", valid)

\* A timer that fires again while the goroutine of an earlier fire has not asked
\* yet is taken to fire after it: refused, the earlier one changes nothing.
PollFires(s) ==
  /\ table[s].pollTimer # 0 /\ call[s]["poll"].at = "idle"
  /\ call' = [call EXCEPT ![s]["poll"] =
                [NoCall EXCEPT !.at = "due", !.revision = table[s].pollTimer]]
  /\ table' = [table EXCEPT ![s].pollTimer = 0]
  /\ UNCHANGED <<owner, inFlight, releases>> /\ Environment

\* The goroutine of a fired timer, or of an await, asks for admission once.
Background(s, k) ==
  LET allowed == /\ Admits(s, call[s][k].revision)
                 /\ k = "await" => "await" \in table[s].step /\ table[s].awaitStarted
  IN /\ call[s][k].at = "due"
     /\ IF allowed THEN Admit(s, k, TRUE) ELSE Refuse(s, k)

\* prepareSetupCallbackResources: the driver asks for the address of its
\* callback before it answers; what was reserved belongs to the session.
Prepare(s, k) ==
  /\ call[s][k].at = "driver" /\ ~ContextOver(s)
  /\ table[s].status \in Active /\ s \in inFlight /\ s \notin reservations
  /\ Reserves(s) \/ ReservesByHand(s)
  /\ table' = [table EXCEPT ![s].key = TRUE]
  /\ UNCHANGED <<rowVars, owner, inFlight, call, releases, read, daemon, edits>>

\* Mutant: a transition is applied to whatever the session has become.
AppliesLate(s) == daemon \in {"running", "cancelled"} /\ table[s].status # "none"

Applies(s) == table[s].status \in Active /\ ~ContextOver(s)

\* Mutant: the timer of the next step is not armed.
ExpiryStopped(s) == FALSE

ExpiryArmed(s) == TRUE

Stepped(s, step) ==
  [status |-> "awaiting", revision |-> table[s].revision + 1, expected |-> table[s].expected,
   step |-> step, awaitStarted |-> FALSE, timer |-> ExpiryArmed(s), late |-> table[s].late,
   key |-> ("callback" \in step), pollTimer |-> 0]

\* The driver fails, or its answer is too late or refused.
DriverFails(s, k) ==
  /\ call[s][k].at = "driver"
  /\ EndSession(s, k) /\ Environment

\* AuthorizationInputRejected, whatever the event was: the session goes on with
\* what it has reserved. A start that is rejected is DriverFails.
RejectInput(s, k) ==
  /\ k # "start" /\ call[s][k].at = "driver" /\ ~ContextOver(s)
  /\ Go(s, k, "release")
  /\ UNCHANGED <<table, owner, inFlight, releases>> /\ Environment

Committing(entry) ==
  [entry EXCEPT !.status = "awaiting", !.revision = @ + 1, !.timer = FALSE, !.pollTimer = 0]

\* applySetupTransition: a credential is going to be committed, or a next step
\* replaces the callbacks and is published. A required callback without its
\* listener is DriverFails.
ApplyCredential(s, k) ==
  /\ call[s][k].at = "driver" /\ Applies(s)
  /\ table' = [table EXCEPT ![s] = Committing(@)]
  /\ Go(s, k, "commit")
  /\ UNCHANGED <<owner, inFlight, releases>> /\ Environment

ApplyStep(s, k, step, granted) ==
  /\ call[s][k].at = "driver" /\ Applies(s) /\ table[s].revision < MaxRevisions
  /\ granted => "callback" \in step
  /\ "callback" \in step /\ ~granted => CannotListen \/ (table[s].key /\ s \notin reservations)
  /\ Replaces(s, granted)
  /\ table' = [table EXCEPT ![s] = Stepped(s, step)] /\ Go(s, k, "release")
  /\ UNCHANGED <<rowVars, owner, inFlight, releases, read, daemon, edits>>

\* commitAuthorizationCredential, once it has the lock of the connection: the
\* session is looked at again, and swap and status change together.
Commits(s) ==
  /\ daemon = "running" /\ table[s].status = "awaiting" /\ ~ContextOver(s)

Commit(s, k) ==
  /\ call[s][k].at = "commit"
  /\ \/ /\ Commits(s) /\ CompareAndSwap(table[s].expected, "replacement")
        /\ table' = [table EXCEPT ![s] = Cleared("completed")]
        /\ owner' = OwnerAfter(s)
        /\ releases' = IF table[s].key THEN releases \cup {s} ELSE releases
        /\ call' = EndCall(s, k) /\ inFlight' = inFlight \ {s}
     \/ /\ ~Commits(s) \/ ~Swaps(table[s].expected)
        /\ EndSession(s, k) /\ UNCHANGED rowVars
  /\ Reads /\ UNCHANGED <<registryVars, daemon, edits>>

Awaits(entry) == entry.status = "awaiting" /\ "await" \in entry.step /\ ~entry.awaitStarted

Released(entry) ==
  [entry EXCEPT !.pollTimer = IF entry.status = "awaiting" /\ "poll" \in entry.step
                              THEN entry.revision ELSE @,
                !.awaitStarted = @ \/ Awaits(entry)]

DueAwait(s) == [at |-> "due", revision |-> table[s].revision]

\* releaseSetupCall: the next poll is armed, an await is started once.
Release(s, k) ==
  /\ call[s][k].at = "release"
  /\ inFlight' = inFlight \ {s}
  /\ table' = [table EXCEPT ![s] = Released(@)]
  /\ call' = IF Awaits(table[s]) THEN [EndCall(s, k) EXCEPT ![s]["await"] = DueAwait(s)]
             ELSE EndCall(s, k)
  /\ UNCHANGED <<owner, releases>> /\ Environment

(***************************************************************************)
(* Edits of the connection, and the shutdown: Stop cancels the context,    *)
(* closes the coordinator, and waits for the calls that were admitted.     *)
(***************************************************************************)
Edit ==
  /\ edits < MaxEdits /\ edits' = edits + 1
  /\ UpdateConnection(FALSE, live.enabled) \/ UpdateConnection(FALSE, ~live.enabled)
  /\ Reads /\ UNCHANGED <<registryVars, sessionVars, daemon>>

CancelContext ==
  /\ daemon = "running" /\ daemon' = "cancelled"
  /\ UNCHANGED <<rowVars, registryVars, sessionVars, read, edits>>

CancelSessions ==
  /\ daemon = "cancelled" /\ daemon' = "closed"
  /\ releases' = releases \cup {s \in Session : table[s].key}
  /\ table' = [s \in Session |-> IF table[s].status = "none" THEN NoEntry
                                ELSE [NoEntry EXCEPT !.status = "gone"]]
  /\ owner' = 0 /\ inFlight' = {}
  /\ UNCHANGED <<rowVars, registryVars, call, read, edits>>

\* authWG.
Awaited(s, k) == call[s][k].at \in Admitted \/ (k = "await" /\ call[s][k].at = "due")
Pending == {sk \in Session \X Kind : Awaited(sk[1], sk[2])}

Drain ==
  /\ daemon = "closed" /\ Pending = {} /\ daemon' = "drained"
  /\ CloseRegistry
  /\ UNCHANGED <<rowVars, sessionVars, read, edits>>

Init ==
  /\ RowsInit /\ RegistryInit
  /\ table = [s \in Session |-> NoEntry] /\ owner = 0 /\ inFlight = {}
  /\ call = [s \in Session |-> [k \in Kind |-> NoCall]]
  /\ read = {Identity} /\ releases = {} /\ daemon = "running" /\ edits = 0

DriverAnswers(s, k) ==
  /\ call[s][k].at = "driver"
  /\ \/ Prepare(s, k) \/ DriverFails(s, k) \/ RejectInput(s, k) \/ ApplyCredential(s, k)
     \/ \E step \in Step, granted \in BOOLEAN : ApplyStep(s, k, step, granted)

CallStep(s, k) == DriverAnswers(s, k) \/ Commit(s, k) \/ Release(s, k)

SessionStep(s) ==
  \/ (\E k \in Kind : CallStep(s, k))
  \/ Background(s, "poll") \/ Background(s, "await")

TimeStep(s) == DeadlinePasses(s) \/ Expires(s)

UserStep(s) ==
  \/ \E credential \in read : Open(s, credential) \/ Resume(s, credential)
  \/ Submit(s) \/ PollFires(s) \/ Cancel(s) \/ Prune(s) \/ ReleaseGrants(s)

Next ==
  \/ Edit
  \/ CancelContext \/ CancelSessions \/ Drain
  \/ \E s \in Session : SessionStep(s) \/ TimeStep(s) \/ UserStep(s)

\* A driver returns when its context is over, timers fire, and the goroutines of
\* the daemon run.
Fairness ==
  /\ WF_vars(\E s \in Session : SessionStep(s)) /\ WF_vars(\E s \in Session : TimeStep(s))
  /\ WF_vars(CancelSessions) /\ WF_vars(Drain)

Spec == Init /\ [][Next]_vars /\ Fairness

(***************************************************************************)
(* Properties.                                                             *)
(***************************************************************************)
\* The types of the sessions, the calls and the registry; a connection belongs
\* to a session that is still active, never to one that has ended
\* (finishSetupAuthorization, commitAuthorizationCredential).
TypeOK ==
  /\ \A s \in Session :
       /\ table[s].status \in Active \cup {"none", "ended", "completed", "gone"}
       /\ table[s].revision \in 0..(MaxRevisions + 1) /\ table[s].pollTimer \in 0..MaxRevisions
       /\ table[s].step \in Step
       /\ \A k \in Kind : call[s][k].at \in Admitted \cup {"idle", "due"}
  /\ owner \in 0..MaxSessions /\ inFlight \subseteq Session /\ releases \subseteq Session
  /\ owner # 0 => table[owner].status \in Active
  /\ bindings \subseteq Session /\ reservations \subseteq Session
  /\ daemon \in {"running", "cancelled", "closed", "drained"}

\* A session is advanced by one call at a time, and its poll timer does not run
\* meanwhile. Up to its deadline a polled one is never left without a poll,
\* whatever submits and browsers overtook or were rejected: when no call is in
\* flight a timer of its revision is armed or its goroutine is on the way. No
\* call outlives the wait of the shutdown (admission and releaseSetupCall).
DrivenByOne ==
  /\ \A s \in Session :
       /\ \A j, k \in Kind : call[s][j].at \in Admitted /\ call[s][k].at \in Admitted => j = k
       /\ s \in inFlight => table[s].pollTimer = 0
       /\ table[s].status = "awaiting" /\ "poll" \in table[s].step /\ ~table[s].late
            /\ s \notin inFlight =>
            \/ table[s].pollTimer = table[s].revision
            \/ call[s]["poll"].at = "due" /\ call[s]["poll"].revision = table[s].revision
  /\ daemon = "drained" => Pending = {}

\* A grant or a reserved socket belongs to a session that will release it or to
\* a release under way, and the shared listener is open exactly as long as
\* somebody uses it (authorization_callback.go, authorization_resources.go).
CallbacksBelong ==
  /\ bindings \cup reservations \subseteq {s \in Session : table[s].key} \cup releases
  /\ listener = (bindings \cup reservations # {})

Over(s) == table[s].status \in {"ended", "completed", "gone"}

\* A session that was reported as expired, cancelled or failed never comes back
\* to life nor commits the credential its driver still returns; whoever ends it
\* first decides (applySetupTransition, commitAuthorizationCredential).
EndedStaysEnded ==
  [][\A s \in Session : Over(s) =>
       Over(s)' /\ (table'[s].status = "completed" => table[s].status = "completed")]_vars

\* Every session ends, at the latest by its deadline, and a shutdown gets past
\* the wait for the calls in flight. Sessions are finitely many and none comes
\* back, nor does the daemon: it is enough that time and again none is left.
SessionsEnd ==
  []<>(/\ \A s \in Session : table[s].status \notin Active
       /\ daemon \notin {"cancelled", "closed"})
====
