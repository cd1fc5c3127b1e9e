---- MODULE KernelExecution ----
(***************************************************************************)
(* One Kernel.Execute call (internal/kernel/kernel.go): the walk over a    *)
(* model's members and candidate routes, and the life of every attempt:    *)
(* admission, credential lease, dispatch, answer, credential refresh,      *)
(* idempotent replay, rendering. The upstream, the credential issuer, the  *)
(* client and the deadline are the environment; which candidates are       *)
(* usable and in which order they rank is left open.                       *)
(***************************************************************************)
EXTENDS Integers, Sequences, FiniteSets

CONSTANTS
  Node, Root,      \* model nodes and the node of the public model
  Group,           \* route members
  Candidate,
  MembersOf,       \* [Node -> SUBSET (Node \cup Group)]
  RoutesOf,        \* [Group -> SUBSET Candidate]
  Keyed,           \* candidates with a derived idempotency key
  Replayable,      \* candidates whose adapter prepares a replay
  Refreshable,     \* candidates whose credential can be refreshed
  Answer,          \* error answers the upstream can give
  Retention,       \* idempotency retention of the provider
  MaxTime          \* bound on the clock

AnswerType ==
  [effect: {"rejected", "unknown", "accepted"}, retry: {"after", "never"},
   refresh: BOOLEAN, continuity: {"none", "valid", "malformed"}, terminal: BOOLEAN]

ASSUME KernelAssumption ==
  /\ Root \in Node /\ Node \cap Group = {}
  /\ MembersOf \in [Node -> SUBSET (Node \cup Group)]
  /\ RoutesOf \in [Group -> SUBSET Candidate]
  /\ Keyed \subseteq Candidate /\ Replayable \subseteq Candidate /\ Refreshable \subseteq Candidate
  /\ Answer \subseteq AnswerType
  /\ Retention \in Nat \ {0} /\ MaxTime \in Nat
  /\ \A a \in Answer : a.continuity = "valid" => a.effect = "rejected"

\* A configuration is a finite document.
ASSUME FiniteAssumption == IsFiniteSet(Node) /\ IsFiniteSet(Group) /\ IsFiniteSet(Candidate)

Safety == {"before_dispatch", "confirmed_rejection_only", "scoped_idempotency_key",
           "unsafe_after_dispatch"}
ErrorClass == {"retryable", "cooldown", "auth", "capability", "terminal"}
NoAnswer == [effect |-> "unknown", retry |-> "never", refresh |-> FALSE,
             continuity |-> "none", terminal |-> FALSE]

VARIABLES
  safety,     \* replay safety of the operation
  pc,
  frames,     \* stack of executeNode calls: node and members left in its plan
  routes,     \* ranked candidates left in the current member
  class,      \* failureClass of the current member
  cand,       \* current candidate, in a set that is empty between attempts
  retried,    \* idempotencyRetried
  refreshed,
  first,      \* firstDispatch
  answer,     \* classified outcome of the last error answer
  lease,      \* selectedLease
  leases,     \* leases not released
  opened,     \* leases acquired so far
  admitted,   \* candidates holding an admission of the scheduler's gate
  attempts,   \* admissions made so far
  ctx,        \* live, cancelled by the client, or past the operation deadline
  log,        \* dispatches: attempt, candidate, key, time and known effect
  told,       \* observations given to the gate
  committed,  \* first client byte written
  result,
  now

walkVars == <<frames, routes, class>>
attemptVars == <<cand, retried, refreshed, first, answer>>
resourceVars == <<lease, leases, opened, admitted, attempts>>
envVars == <<ctx, now>>
historyVars == <<log, told, committed>>
vars == <<safety, pc, walkVars, attemptVars, resourceVars, envVars, historyVars, result>>

Current == CHOOSE c \in cand : TRUE
HasKey(c) == safety = "scoped_idempotency_key" /\ c \in Keyed
PermitsReplay == first # 0 /\ now - first < Retention

\* Mutant: an ambiguous answer is replayed like a rejection.
ReplaysAmbiguous(effect) ==
  safety = "confirmed_rejection_only" /\ effect # "accepted"

CanReplayAfterDispatch(effect) ==
  safety = "confirmed_rejection_only" /\ effect = "rejected"

\* Mutant: an attempt is replayed as long as its window is open.
ReplaysInWindow ==
  HasKey(Current) /\ Current \in Replayable /\ PermitsReplay

\* The one idempotent replay a keyed attempt may still make.
KeyedReplay ==
  HasKey(Current) /\ Current \in Replayable /\ ~retried /\ PermitsReplay

(***************************************************************************)
(* Shared ends of an attempt.                                              *)
(***************************************************************************)
ReleaseCandidate ==
  /\ leases' = leases \ {lease}
  /\ admitted' = admitted \ cand
  /\ UNCHANGED <<lease, opened, attempts>>

Return(r) ==
  /\ pc' = "returned" /\ result' = r
  /\ UNCHANGED <<walkVars, attemptVars>>

\* Mutant: the next attempt starts without selecting a candidate.
TryAgain(c) ==
  /\ pc' = "credential" /\ class' = c /\ cand' = {}
  /\ UNCHANGED <<frames, routes, retried, refreshed, first, answer, result>>

\* The "continue" of the candidate loop.
TryNext(c) ==
  /\ pc' = "candidate" /\ class' = c /\ cand' = {}
  /\ UNCHANGED <<frames, routes, retried, refreshed, first, answer, result>>

Observe(cause) ==
  told' = Append(told, [attempt |-> attempts, cause |-> cause, ctx |-> ctx])

\* Every built-in strategy stops at a terminal failure only.
OnFailure(c) == IF c = "terminal" THEN "stop" ELSE "continue"

(***************************************************************************)
(* The walk over nodes, members and candidates.                            *)
(***************************************************************************)
\* Scheduler.Plan: fallback strategies keep all members, round robin one.
Plans(n) == {MembersOf[n]} \cup {{m} : m \in MembersOf[n]}

OnStack(n) == \E i \in DOMAIN frames : frames[i].node = n

Top == frames[Len(frames)]
Pop == SubSeq(frames, 1, Len(frames) - 1)

\* The executeNode call ends with ErrNoRoute; its parent treats that as a
\* retryable failure of the member.
NodeFails ==
  /\ frames' = Pop
  /\ IF Len(frames) = 1
     THEN pc' = "returned" /\ result' = "no_route"
     ELSE pc' = "node" /\ UNCHANGED result
  /\ UNCHANGED <<routes, class, attemptVars>>

NodeExhausted ==
  /\ pc = "node" /\ Top.left = {}
  /\ NodeFails
  /\ UNCHANGED <<safety, resourceVars, envVars, historyVars>>

\* Mutant: a child that failed stays in the plan of its parent.
ReenterChild(n) ==
  /\ pc = "node" /\ ctx = "live" /\ n \in Top.left \cap Node /\ ~OnStack(n)
  /\ \E plan \in Plans(n) : frames' = Append(frames, [node |-> n, left |-> plan])
  /\ UNCHANGED <<safety, pc, routes, class, attemptVars, resourceVars, envVars, historyVars,
                 result>>

EnterChild(n) ==
  /\ pc = "node" /\ ctx = "live" /\ n \in Top.left \cap Node /\ ~OnStack(n)
  /\ \E plan \in Plans(n) :
       frames' = Append([frames EXCEPT ![Len(frames)].left = @ \ {n}], [node |-> n, left |-> plan])
  /\ UNCHANGED <<safety, pc, routes, class, attemptVars, resourceVars, envVars, historyVars,
                 result>>

EnterGroup(g) ==
  /\ pc = "node" /\ ctx = "live" /\ g \in Top.left \cap Group
  /\ frames' = [frames EXCEPT ![Len(frames)].left = @ \ {g}]
  /\ routes' \in SUBSET RoutesOf[g]
  /\ class' = "retryable" /\ pc' = "candidate"
  /\ UNCHANGED <<safety, attemptVars, resourceVars, envVars, historyVars, result>>

\* The context check before a member, an unknown child, a model cycle, or a
\* transform or session restore that fails.
WalkError ==
  /\ \/ pc = "node" /\ Top.left # {} /\ (ctx # "live" \/ Top.left \cap Node # {})
     \/ pc = "candidate" /\ routes # {}
  /\ Return("error")
  /\ UNCHANGED <<safety, resourceVars, envVars, historyVars>>

MemberExhausted ==
  /\ pc = "candidate" /\ routes = {}
  /\ IF OnFailure(class) = "stop" THEN NodeFails
     ELSE pc' = "node" /\ UNCHANGED <<walkVars, attemptVars, result>>
  /\ UNCHANGED <<safety, resourceVars, envVars, historyVars>>

\* Ineligible, incompatible or refused by the gate.
SkipCandidate(c) ==
  /\ pc = "candidate" /\ c \in routes
  /\ routes' = routes \ {c}
  /\ class' \in {class, "capability", "cooldown"}
  /\ UNCHANGED <<safety, pc, frames, attemptVars, resourceVars, envVars, historyVars, result>>

Admit(c) ==
  /\ pc = "candidate" /\ c \in routes
  /\ routes' = routes \ {c}
  /\ cand' = {c} /\ admitted' = admitted \cup {c} /\ attempts' = attempts + 1
  /\ retried' = FALSE /\ refreshed' = FALSE /\ first' = 0 /\ answer' = NoAnswer
  /\ pc' = "credential"
  /\ UNCHANGED <<safety, frames, class, lease, leases, opened, envVars, historyVars, result>>

(***************************************************************************)
(* Credential, preparation and dispatch of one attempt.                    *)
(***************************************************************************)
AcquireCredential ==
  /\ pc = "credential"
  /\ opened' = opened + 1 /\ lease' = opened + 1 /\ leases' = leases \cup {opened + 1}
  /\ pc' = "prepare"
  /\ UNCHANGED <<safety, walkVars, attemptVars, admitted, attempts, envVars, historyVars, result>>

CredentialUnavailable ==
  /\ pc = "credential"
  /\ admitted' = admitted \ cand
  /\ TryNext("auth")
  /\ UNCHANGED <<safety, lease, leases, opened, attempts, envVars, historyVars>>

\* The lease is granted and cannot be borrowed any more.
BorrowFails ==
  /\ pc = "credential"
  /\ opened' = opened + 1 /\ lease' = opened + 1
  /\ admitted' = admitted \ cand
  /\ Return("error")
  /\ UNCHANGED <<safety, leases, attempts, envVars, historyVars>>

\* Immediately before dispatch the context, the framing of the replay, the
\* lease's authority or the retention window no longer holds.
DispatchRefused ==
  /\ pc = "dispatch"
  /\ ReleaseCandidate
  /\ Return("error") \/ (retried /\ Return("suppressed"))
  /\ UNCHANGED <<safety, envVars, historyVars>>

PrepareFails ==
  /\ pc = "prepare"
  /\ ReleaseCandidate
  /\ IF retried THEN Return("suppressed")
     ELSE \E c \in {"retryable"} \cup (IF refreshed THEN {} ELSE {"capability"}) : TryNext(c)
  /\ UNCHANGED <<safety, envVars, historyVars>>

Prepare ==
  /\ pc = "prepare" /\ pc' = "dispatch"
  /\ UNCHANGED <<safety, walkVars, attemptVars, resourceVars, envVars, historyVars, result>>

Dispatch ==
  /\ pc = "dispatch" /\ ctx = "live"
  /\ retried => PermitsReplay
  /\ log' = Append(log, [attempt |-> attempts, cand |-> Current, keyed |-> HasKey(Current),
                         at |-> now, effect |-> "unknown"])
  /\ first' = IF HasKey(Current) /\ first = 0 THEN now ELSE first
  /\ pc' = "await"
  /\ UNCHANGED <<safety, walkVars, cand, retried, refreshed, answer, resourceVars, envVars,
                 told, committed, result>>

(***************************************************************************)
(* Answers.                                                                *)
(***************************************************************************)
LearnEffect(effect) == log' = [log EXCEPT ![Len(log)].effect = effect]

\* "goto retryUpstream" with the prepared replay.
ReplayWithKey ==
  /\ retried' = TRUE /\ pc' = "prepare"
  /\ UNCHANGED <<walkVars, cand, refreshed, first, answer, resourceVars, result>>

\* Mutant: a lost connection falls over to the next candidate.
TransportFailsOver ==
  Observe("network") /\ ReleaseCandidate /\ TryNext("retryable")

TransportGivesUp ==
  Observe("network") /\ ReleaseCandidate /\ Return("suppressed")

TransportError ==
  /\ pc = "await"
  /\ \/ /\ ctx # "live"
        /\ IF ctx = "deadline" THEN Observe("timeout") ELSE UNCHANGED told
        /\ ReleaseCandidate /\ Return("error")
     \/ /\ ctx = "live" /\ KeyedReplay
        /\ ReplayWithKey /\ UNCHANGED told
     \/ ctx = "live" /\ ~KeyedReplay /\ TransportGivesUp
  /\ UNCHANGED <<safety, envVars, log, committed>>

ErrorAnswer(a) ==
  /\ pc = "await"
  /\ LearnEffect(a.effect)
  /\ answer' = a
  /\ pc' = IF a.continuity # "none" THEN "continuity" ELSE "answered"
  /\ UNCHANGED <<safety, walkVars, cand, retried, refreshed, first, resourceVars, envVars,
                 told, committed, result>>

\* Malformed recovery, or the invalidation of the saved session fails: no
\* evidence. Otherwise the restart is reported. Nothing is replayed.
ContinuityReset ==
  /\ pc = "continuity"
  /\ UNCHANGED told \/ (answer.continuity = "valid" /\ Observe("continuity"))
  /\ ReleaseCandidate /\ Return("error")
  /\ UNCHANGED <<safety, envVars, log, committed>>

RetryAnswer ==
  KeyedReplay /\ answer.effect = "unknown" /\ answer.retry = "after"

CanRefresh ==
  /\ answer.refresh /\ Current \in Refreshable /\ ~refreshed
  /\ answer.effect # "accepted"
  /\ CanReplayAfterDispatch(answer.effect) \/ KeyedReplay

ReplayAnswer ==
  /\ pc = "answered" /\ RetryAnswer
  /\ ReplayWithKey
  /\ UNCHANGED <<safety, envVars, historyVars>>

\* Mutant: the replaced lease is forgotten.
KeepOldLease ==
  /\ opened' = opened + 1 /\ lease' = opened + 1
  /\ leases' = leases \cup {opened + 1}

ExchangeLease ==
  /\ opened' = opened + 1 /\ lease' = opened + 1
  /\ leases' = (leases \ {lease}) \cup {opened + 1}

RefreshCredential ==
  /\ pc = "answered" /\ ~RetryAnswer /\ CanRefresh
  /\ ExchangeLease
  /\ refreshed' = TRUE
  /\ retried' = (retried \/ HasKey(Current))
  /\ pc' = "prepare"
  /\ UNCHANGED <<safety, walkVars, cand, first, answer, admitted, attempts, envVars,
                 historyVars, result>>

\* Also after a refresh that failed or returned nothing new: a lease it
\* returned is released at once.
AnswerFails ==
  /\ pc = "answered" /\ ~RetryAnswer
  /\ Observe("status")
  /\ ReleaseCandidate
  /\ IF ~CanReplayAfterDispatch(answer.effect) THEN Return("suppressed")
     ELSE IF answer.terminal /\ OnFailure("terminal") = "stop" THEN Return("error")
     ELSE \E c \in ErrorClass \ {"terminal"} : TryNext(c)
  /\ UNCHANGED <<safety, envVars, log, committed>>

(***************************************************************************)
(* Rendering of an accepted answer.                                        *)
(***************************************************************************)
Accepted ==
  /\ pc = "await"
  /\ LearnEffect("accepted")
  /\ pc' = "render"
  /\ UNCHANGED <<safety, walkVars, attemptVars, resourceVars, envVars, told, committed,
                 result>>

Commit ==
  /\ pc = "render" /\ ctx = "live" /\ ~committed
  /\ committed' = TRUE
  /\ UNCHANGED <<safety, pc, walkVars, attemptVars, resourceVars, envVars, log, told,
                 result>>

\* Without a staged completion there is no success evidence.
RenderDone ==
  /\ pc = "render" /\ ctx = "live"
  /\ Observe("success") \/ UNCHANGED told
  /\ ReleaseCandidate /\ Return("ok")
  /\ UNCHANGED <<safety, envVars, log, committed>>

\* Mutant: a client that leaves counts against the provider.
BlameProvider(origin) ==
  IF origin = "provider" THEN Observe("stream") ELSE UNCHANGED told

RenderEvidence(origin) ==
  IF origin = "provider" /\ ctx # "cancelled" THEN Observe("stream") ELSE UNCHANGED told

RenderFails(origin) ==
  /\ pc = "render"
  /\ ctx # "live" \/ origin # "none"
  /\ RenderEvidence(origin)
  /\ ReleaseCandidate
  /\ Return(IF ctx # "live" \/ committed THEN "error" ELSE "suppressed")
  /\ UNCHANGED <<safety, envVars, log, committed>>

(***************************************************************************)
(* The client, the operation deadline and the clock.                       *)
(***************************************************************************)
Interrupt(how) ==
  /\ pc # "returned" /\ ctx = "live"
  /\ ctx' = how
  /\ UNCHANGED <<safety, pc, walkVars, attemptVars, resourceVars, now, historyVars, result>>

Tick ==
  /\ pc # "returned" /\ now < MaxTime
  /\ now' = now + 1
  /\ UNCHANGED <<safety, pc, walkVars, attemptVars, resourceVars, ctx, historyVars, result>>

Init ==
  /\ safety \in Safety
  /\ pc = "node"
  /\ \E plan \in Plans(Root) : frames = <<[node |-> Root, left |-> plan]>>
  /\ routes = {} /\ class = "retryable"
  /\ cand = {} /\ retried = FALSE /\ refreshed = FALSE /\ first = 0 /\ answer = NoAnswer
  /\ lease = 0 /\ leases = {} /\ opened = 0 /\ admitted = {} /\ attempts = 0
  /\ ctx = "live" /\ now = 1
  /\ log = <<>> /\ told = <<>> /\ committed = FALSE
  /\ result = "none"

Origin == {"none", "provider", "local"}

Walk ==
  \/ NodeExhausted
  \/ \E n \in Node : EnterChild(n)
  \/ \E g \in Group : EnterGroup(g)
  \/ WalkError
  \/ MemberExhausted
  \/ \E c \in Candidate : SkipCandidate(c)
  \/ \E c \in Candidate : Admit(c)

Attempt ==
  \/ AcquireCredential
  \/ CredentialUnavailable
  \/ BorrowFails
  \/ DispatchRefused
  \/ PrepareFails
  \/ Prepare
  \/ Dispatch
  \/ TransportError
  \/ \E a \in Answer : ErrorAnswer(a)
  \/ ContinuityReset
  \/ ReplayAnswer
  \/ RefreshCredential
  \/ AnswerFails
  \/ Accepted
  \/ Commit
  \/ RenderDone
  \/ \E origin \in Origin : RenderFails(origin)

Next ==
  \/ Walk
  \/ Attempt
  \/ \E how \in {"cancelled", "deadline"} : Interrupt(how)
  \/ Tick

\* Walk and Attempt are the statements of one goroutine, and the operation
\* deadline bounds every call it makes outside.
Spec == Init /\ [][Next]_vars /\ WF_vars(Walk \/ Attempt)

(***************************************************************************)
(* Properties.                                                             *)
(***************************************************************************)
PC == {"node", "candidate", "credential", "prepare", "dispatch", "await", "answered",
       "continuity", "render", "returned"}
Result == {"none", "ok", "no_route", "error", "suppressed"}
Dispatches == [attempt: Nat, cand: Candidate, keyed: BOOLEAN, at: Nat,
               effect: {"rejected", "unknown", "accepted"}]
Observations == [attempt: Nat, ctx: {"live", "cancelled", "deadline"},
                 cause: {"timeout", "network", "continuity", "status", "success", "stream"}]

\* Every variable keeps its type; an attempt under way has one candidate.
TypeOK ==
  /\ safety \in Safety /\ pc \in PC /\ result \in Result
  /\ frames \in Seq([node: Node, left: SUBSET (Node \cup Group)])
  /\ routes \subseteq Candidate /\ class \in ErrorClass
  /\ cand \subseteq Candidate
  /\ pc \notin {"node", "candidate", "returned"} => \E c \in Candidate : cand = {c}
  /\ retried \in BOOLEAN /\ refreshed \in BOOLEAN /\ first \in Nat
  /\ answer \in AnswerType
  /\ lease \in Nat /\ leases \subseteq Nat /\ opened \in Nat
  /\ admitted \subseteq Candidate /\ attempts \in Nat
  /\ ctx \in {"live", "cancelled", "deadline"} /\ now \in Nat
  /\ log \in Seq(Dispatches) /\ told \in Seq(Observations)
  /\ committed \in BOOLEAN

\* No request takes effect twice: between any two dispatches of one Execute
\* call, the earlier one was confirmed rejected, or it was not accepted and the
\* later one repeats it on the same route under the same idempotency key
\* within the provider's retention window.
EffectAtMostOnce ==
  \A i, j \in 1..Len(log) : i < j =>
    \/ log[i].effect = "rejected"
    \/ /\ log[i].effect # "accepted"
       /\ log[i].cand = log[j].cand /\ log[i].keyed /\ log[j].keyed
       /\ log[j].at - log[i].at < Retention

\* "No eligible route" tells the client that a retry is harmless: every
\* dispatch made before it was rejected by its upstream.
NoRouteMeansNoEffect ==
  result = "no_route" => \A i \in 1..Len(log) : log[i].effect = "rejected"

\* When Execute returns, every credential lease it acquired (also the ones a
\* refresh replaced) is released and no route admission is kept.
ResourcesReturned ==
  pc = "returned" => leases = {} /\ admitted = {}

\* One attempt gives the gate at most one observation, only after a dispatch
\* of its own, and success evidence only for the answer the upstream accepted
\* last; a cancelled client leaves evidence only of answers already complete.
EvidenceIsEarned ==
  /\ \A i, j \in 1..Len(told) : i # j => told[i].attempt # told[j].attempt
  /\ \A i \in 1..Len(told) : LET t == told[i] IN
       /\ \E d \in 1..Len(log) : log[d].attempt = t.attempt
       /\ t.cause \in {"success", "stream"} => log[Len(log)].effect = "accepted"
       /\ t.cause = "success" => result = "ok"
       /\ t.ctx = "cancelled" => t.cause \in {"status", "continuity"}

\* An admitted attempt is dispatched at most twice: a replay or a credential
\* refresh continues it once, and neither follows the other.
ContinuedOnce ==
  \A i, j \in 1..Len(log) : i + 2 <= j => log[i].attempt < log[j].attempt

\* Every Execute call returns: the walk over nested models, fallbacks,
\* refreshes and replays is finite.
Terminates == <>(pc = "returned")
====
