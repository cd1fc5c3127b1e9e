---- MODULE StopSequence ----
(***************************************************************************)
(* Requests, the session cache and the usage worker under the stop         *)
(* sequence of the daemon (Stop and the cleanup of Start in                *)
(* daemon/daemon.go, drainUsage in daemon/usage_persistence.go): the run   *)
(* context is cancelled, the HTTP servers wait for their handlers or give  *)
(* up, the kernel closes, usage drains within a budget, and the process    *)
(* ends when both workers have. A process may crash and start again.       *)
(***************************************************************************)
EXTENDS SessionCache, UsageAccounting

CONSTANT MaxRestarts

ASSUME StopAssumption == Attempt = Request /\ MaxRestarts \in Nat

VARIABLES
  stage,   \* "serving", "stopping", "draining" or "exited"
  gaveUp,  \* Shutdown stopped waiting for the handlers
  drained, \* history: the last store version when the session writer exited
  restarts

stageVars == <<stage, gaveUp, drained, restarts>>
vars == <<sessionVars, usageVars, stageVars>>

(***************************************************************************)
(* A request, from the load of its session to the end of its handler.      *)
(***************************************************************************)
\* A request loads its session and is dispatched. Requests that end before
\* their dispatch touch neither component.
Begin(r, k) ==
  /\ stage = "serving"
  /\ Load(r, k) /\ Open(r)
  /\ UNCHANGED stageVars

\* The answer was rendered: its state is saved before the attempt is reported.
Accepted(r) ==
  /\ attempt[r] = "open"
  /\ Enter(r, "saving")
  /\ UNCHANGED <<usageVars, stageVars>>

SaveState(r) == \E usable \in BOOLEAN : Save(r, usable) /\ UNCHANGED <<usageVars, stageVars>>

\* invalidateLoadedContinuity: an error status is reported before the state the
\* request loaded is invalidated; a stream whose last event rejects the state
\* invalidates it inside RenderResponse and is reported afterwards.
ContinuityInvalid(r) ==
  /\ attempt[r] \in {"open", "final"} /\ call[r].loaded # 0
  /\ Enter(r, "invalidating")
  /\ UNCHANGED <<usageVars, stageVars>>

InvalidateState(r) == Invalidate(r) /\ UNCHANGED <<usageVars, stageVars>>

StopWaiting(r) == Leave(r) /\ UNCHANGED <<usageVars, stageVars>>

\* finishSuccess after the save, or finish, of a stream after its invalidation.
\* The error status that is reported may have rejected the continuity of the
\* loaded state; otherwise a failed handler ends here.
Report(r) ==
  /\ Finish(r)
  /\ \/ call[r].at = "returned" /\ UNCHANGED call
     \/ call[r].at = "loaded" /\ Return(r)
     \/ call[r].at = "loaded" /\ call[r].loaded # 0 /\ UNCHANGED call
  /\ UNCHANGED <<memoryVars, rows, authority, ctxDone, expired, troubles, saved, floor, stageVars>>

\* The client of the request goes away.
Disconnect(r) ==
  /\ call[r].at \notin {"none", "returned"} /\ r \notin ctxDone
  /\ ctxDone' = ctxDone \cup {r} /\ Trouble
  /\ UNCHANGED <<memoryVars, rows, authority, call, expired, saved, floor, usageVars, stageVars>>

HandlerOver(r) ==
  \/ call[r].at = "none"
  \/ call[r].at = "returned" /\ attempt[r] # "open"

HandlerStep(r) ==
  \/ Accepted(r) \/ SaveState(r) \/ ContinuityInvalid(r) \/ InvalidateState(r)
  \/ StopWaiting(r) \/ Report(r)

(***************************************************************************)
(* The two workers.                                                        *)
(***************************************************************************)
Persist == WriteRow /\ UNCHANGED <<usageVars, stageVars>>

Answer == Acknowledge /\ UNCHANGED <<usageVars, stageVars>>

\* Mutant: the writer leaves its queue at the cancellation.
WriterLeaves == stage # "serving"

\* After the cancellation Run writes what is queued and returns.
WriterDone == stage # "serving" /\ writes = <<>>

WriterExits ==
  /\ writer = "running" /\ inflight = {} /\ WriterDone
  /\ writer' = "exited" /\ drained' = version
  /\ UNCHANGED <<version, entries, writes, inflight, rows, authority, call, ctxDone, expired,
                 troubles, saved, floor, usageVars, stage, gaveUp, restarts>>

Consume ==
  /\ Receive \/ SaveUsageEvent \/ ConsumerExits
  /\ UNCHANGED <<sessionVars, stageVars>>

(***************************************************************************)
(* Stop.                                                                   *)
(***************************************************************************)
BeginStop ==
  /\ stage = "serving"
  /\ stage' = "stopping"
  /\ ctxDone' = Request
  /\ UNCHANGED <<memoryVars, rows, authority, call, expired, troubles, saved, floor, usageVars,
                 gaveUp, drained, restarts>>

HandlersOver == \A r \in Request : HandlerOver(r)

\* The cleanup closes the kernel once the HTTP servers are down.
Cleanup == stage' = "draining" /\ CloseEvents /\ UNCHANGED <<sessionVars, drained, restarts>>

Shutdown == stage = "stopping" /\ HandlersOver /\ Cleanup /\ UNCHANGED gaveUp

\* The context of Stop ends before the handlers do.
GiveUp == stage = "stopping" /\ ~HandlersOver /\ Cleanup /\ gaveUp' = TRUE

\* Mutant: only the context of Stop ends the drain.
NoBudget == stage = "draining" /\ gaveUp

\* The budget of the drain, or the context of Stop, ends.
BudgetEnds == stage = "draining"

EndBudget == BudgetEnds /\ CancelPersistence /\ UNCHANGED <<sessionVars, stageVars>>

Exit ==
  /\ stage = "draining" /\ consumer = "exited" /\ writer = "exited"
  /\ stage' = "exited"
  /\ UNCHANGED <<sessionVars, usageVars, gaveUp, drained, restarts>>

\* A new process, after the old one has ended or crashed.
Restart ==
  /\ restarts < MaxRestarts
  /\ restarts' = restarts + 1
  /\ New /\ NewAccounting
  /\ stage' = "serving" /\ gaveUp' = FALSE /\ drained' = 0

StopStep == Shutdown \/ Exit

World ==
  /\ AuthorityChanges \/ \E v \in 1..version : Expire(v)
  /\ UNCHANGED <<usageVars, stageVars>>

Init ==
  /\ SessionInit /\ UsageInit
  /\ stage = "serving" /\ gaveUp = FALSE /\ drained = 0 /\ restarts = 0

Next ==
  \/ \E r \in Request : (\E k \in Session : Begin(r, k)) \/ HandlerStep(r) \/ Disconnect(r)
  \/ Persist \/ Answer \/ WriterExits \/ Consume
  \/ BeginStop \/ StopStep \/ GiveUp \/ EndBudget \/ Restart
  \/ World

\* A handler of a cancelled request ends, the writer writes, and the consumer
\* waits for a repository that answers in a cancelled context at the latest.
Fairness ==
  /\ \A r \in Request : WF_vars(r \in ctxDone /\ HandlerStep(r))
  /\ WF_vars(Persist \/ Answer \/ WriterExits)
  /\ WF_vars((persisting = "cancelled" \/ hand = {}) /\ Consume)
  /\ WF_vars(StopStep) /\ WF_vars(EndBudget)

Spec == Init /\ [][Next]_vars /\ Fairness

(***************************************************************************)
(* Properties.                                                             *)
(***************************************************************************)
WriteType == [session : Session, entry : EntryType, prior : EntryType,
              expected : Nat, by : Request \cup {"none"}]

\* The state is well formed; the cache and the two queues stay within their
\* bounds (Cache.maxEntries, the write queue, Kernel.Events).
TypeOK ==
  /\ entries \in [Session -> EntryType] /\ Cardinality(Occupied) <= MaxEntries
  /\ Len(writes) <= QueueSize /\ \A i \in DOMAIN writes : writes[i] \in WriteType
  /\ \A i \in inflight : i.write \in WriteType /\ i.ok \in BOOLEAN
  /\ rows \in [Session -> EntryType] /\ floor \in [Session -> 0..version]
  /\ \A r \in Request : call[r].loaded \in 0..version
  /\ Len(events) <= Buffer /\ hand \subseteq Attempt
  /\ tally \in [Attempt -> Seq(Fates)]
  /\ writer \in {"running", "exited"} /\ consumer \in {"running", "exited"}
  /\ stage \in {"serving", "stopping", "draining", "exited"}

\* The state a pending invalidation hides is still the stored one.
Hidden(k) ==
  {w \in {writes[i] : i \in DOMAIN writes} \cup {i.write : i \in {j \in inflight : ~j.ok}} :
     w.session = k /\ w.by # "none" /\ w.entry = entries[k]}

StoredState ==
  [k \in Session |->
     IF entries[k].usable THEN entries[k].version
     ELSE IF Hidden(k) # {} THEN (CHOOSE w \in Hidden(k) : TRUE).prior.version
     ELSE 0]

AskedInvalidations ==
  {[session |-> w.session, expected |-> w.expected, version |-> w.entry.version] :
     w \in {writes[i] : i \in {j \in DOMAIN writes : writes[j].by # "none"}}}

Promise ==
  INSTANCE SessionStore WITH
    MaxVersion <- Cardinality(Session), stored <- StoredState, asked <- AskedInvalidations

\* The cache with its queue, its writer, restarts and disk errors implements
\* the store every adapter is written against (kernel.SessionStore).
ImplementsSessionStore == Promise!Spec

\* When Invalidate answered true, neither the cache nor the disk holds the
\* state the request had loaded, or an older one, in this process or later.
GoneIsGone ==
  \A r \in Request : call[r].gone =>
    \A e \in {entries[call[r].session], rows[call[r].session]} :
      e.usable => e.version > call[r].loaded

\* Every attempt that was reported is exactly once in the queue, in the
\* consumer's hand or in one of the counters of usage.Status.
CountedOnce ==
  \A a \in Attempt :
    Len(tally[a]) + Cardinality({i \in DOMAIN events : events[i] = a})
      + (IF a \in hand THEN 1 ELSE 0) = IF attempt[a] = "final" THEN 1 ELSE 0

\* When the process ends, no usage event is left behind and every write queued
\* before the session writer returned is answered. Only if Shutdown had stopped
\* waiting for the handlers, one of them is cut off, be it in its invalidation
\* or before its report, or had its event refused.
StoppedIsDrained ==
  stage = "exited" =>
    /\ events = <<>> /\ hand = {} /\ inflight = {}
    /\ \A i \in DOMAIN writes : writes[i].entry.version > drained
    /\ ~gaveUp => HandlersOver /\ \A a \in Attempt : tally[a] # <<"refused">>

\* Stop ends, whatever the handlers and the usage repository are doing, as
\* long as they end when their context does.
StopEnds == stage = "stopping" ~> stage \in {"exited", "serving"}

\* An invalidation is answered while the writer runs, and given up when its
\* write came too late for the writer.
InvalidationsAnswered ==
  \A r \in Request : call[r].at = "waiting" ~> call[r].at # "waiting"
====
