---- MODULE CredentialActivationProofs ----
(***************************************************************************)
(* Proofs about CredentialActivation, for any number of requests,          *)
(* attempts, changes and faults.                                           *)
(***************************************************************************)
EXTENDS CredentialActivation, TLAPS

Activator == {"worker", "admin"}

\* Who is inside an activation, a retry or an exchange holds the lock.
LockInv ==
  /\ act["edit"].at \in {"idle", "reload"}
  /\ act["worker"].at \in {"reset", "reload", "recheck", "save"} => lock = "worker"
  /\ act["worker"].at # "retry"
  /\ act["admin"].at \in {"idle", "read", "retry", "reset", "reload", "recheck", "save"}
  /\ act["admin"].at # "idle" => lock = "admin"
  /\ \A r \in Request : req[r].at = "exchange" => lock = "request"
  /\ \A r, s \in Request : req[r].at = "exchange" /\ req[s].at = "exchange" => r = s

\* A row that is pending has attempts left, and so has the worker while it
\* is at work or its timer is armed.
BudgetInv ==
  /\ job.status = "pending" => job.attempts < MaxAttempts
  /\ \A a \in Actor : act[a].at = "save" /\ act[a].job.status = "pending" =>
       act[a].job.attempts < MaxAttempts
  /\ worker.tick # "off" \/ act["worker"].at # "idle" => worker.failures < MaxAttempts

\* The snapshot of a reload is published for the actor that waits for it, and
\* is the live one as long as the credential it was called for is.
ReloadInv ==
  /\ reload.at # "free" => reload.by \in Actor /\ act[reload.by].at = "reload"
  /\ reload.at \in {"free", "hook"} => gates = serving
  /\ reload.at = "publish" => gates = reload.snapshot
  /\ \A a \in Activator : reload.by = a /\ reload.at # "free" /\ MatchesLive(act[a].job) =>
       reload.snapshot = live.principal

\* The live credential is executed, and a reload under way does not change it.
Published ==
  serving = live.principal /\ (reload.at # "free" => reload.snapshot = live.principal)

\* An active row, saved or about to be, that matches the live credential.
ActiveInv ==
  /\ job.status = "active" /\ MatchesLive(job) => job.reset /\ Published
  /\ \A a \in Activator :
       /\ act[a].at = "reset" => act[a].job.status = "pending"
       /\ act[a].at = "reload" => act[a].job.reset
       /\ act[a].at \in {"recheck", "save"} /\ act[a].job.status = "active"
            /\ MatchesLive(act[a].job) => act[a].job.reset /\ Published

\* A prepared lease is bound to its material; the live principal is the one of
\* the route while the live revision is the binding.
LeaseInv ==
  \A r \in Request : req[r].at = "prepared" =>
    /\ req[r].binding = req[r].material
    /\ live.revision = req[r].binding => live.principal = req[r].route

\* The live revision is spent only while its exchange runs.
SpentInv ==
  live.revision \in spent =>
    \E r \in Request : req[r].at = "exchange" /\ req[r].material = live.revision

IInv ==
  /\ TypeOK /\ LockInv /\ BudgetInv /\ ReloadInv /\ ActiveInv /\ LeaseInv /\ SpentInv

LEMMA InitIInv == ASSUME ActivationAssumption, Init PROVE IInv
  BY DEF ActivationAssumption, Init, RowsInit, IInv, TypeOK, LockInv, BudgetInv, ReloadInv,
     ActiveInv, LeaseInv, SpentInv, Row, Stamp, Activation, Leased, Loop, Reloading, Idle, NoJob,
     Started, NoSetup, NoReload, NoLease, Transition, Status, Actor, Activator, Request

(***************************************************************************)
(* Types.                                                                  *)
(***************************************************************************)
Points == {"idle", "read", "reset", "reload", "recheck", "save", "settle", "retry"}

\* Revisions only grow, so what is typed stays typed.
LEMMA StampsGrow ==
  ASSUME issued \in Nat, issued' \in Nat, issued <= issued'
  PROVE  /\ Stamp \subseteq Stamp' /\ Row \subseteq Row' /\ Leased \subseteq Leased'
         /\ Activation \subseteq Activation' /\ Reloading \subseteq Reloading'
  <1>1. Stamp \subseteq Stamp' BY DEF Stamp
  <1>2. Row \subseteq Row' BY <1>1 DEF Row
  <1>3. Leased \subseteq Leased' BY <1>1 DEF Leased
  <1>4. Activation \subseteq Activation' BY <1>2 DEF Activation
  <1>5. Reloading \subseteq Reloading' BY <1>1 DEF Reloading
  <1> QED BY <1>1, <1>2, <1>3, <1>4, <1>5

\* It is enough to type a step with the revisions issued before it.
LEMMA TypeStep ==
  ASSUME TypeOK, issued' \in Nat, issued <= issued',
         live' \in [enabled : BOOLEAN, revision : 1..issued', principal : 1..issued'],
         job' \in Row', lock' \in {"free", "worker", "admin", "request"},
         act' \in [Actor -> Activation'], worker' \in Loop,
         setup' \in [revision : Stamp, principal : Stamp], reload' \in Reloading,
         serving' \in Stamp, gates' \in Stamp, req' \in [Request -> Leased'],
         spent' \subseteq 1..issued,
         changes' \in 0..MaxChanges, faults' \in 0..MaxFaults
  PROVE  TypeOK'
  <1>1. Stamp \subseteq Stamp' /\ Reloading \subseteq Reloading'
    BY StampsGrow DEF TypeOK
  <1>2. setup' \in [revision : Stamp', principal : Stamp'] BY <1>1
  <1>3. spent' \subseteq 1..issued' /\ issued' \in Nat \ {0} BY DEF TypeOK
  <1> QED BY <1>1, <1>2, <1>3 DEF TypeOK, Loop

LEMMA NoJobTyped == ASSUME ActivationAssumption, TypeOK PROVE NoJob \in Row
  BY DEF ActivationAssumption, TypeOK, NoJob, Row, Stamp, Transition, Status

\* What Go does to the actors.
LEMMA GoEffect ==
  ASSUME TypeOK, NEW a \in Actor, NEW at \in Points, NEW j \in Row, NEW failed \in BOOLEAN,
         Go(a, at, j, failed)
  PROVE  /\ act' \in [Actor -> Activation]
         /\ act'[a].at = at /\ act'[a].job = j
         /\ \A b \in Actor \ {a} : act'[b] = act[b]
  BY DEF TypeOK, Go, Points, Activation

\* The loop of the worker after a batch.
LEMMA SettledEffect ==
  ASSUME ActivationAssumption, NEW w \in Loop, w.failures < MaxAttempts, NEW failed \in BOOLEAN
  PROVE  /\ Settled(w, failed) \in Loop
         /\ Settled(w, failed).tick # "off" => Settled(w, failed).failures < MaxAttempts
  <1>1. CASE failed
    <2>1. Settled(w, failed) = [tick |-> IF w.failures + 1 >= MaxAttempts THEN "off" ELSE "soon",
                                wake |-> w.wake, failures |-> w.failures + 1]
      BY <1>1 DEF Settled, Loop
    <2> QED BY <2>1 DEF ActivationAssumption, Loop
  <1>2. CASE ~failed
    <2>1. Settled(w, failed) = [tick |-> IF job.status = "pending" THEN "next" ELSE "off",
                                wake |-> w.wake, failures |-> 0]
      BY <1>2 DEF Settled, Loop
    <2> QED BY <2>1 DEF ActivationAssumption, Loop
  <1> QED BY <1>1, <1>2

(***************************************************************************)
(* Steps that leave the reload alone.                                      *)
(***************************************************************************)
\* A changed live credential has a revision that nobody knows.
Fresh ==
  \/ UNCHANGED <<live, issued>>
  \/ /\ issued' = issued + 1 /\ live'.revision = issued'
     /\ live' \in [enabled : BOOLEAN, revision : 1..issued', principal : 1..issued']

\* The row is a new one, or written by an activation.
RowStep ==
  job'.status = "active" =>
    \/ job.status = "active" /\ job'.reset = job.reset
       /\ job'.revision = job.revision /\ job'.principal = job.principal
    \/ \E a \in Activator : act[a].at = "save" /\ job' = act[a].job

\* An activation goes on without an end of its reload.
ActorStep ==
  \A a \in Actor :
    /\ act[a].at = "reload" => act'[a] = act[a]
    /\ act'[a].at = "reset" /\ a \in Activator => act'[a].job.status = "pending"
    /\ act'[a].at = "reload" /\ a \in Activator => act'[a].job.reset
    /\ act'[a].at \in {"recheck", "save"} /\ act'[a].job.status = "active" =>
         /\ act[a].at \in {"recheck", "save"} /\ act[a].job.status = "active"
         /\ act'[a].job.reset = act[a].job.reset
         /\ act'[a].job.revision = act[a].job.revision
         /\ act'[a].job.principal = act[a].job.principal

CalmStep == UNCHANGED reloadVars /\ Fresh /\ RowStep /\ ActorStep

\* A row that matches the live credential after a step matched it before.
LEMMA MatchesBefore ==
  ASSUME TypeOK, Fresh, NEW j \in Row,
         live'.enabled, live'.revision = j.revision, live'.principal = j.principal
  PROVE  live' = live /\ MatchesLive(j)
  <1>1. j.revision <= issued BY DEF TypeOK, Row, Stamp
  <1> QED BY <1>1 DEF Fresh, MatchesLive, TypeOK

LEMMA CalmKeepsReload ==
  ASSUME TypeOK, TypeOK', ReloadInv, CalmStep
  PROVE  ReloadInv'
  <1> USE DEF CalmStep, reloadVars
  <1>1. (reload.at # "free" => reload.by \in Actor /\ act[reload.by].at = "reload")'
    BY DEF ReloadInv, ActorStep
  <1>2. ASSUME NEW a \in Activator, reload.by = a, reload.at # "free", MatchesLive(act[a].job)'
        PROVE  reload.snapshot = live'.principal
    <2>1. act'[a] = act[a] /\ act[a].job \in Row
      BY <1>2 DEF ReloadInv, ActorStep, TypeOK, Activation, Activator, Actor
    <2>2. live' = live /\ MatchesLive(act[a].job)
      BY <1>2, <2>1, MatchesBefore DEF MatchesLive
    <2> QED BY <1>2, <2>2 DEF ReloadInv
  <1> QED BY <1>1, <1>2 DEF ReloadInv

LEMMA CalmKeepsActive ==
  ASSUME TypeOK, TypeOK', ActiveInv, CalmStep
  PROVE  ActiveInv'
  <1> USE DEF CalmStep, reloadVars
  <1>1. ASSUME live' = live, Published PROVE Published'
    BY <1>1 DEF Published
  <1>2. ASSUME NEW a \in Activator, act'[a].at \in {"recheck", "save"},
               act'[a].job.status = "active", MatchesLive(act[a].job)'
        PROVE  act'[a].job.reset /\ Published'
    <2>1. /\ act[a].at \in {"recheck", "save"} /\ act[a].job.status = "active"
          /\ act[a].job \in Row /\ act'[a].job.reset = act[a].job.reset
          /\ act'[a].job.revision = act[a].job.revision
          /\ act'[a].job.principal = act[a].job.principal
      BY <1>2 DEF ActorStep, TypeOK, Activation, Activator, Actor
    <2>2. live' = live /\ MatchesLive(act[a].job)
      BY <1>2, <2>1, MatchesBefore DEF MatchesLive
    <2> QED BY <1>1, <2>1, <2>2 DEF ActiveInv
  <1>3. ASSUME job'.status = "active", MatchesLive(job)' PROVE job'.reset /\ Published'
    <2>1. CASE /\ job.status = "active" /\ job'.reset = job.reset
               /\ job'.revision = job.revision /\ job'.principal = job.principal
      <3>1. live' = live /\ MatchesLive(job)
        BY <1>3, <2>1, MatchesBefore DEF MatchesLive, TypeOK
      <3> QED BY <1>1, <2>1, <3>1 DEF ActiveInv
    <2>2. CASE \E a \in Activator : act[a].at = "save" /\ job' = act[a].job
      <3>1. PICK a \in Activator : act[a].at = "save" /\ job' = act[a].job BY <2>2
      <3>2. act[a].job \in Row BY DEF TypeOK, Activation, Activator, Actor
      <3>3. live' = live /\ MatchesLive(act[a].job)
        BY <1>3, <3>1, <3>2, MatchesBefore DEF MatchesLive
      <3> QED BY <1>1, <1>3, <3>1, <3>3 DEF ActiveInv
    <2> QED BY <1>3, <2>1, <2>2 DEF RowStep
  <1>4. \A a \in Activator : /\ act'[a].at = "reset" => act'[a].job.status = "pending"
                             /\ act'[a].at = "reload" => act'[a].job.reset
    BY DEF ActorStep, Activator, Actor
  <1> QED BY <1>2, <1>3, <1>4 DEF ActiveInv

LEMMA FreshKeepsLeases ==
  ASSUME TypeOK, LeaseInv, SpentInv, Fresh, UNCHANGED <<req, spent>>
  PROVE  LeaseInv' /\ SpentInv'
  <1>1. ASSUME NEW r \in Request, req[r].at = "prepared", live'.revision = req[r].binding
        PROVE  live'.principal = req[r].route
    <2>1. req[r].binding <= issued BY DEF TypeOK, Leased, Stamp
    <2> QED BY <1>1, <2>1 DEF Fresh, LeaseInv, TypeOK
  <1>2. live'.revision \in spent => live' = live BY DEF Fresh, TypeOK
  <1> QED BY <1>1, <1>2 DEF LeaseInv, SpentInv

\* The bounds count up to their limits.
LEMMA BoundsKept ==
  ASSUME ActivationAssumption, TypeOK, Change \/ Fault \/ UNCHANGED boundVars
  PROVE  changes' \in 0..MaxChanges /\ faults' \in 0..MaxFaults
  BY DEF ActivationAssumption, TypeOK, Change, Fault, boundVars

\* A calm step that leaves the leases alone.
LEMMA CalmKeeps ==
  ASSUME IInv, TypeOK', LockInv', BudgetInv', CalmStep, UNCHANGED <<req, spent>>
  PROVE  IInv'
  BY CalmKeepsReload, CalmKeepsActive, FreshKeepsLeases DEF IInv, CalmStep

LEMMA StampsKept ==
  ASSUME issued' = issued
  PROVE  /\ Stamp' = Stamp /\ Row' = Row /\ Leased' = Leased
         /\ Activation' = Activation /\ Reloading' = Reloading
  BY DEF Stamp, Row, Leased, Activation, Reloading

(***************************************************************************)
(* The worker and the activation.                                          *)
(***************************************************************************)
LEMMA ScanKeeps == ASSUME ActivationAssumption, IInv, Scan PROVE IInv'
  <1>1. UNCHANGED <<rowVars, lock, setup, reloadVars, leaseVars>> BY DEF Scan
  <1>2. act["worker"].at = "idle" BY DEF Scan
  <1>3. /\ act' \in [Actor -> Activation]
        /\ act'["worker"].at \in {"idle", "read"}
        /\ \A b \in Actor \ {"worker"} : act'[b] = act[b]
    BY <1>2, GoEffect DEF Scan, IInv, TypeOK, Points, Actor
  <1>4. changes' \in 0..MaxChanges /\ faults' \in 0..MaxFaults
    BY BoundsKept DEF Scan, IInv
  <1>5. /\ worker' \in Loop
        /\ worker'.tick # "off" \/ act'["worker"].at # "idle" => worker'.failures < MaxAttempts
    <2> DEFINE awake ==
                 IF worker.wake THEN [worker EXCEPT !.wake = FALSE, !.failures = 0] ELSE worker
    <2>1. awake \in Loop /\ awake.failures < MaxAttempts
      <3>1. CASE worker.wake
        <4>1. awake = [tick |-> worker.tick, wake |-> FALSE, failures |-> 0]
          BY <3>1 DEF IInv, TypeOK, Loop
        <4>2. worker.tick \in {"off", "soon", "next"} BY DEF IInv, TypeOK, Loop
        <4> HIDE DEF awake
        <4> QED BY <4>1, <4>2 DEF ActivationAssumption, Loop
      <3>2. CASE ~worker.wake
        <4>1. worker.tick # "off" BY <3>2 DEF Scan, TimerFires
        <4> QED BY <3>2, <4>1 DEF IInv, TypeOK, BudgetInv
      <3> QED BY <3>1, <3>2
    <2>2. \/ worker' = awake
          \/ worker' = Settled(awake, FALSE) /\ act' = act
          \/ worker' = Settled(awake, TRUE) /\ act' = act
      BY DEF Scan
    <2> HIDE DEF awake
    <2> QED BY <1>2, <2>1, <2>2, SettledEffect
  <1>6. TypeOK'
    BY <1>1, <1>3, <1>4, <1>5, TypeStep, StampsKept DEF IInv, TypeOK, rowVars, reloadVars, leaseVars
  <1>7. CalmStep
    BY <1>1, <1>2, <1>3
    DEF CalmStep, Fresh, RowStep, ActorStep, rowVars, IInv, ActiveInv, Activator, Actor
  <1>8. LockInv' /\ BudgetInv'
    BY <1>1, <1>3, <1>5 DEF IInv, LockInv, BudgetInv, rowVars, leaseVars, Actor
  <1> QED BY <1>1, <1>6, <1>7, <1>8, CalmKeeps DEF leaseVars

LEMMA SettleKeeps == ASSUME ActivationAssumption, IInv, Settle PROVE IInv'
  <1>1. UNCHANGED <<rowVars, lock, setup, reloadVars, leaseVars>> BY DEF Settle
  <1>2. act["worker"].at = "settle" BY DEF Settle
  <1>3. /\ act' \in [Actor -> Activation]
        /\ act'["worker"].at = "idle"
        /\ \A b \in Actor \ {"worker"} : act'[b] = act[b]
    BY GoEffect, NoJobTyped DEF Settle, IInv, Points, Actor
  <1>4. changes' \in 0..MaxChanges /\ faults' \in 0..MaxFaults
    BY BoundsKept DEF Settle, IInv
  <1>5. worker' \in Loop /\ (worker'.tick # "off" => worker'.failures < MaxAttempts)
    <2>1. worker \in Loop /\ worker.failures < MaxAttempts /\ act["worker"].failed \in BOOLEAN
      BY <1>2 DEF IInv, TypeOK, BudgetInv, Activation, Actor
    <2> QED BY <2>1, SettledEffect DEF Settle
  <1>6. TypeOK'
    BY <1>1, <1>3, <1>4, <1>5, TypeStep, StampsKept DEF IInv, TypeOK, rowVars, reloadVars, leaseVars
  <1>7. CalmStep
    BY <1>1, <1>2, <1>3
    DEF CalmStep, Fresh, RowStep, ActorStep, rowVars, IInv, ActiveInv, Activator, Actor
  <1>8. LockInv' /\ BudgetInv'
    BY <1>1, <1>3, <1>5 DEF IInv, LockInv, BudgetInv, rowVars, leaseVars, Actor
  <1> QED BY <1>1, <1>6, <1>7, <1>8, CalmKeeps DEF leaseVars

LEMMA AttemptFallsDueKeeps == ASSUME ActivationAssumption, IInv, AttemptFallsDue PROVE IInv'
  <1>1. UNCHANGED <<live, issued, activationVars, reloadVars, leaseVars, boundVars>>
    BY DEF AttemptFallsDue
  <1>2. /\ job' \in Row /\ job'.status = job.status /\ job'.attempts = job.attempts
        /\ job'.reset = job.reset /\ job'.revision = job.revision /\ job'.principal = job.principal
    BY DEF AttemptFallsDue, IInv, TypeOK, Row
  <1>3. TypeOK'
    BY <1>1, <1>2, TypeStep, StampsKept
    DEF IInv, TypeOK, activationVars, reloadVars, leaseVars, boundVars
  <1>4. CalmStep
    BY <1>1, <1>2
    DEF CalmStep, Fresh, RowStep, ActorStep, activationVars, IInv, ActiveInv, Activator, Actor
  <1>5. LockInv' /\ BudgetInv'
    BY <1>1, <1>2 DEF IInv, LockInv, BudgetInv, activationVars, leaseVars
  <1> QED BY <1>1, <1>3, <1>4, <1>5, CalmKeeps DEF leaseVars

\* An activation ends and gives the lock back.
LEMMA ReleaseEffect ==
  ASSUME ActivationAssumption, IInv, NEW a \in Activator, NEW failed \in BOOLEAN,
         act[a].at \in {"read", "save"}, Release(a, failed)
  PROVE  /\ act' \in [Actor -> Activation] /\ lock' = "free"
         /\ act'[a].at \in {"idle", "settle"} /\ (a = "admin" => act'[a].at = "idle")
         /\ \A b \in Actor \ {a} : act'[b] = act[b]
         /\ worker' \in Loop
         /\ worker'.tick = worker.tick /\ worker'.failures = worker.failures
  <1>1. /\ act' \in [Actor -> Activation]
        /\ act'[a].at = IF a = "worker" THEN "settle" ELSE "idle"
        /\ \A b \in Actor \ {a} : act'[b] = act[b]
    <2>1. Go(a, IF a = "worker" THEN "settle" ELSE "idle", NoJob, a = "worker" /\ failed)
      BY DEF Release
    <2>2. /\ (IF a = "worker" THEN "settle" ELSE "idle") \in Points
          /\ (a = "worker" /\ failed) \in BOOLEAN
      BY DEF Points
    <2>3. TypeOK /\ a \in Actor /\ NoJob \in Row
      BY NoJobTyped DEF IInv, Activator, Actor
    <2> QED BY <2>1, <2>2, <2>3, GoEffect, Zenon
  <1>2. /\ worker' \in Loop
        /\ worker'.tick = worker.tick /\ worker'.failures = worker.failures
    BY DEF Release, IInv, TypeOK, Loop
  <1> QED BY <1>1, <1>2 DEF Release, Activator

\* A step of an activation that keeps what it knows of the row.
LEMMA ReadKeeps ==
  ASSUME ActivationAssumption, IInv, NEW a \in Activator, ReadActivation(a) PROVE IInv'
  <1> USE DEF Activator
  <1>1. /\ UNCHANGED <<rowVars, setup, reloadVars, leaseVars, boundVars>>
        /\ act[a].at = "read" /\ (a = "worker" => lock = "free")
    BY DEF ReadActivation
  <1>2. \/ Release(a, FALSE)
        \/ Advance(a, "save", [job EXCEPT !.status = "superseded"])
        \/ /\ job.status = "pending"
           /\ Advance(a, IF job.reset THEN "reload" ELSE "reset", [job EXCEPT !.attempts = @ + 1])
    BY DEF ReadActivation
  <1>3. ASSUME Advance(a, "save", [job EXCEPT !.status = "superseded"])
        PROVE  /\ act' \in [Actor -> Activation] /\ lock' = a /\ worker' = worker
               /\ act'[a].at = "save" /\ act'[a].job.status = "superseded"
               /\ \A b \in Actor \ {a} : act'[b] = act[b]
    <2> DEFINE j == [job EXCEPT !.status = "superseded"]
    <2>1. j \in Row /\ j.status = "superseded" BY DEF IInv, TypeOK, Row, Status
    <2>2. Go(a, "save", j, FALSE) /\ lock' = a /\ worker' = worker BY <1>3 DEF Advance
    <2>3. TypeOK /\ a \in Actor /\ "save" \in Points /\ FALSE \in BOOLEAN
      BY DEF IInv, Actor, Points
    <2> HIDE DEF j
    <2>4. /\ act' \in [Actor -> Activation] /\ act'[a].at = "save" /\ act'[a].job = j
          /\ \A b \in Actor \ {a} : act'[b] = act[b]
      BY <2>1, <2>2, <2>3, GoEffect, Zenon
    <2> QED BY <2>1, <2>2, <2>4
  <1>4. ASSUME job.status = "pending",
               Advance(a, IF job.reset THEN "reload" ELSE "reset", [job EXCEPT !.attempts = @ + 1])
        PROVE  /\ act' \in [Actor -> Activation] /\ lock' = a /\ worker' = worker
               /\ act'[a].at \in {"reset", "reload"}
               /\ act'[a].job.status = "pending"
               /\ act'[a].at = "reload" => act'[a].job.reset
               /\ \A b \in Actor \ {a} : act'[b] = act[b]
    <2> DEFINE j == [job EXCEPT !.attempts = @ + 1]
               at == IF job.reset THEN "reload" ELSE "reset"
    <2>1. j \in Row /\ j.reset = job.reset /\ j.status = "pending"
      BY <1>4 DEF ActivationAssumption, IInv, TypeOK, BudgetInv, Row
    <2>2. Go(a, at, j, FALSE) /\ lock' = a /\ worker' = worker BY <1>4 DEF Advance
    <2>3. at \in Points /\ at \in {"reset", "reload"} /\ (at = "reload" => job.reset)
      BY DEF Points
    <2>4. TypeOK /\ a \in Actor /\ FALSE \in BOOLEAN BY DEF IInv, Actor
    <2> HIDE DEF j, at
    <2>5. /\ act' \in [Actor -> Activation] /\ act'[a].at = at /\ act'[a].job = j
          /\ \A b \in Actor \ {a} : act'[b] = act[b]
      BY <2>1, <2>2, <2>3, <2>4, GoEffect, Zenon
    <2> QED BY <2>1, <2>2, <2>3, <2>5
  <1>5. /\ act' \in [Actor -> Activation] /\ lock' \in {"free", "worker", "admin", "request"}
        /\ worker' \in Loop /\ worker'.tick = worker.tick /\ worker'.failures = worker.failures
    BY <1>1, <1>2, <1>3, <1>4, ReleaseEffect DEF IInv, TypeOK
  <1>6. TypeOK'
    BY <1>1, <1>5, TypeStep, StampsKept
    DEF IInv, TypeOK, rowVars, reloadVars, leaseVars, boundVars
  <1>7. CalmStep
    <2>1. ActorStep
      BY <1>1, <1>2, <1>3, <1>4, ReleaseEffect DEF ActorStep, IInv, ActiveInv, Actor
    <2> QED BY <1>1, <2>1 DEF CalmStep, Fresh, RowStep, rowVars
  <1>8. LockInv'
    BY <1>1, <1>2, <1>3, <1>4, ReleaseEffect DEF IInv, LockInv, leaseVars, Actor
  <1>9. BudgetInv'
    BY <1>1, <1>2, <1>3, <1>4, <1>5, ReleaseEffect DEF IInv, BudgetInv, rowVars, Actor
  <1> QED BY <1>1, <1>6, <1>7, <1>8, <1>9, CalmKeeps DEF leaseVars

\* An actor moves on with one row, under a lock that it keeps.
LEMMA MoveKeeps ==
  ASSUME ActivationAssumption, IInv, NEW a \in Activator, NEW at \in Points, NEW j \in Row,
         Go(a, at, j, FALSE),
         UNCHANGED <<rowVars, worker, setup, reloadVars, leaseVars>>,
         Change \/ Fault \/ UNCHANGED boundVars,
         lock' = a, lock \in {"free", a}, act[a].at \notin {"reload", "settle"},
         at \in {"reset", "reload", "recheck", "save"} \/ (a = "admin" /\ at \in {"read", "retry"}),
         a = "worker" => act[a].at # "idle",
         at = "reset" => j.status = "pending", at = "reload" => j.reset,
         at = "save" /\ j.status = "pending" => j.attempts < MaxAttempts,
         at \in {"recheck", "save"} /\ j.status = "active" =>
           /\ act[a].at \in {"recheck", "save"} /\ act[a].job.status = "active"
           /\ j.reset = act[a].job.reset /\ j.revision = act[a].job.revision
           /\ j.principal = act[a].job.principal
  PROVE  IInv'
  <1> USE DEF Activator
  <1>1. TypeOK /\ a \in Actor /\ FALSE \in BOOLEAN BY DEF IInv, Actor
  <1>2. /\ act' \in [Actor -> Activation] /\ act'[a].at = at /\ act'[a].job = j
        /\ \A b \in Actor \ {a} : act'[b] = act[b]
    BY <1>1, GoEffect, Zenon
  <1>3. changes' \in 0..MaxChanges /\ faults' \in 0..MaxFaults BY <1>1, BoundsKept
  <1>4. TypeOK'
    BY <1>2, <1>3, TypeStep, StampsKept DEF IInv, TypeOK, rowVars, reloadVars, leaseVars
  <1>5. CalmStep
    <2>1. ActorStep BY <1>2 DEF ActorStep, IInv, ActiveInv, Actor
    <2> QED BY <2>1 DEF CalmStep, Fresh, RowStep, rowVars
  <1>6. LockInv' BY <1>2 DEF IInv, LockInv, leaseVars, Actor
  <1>7. BudgetInv' BY <1>2 DEF IInv, BudgetInv, rowVars, Actor
  <1> QED BY <1>4, <1>5, <1>6, <1>7, CalmKeeps DEF leaseVars

LEMMA ResetRoutingKeeps ==
  ASSUME ActivationAssumption, IInv, NEW a \in Activator, ResetRouting(a) PROVE IInv'
  <1> USE DEF Activator
  <1> DEFINE j == act[a].job
             marked == [j EXCEPT !.reset = TRUE]
             stale == [j EXCEPT !.status = "superseded"]
  <1>1. j \in Row BY DEF IInv, TypeOK, Activation, Actor
  <1>2. /\ marked \in Row /\ marked.reset
        /\ stale \in Row /\ stale.status = "superseded"
    BY <1>1 DEF Row, Status
  <1>3. /\ UNCHANGED <<rowVars, lock, worker, setup, reloadVars, leaseVars>>
        /\ act[a].at = "reset" /\ (Fault \/ UNCHANGED boundVars)
    BY DEF ResetRouting
  <1>4. \/ Go(a, "reload", marked, FALSE) \/ Go(a, "recheck", stale, FALSE)
        \/ Go(a, "recheck", j, FALSE) /\ Fault
    BY DEF ResetRouting
  <1>5. lock = a BY <1>3 DEF IInv, LockInv
  <1>6. CASE Go(a, "reload", marked, FALSE)
    <2> HIDE DEF marked
    <2>1. "reload" \in Points BY DEF Points
    <2> QED BY <1>2, <1>3, <1>5, <1>6, <2>1, MoveKeeps
  <1>7. CASE Go(a, "recheck", stale, FALSE)
    <2> HIDE DEF stale
    <2>1. "recheck" \in Points BY DEF Points
    <2> QED BY <1>2, <1>3, <1>5, <1>7, <2>1, MoveKeeps
  <1>8. CASE Go(a, "recheck", j, FALSE)
    <2>1. "recheck" \in Points BY DEF Points
    <2>2. j.status = "pending" BY <1>3 DEF IInv, ActiveInv
    <2> HIDE DEF j
    <2> QED BY <1>1, <1>3, <1>5, <1>8, <2>1, <2>2, MoveKeeps
  <1> QED BY <1>4, <1>6, <1>7, <1>8

LEMMA RecheckKeeps ==
  ASSUME ActivationAssumption, IInv, NEW a \in Activator, Recheck(a) PROVE IInv'
  <1> USE DEF Activator
  <1> DEFINE j == act[a].job
             after == Rescheduled(j)
  <1>1. j \in Row BY DEF IInv, TypeOK, Activation, Actor
  <1>2. /\ UNCHANGED <<rowVars, lock, worker, setup, reloadVars, leaseVars, boundVars>>
        /\ act[a].at = "recheck" /\ Go(a, "save", after, FALSE)
    BY DEF Recheck
  <1>3. /\ after \in Row
        /\ after.status = "pending" => after.attempts < MaxAttempts
        /\ after.status = "active" =>
             /\ j.status = "active" /\ after.reset = j.reset
             /\ after.revision = j.revision /\ after.principal = j.principal
    <2>1. CASE ~MatchesLive(j)
      <3>1. after = [j EXCEPT !.status = "superseded"] BY <2>1 DEF Rescheduled
      <3> QED BY <1>1, <3>1 DEF Row, Status
    <2>2. CASE MatchesLive(j) /\ j.status = "pending" /\ j.attempts >= MaxAttempts
      <3>1. after = [j EXCEPT !.status = "exhausted", !.due = FALSE]
        BY <1>1, <2>2 DEF Rescheduled, Row, ActivationAssumption
      <3> QED BY <1>1, <3>1 DEF Row, Status
    <2>3. CASE MatchesLive(j) /\ j.status = "pending" /\ j.attempts < MaxAttempts
      <3>1. after = [j EXCEPT !.due = FALSE]
        BY <1>1, <2>3 DEF Rescheduled, Row, ActivationAssumption
      <3> QED BY <1>1, <2>3, <3>1 DEF Row
    <2>4. CASE MatchesLive(j) /\ j.status # "pending"
      BY <1>1, <2>4 DEF Rescheduled
    <2>5. j.attempts >= MaxAttempts \/ j.attempts < MaxAttempts
      BY <1>1 DEF Row, ActivationAssumption
    <2> QED BY <2>1, <2>2, <2>3, <2>4, <2>5
  <1>4. lock = a BY <1>2 DEF IInv, LockInv
  <1>5. "save" \in Points BY DEF Points
  <1> HIDE DEF after
  <1> QED BY <1>2, <1>3, <1>4, <1>5, MoveKeeps

\* The fenced save writes the row of the activation or nothing.
LEMMA SaveKeeps ==
  ASSUME ActivationAssumption, IInv, NEW a \in Activator, Save(a) PROVE IInv'
  <1> USE DEF Activator
  <1>1. act[a].at = "save" /\ act[a].job \in Row
    BY DEF Save, IInv, TypeOK, Activation, Actor
  <1>2. UNCHANGED <<live, issued, setup, reloadVars, leaseVars>> /\ (Fault \/ UNCHANGED boundVars)
    BY DEF Save
  <1>3. job' = job \/ job' = act[a].job BY DEF Save, SaveActivation
  <1>4. /\ act' \in [Actor -> Activation] /\ lock' = "free"
        /\ act'[a].at \in {"idle", "settle"} /\ (a = "admin" => act'[a].at = "idle")
        /\ \A b \in Actor \ {a} : act'[b] = act[b]
        /\ worker' \in Loop
        /\ worker'.tick = worker.tick /\ worker'.failures = worker.failures
    <2>1. Release(a, FALSE) \/ Release(a, TRUE) BY DEF Save
    <2> QED BY <1>1, <2>1, ReleaseEffect
  <1>5. changes' \in 0..MaxChanges /\ faults' \in 0..MaxFaults BY <1>2, BoundsKept DEF IInv
  <1>6. TypeOK'
    BY <1>1, <1>2, <1>3, <1>4, <1>5, TypeStep, StampsKept DEF IInv, TypeOK, reloadVars, leaseVars
  <1>7. CalmStep
    <2>1. ActorStep BY <1>1, <1>4 DEF ActorStep, IInv, ActiveInv, Actor
    <2>2. RowStep BY <1>1, <1>3 DEF RowStep
    <2> QED BY <1>2, <2>1, <2>2 DEF CalmStep, Fresh
  <1>8. LockInv' BY <1>1, <1>2, <1>4 DEF IInv, LockInv, leaseVars, Actor
  <1>9. BudgetInv' BY <1>1, <1>3, <1>4 DEF IInv, BudgetInv, Actor
  <1> QED BY <1>2, <1>6, <1>7, <1>8, <1>9, CalmKeeps DEF leaseVars

(***************************************************************************)
(* The administrator.                                                      *)
(***************************************************************************)
LEMMA RetryReadsKeeps == ASSUME ActivationAssumption, IInv, RetryReads PROVE IInv'
  <1>1. /\ "admin" \in Activator /\ "retry" \in Points /\ job \in Row
    BY DEF Activator, Points, IInv, TypeOK
  <1>2. /\ UNCHANGED <<rowVars, worker, setup, reloadVars, leaseVars>> /\ Change
        /\ Go("admin", "retry", job, FALSE) /\ lock' = "admin" /\ lock = "free"
        /\ act["admin"].at = "idle"
    BY DEF RetryReads
  <1> QED BY <1>1, <1>2, MoveKeeps

\* A retried row.
LEMMA RenewedRow ==
  ASSUME MaxAttempts \in Nat, NEW j \in Row, NEW n \in 0..MaxAttempts, n < MaxAttempts
  PROVE  LET k == [j EXCEPT !.status = "pending", !.attempts = n, !.due = TRUE]
         IN  k \in Row /\ k.status = "pending" /\ k.attempts < MaxAttempts
  BY DEF Row, Status

LEMMA RetrySavesKeeps == ASSUME ActivationAssumption, IInv, RetrySaves PROVE IInv'
  <1> DEFINE renewed == [act["admin"].job EXCEPT !.status = "pending", !.attempts = 0, !.due = TRUE]
  <1>1. /\ renewed \in Row /\ renewed.status = "pending" /\ renewed.attempts < MaxAttempts
    <2>1. act["admin"].job \in Row BY DEF IInv, TypeOK, Activation, Actor
    <2>3. MaxAttempts \in Nat /\ 0 \in 0..MaxAttempts /\ 0 < MaxAttempts BY DEF ActivationAssumption
    <2> QED BY <2>1, <2>3, RenewedRow, Zenon
  <1>2. /\ UNCHANGED <<live, issued, worker, setup, reloadVars, leaseVars, boundVars>>
        /\ act["admin"].at = "retry"
    BY DEF RetrySaves
  <1>3. job' = job \/ job' = renewed BY DEF RetrySaves, SaveActivation
  <1>4. /\ act' \in [Actor -> Activation]
        /\ \/ act'["admin"].at = "read" /\ lock' = lock
           \/ act'["admin"].at = "idle" /\ lock' = "free"
        /\ \A b \in Actor \ {"admin"} : act'[b] = act[b]
    <2>1. /\ TypeOK /\ "admin" \in Actor /\ "read" \in Points /\ "idle" \in Points
          /\ NoJob \in Row /\ FALSE \in BOOLEAN
      BY NoJobTyped DEF IInv, Actor, Points
    <2>2. CASE Go("admin", "read", renewed, FALSE) /\ UNCHANGED lock
      <3> HIDE DEF renewed
      <3>1. /\ act' \in [Actor -> Activation] /\ act'["admin"].at = "read"
            /\ \A b \in Actor \ {"admin"} : act'[b] = act[b]
        BY <1>1, <2>1, <2>2, GoEffect, Zenon
      <3> QED BY <2>2, <3>1
    <2>3. CASE Go("admin", "idle", NoJob, FALSE) /\ lock' = "free"
      <3>1. /\ act' \in [Actor -> Activation] /\ act'["admin"].at = "idle"
            /\ \A b \in Actor \ {"admin"} : act'[b] = act[b]
        BY <2>1, <2>3, GoEffect, Zenon
      <3> QED BY <2>3, <3>1
    <2> QED BY <2>2, <2>3 DEF RetrySaves
  <1> HIDE DEF renewed
  <1>5. TypeOK'
    BY <1>1, <1>2, <1>3, <1>4, TypeStep, StampsKept
    DEF IInv, TypeOK, reloadVars, leaseVars, boundVars
  <1>6. CalmStep
    <2>1. ActorStep BY <1>2, <1>4 DEF ActorStep, IInv, ActiveInv, Activator, Actor
    <2>2. RowStep BY <1>1, <1>3 DEF RowStep
    <2> QED BY <1>2, <2>1, <2>2 DEF CalmStep, Fresh
  <1>7. LockInv' BY <1>2, <1>4 DEF IInv, LockInv, leaseVars, Actor
  <1>8. BudgetInv' BY <1>1, <1>2, <1>3, <1>4 DEF IInv, BudgetInv, Actor
  <1> QED BY <1>2, <1>5, <1>6, <1>7, <1>8, CalmKeeps DEF leaseVars

LEMMA SignInStartsKeeps == ASSUME ActivationAssumption, IInv, SignInStarts PROVE IInv'
  <1>1. UNCHANGED <<rowVars, lock, act, worker, reloadVars, leaseVars>> /\ Change
    BY DEF SignInStarts
  <1>2. setup' \in [revision : Stamp, principal : Stamp]
    BY DEF SignInStarts, IInv, TypeOK, Stamp
  <1>3. changes' \in 0..MaxChanges /\ faults' \in 0..MaxFaults BY <1>1, BoundsKept DEF IInv
  <1>4. TypeOK'
    BY <1>1, <1>2, <1>3, TypeStep, StampsKept DEF IInv, TypeOK, rowVars, reloadVars, leaseVars
  <1>5. CalmStep
    BY <1>1 DEF CalmStep, Fresh, RowStep, ActorStep, rowVars, IInv, ActiveInv, Activator, Actor
  <1>6. LockInv' /\ BudgetInv' BY <1>1 DEF IInv, LockInv, BudgetInv, rowVars, leaseVars
  <1> QED BY <1>1, <1>4, <1>5, <1>6, CalmKeeps DEF leaseVars

\* What a swap does to the rows.
LEMMA SwapEffect ==
  ASSUME ActivationAssumption, TypeOK, NEW e \in [revision : Stamp, principal : Stamp],
         NEW t \in Transition, CompareAndSwap(e, t)
  PROVE  /\ Fresh /\ issued' = issued + 1 /\ live'.revision = issued + 1
         /\ live' \in [enabled : BOOLEAN, revision : 1..issued', principal : 1..issued']
         /\ job' \in Row' /\ job'.status = "pending" /\ job'.attempts = 0
         /\ live.enabled /\ live.revision = e.revision /\ live.principal = e.principal
         /\ t = "renewal" => live'.principal = live.principal
  <1>1. /\ live.enabled /\ live.revision = e.revision /\ live.principal = e.principal
        /\ issued' = issued + 1 /\ issued \in Nat \ {0}
    BY DEF CompareAndSwap, Swaps, MatchesLive, TypeOK
  <1>2. /\ SwappedPrincipal(e, t) \in 1..issued'
        /\ t = "renewal" => SwappedPrincipal(e, t) = live.principal
    BY <1>1 DEF SwappedPrincipal, TypeOK
  <1>3. live' = [live EXCEPT !.revision = issued + 1, !.principal = SwappedPrincipal(e, t)]
    BY DEF CompareAndSwap
  <1>0. live' = [enabled |-> live.enabled, revision |-> issued + 1,
                 principal |-> SwappedPrincipal(e, t)]
    BY <1>3 DEF TypeOK
  <1>4. /\ live'.revision = issued + 1 /\ live'.principal = SwappedPrincipal(e, t)
        /\ live' \in [enabled : BOOLEAN, revision : 1..issued', principal : 1..issued']
    BY <1>0, <1>1, <1>2 DEF TypeOK
  <1>5. job' = [revision |-> issued + 1, principal |-> SwappedPrincipal(e, t), transition |-> t,
                status |-> "pending", attempts |-> 0, due |-> TRUE, reset |-> FALSE]
    BY DEF CompareAndSwap, NoJob
  <1>6. job' \in Row' /\ job'.status = "pending" /\ job'.attempts = 0
    BY <1>1, <1>2, <1>5 DEF Row, Stamp, Status, ActivationAssumption
  <1> QED BY <1>1, <1>2, <1>4, <1>6 DEF Fresh

LEMMA SignInCommitsKeeps == ASSUME ActivationAssumption, IInv, SignInCommits PROVE IInv'
  <1>1. /\ UNCHANGED <<worker, reloadVars, req, spent, boundVars>> /\ setup' = NoSetup
        /\ act["admin"].at = "idle" /\ lock = "free"
    BY DEF SignInCommits
  <1>2. setup' \in [revision : Stamp, principal : Stamp]
    BY <1>1 DEF IInv, TypeOK, NoSetup, Stamp
  <1>3. CASE UNCHANGED <<rowVars, lock, act>>
    <2>1. TypeOK'
      BY <1>1, <1>2, <1>3, TypeStep, StampsKept DEF IInv, TypeOK, rowVars, reloadVars, boundVars
    <2>2. CalmStep
      BY <1>1, <1>3
      DEF CalmStep, Fresh, RowStep, ActorStep, rowVars, IInv, ActiveInv, Activator, Actor
    <2>3. LockInv' /\ BudgetInv' BY <1>1, <1>3 DEF IInv, LockInv, BudgetInv, rowVars
    <2> QED BY <1>1, <2>1, <2>2, <2>3, CalmKeeps
  <1>4. CASE /\ CompareAndSwap(setup, "replacement") /\ lock' = "admin"
             /\ Go("admin", "read", job', FALSE)
    <2>1. /\ Fresh /\ issued' = issued + 1
          /\ live' \in [enabled : BOOLEAN, revision : 1..issued', principal : 1..issued']
          /\ job' \in Row' /\ job'.status = "pending" /\ job'.attempts = 0
      BY <1>4, SwapEffect DEF IInv, TypeOK, Transition
    <2>2. Activation \subseteq Activation' /\ Leased \subseteq Leased' /\ issued <= issued'
          /\ issued' \in Nat
      BY <2>1, StampsGrow DEF IInv, TypeOK
    <2>3. /\ act'["admin"].at = "read" /\ act' \in [Actor -> Activation']
          /\ \A b \in Actor \ {"admin"} : act'[b] = act[b]
      <3>1. act' = [act EXCEPT !["admin"] = [at |-> "read", job |-> job', failed |-> FALSE]]
        BY <1>4 DEF Go
      <3>2. [at |-> "read", job |-> job', failed |-> FALSE] \in Activation'
        BY <2>1 DEF Activation
      <3> QED BY <2>2, <3>1, <3>2 DEF IInv, TypeOK, Actor
    <2>4. TypeOK'
      BY <1>1, <1>2, <1>4, <2>1, <2>2, <2>3, TypeStep DEF IInv, TypeOK, reloadVars, boundVars
    <2>5. CalmStep
      <3>1. ActorStep BY <1>1, <2>3 DEF ActorStep, IInv, ActiveInv, Activator, Actor
      <3>2. RowStep BY <2>1 DEF RowStep
      <3> QED BY <1>1, <2>1, <3>1, <3>2 DEF CalmStep
    <2>6. LockInv' BY <1>1, <1>4, <2>3 DEF IInv, LockInv, Actor
    <2>7. BudgetInv' BY <1>1, <2>1, <2>3 DEF IInv, BudgetInv, ActivationAssumption, Actor
    <2> QED BY <1>1, <2>4, <2>5, <2>6, <2>7, CalmKeeps
  <1> QED BY <1>3, <1>4 DEF SignInCommits

LEMMA EditKeeps == ASSUME ActivationAssumption, IInv, Edit PROVE IInv'
  <1>1. /\ UNCHANGED <<lock, worker, setup, reloadVars, req, spent>> /\ Change
        /\ act["edit"].at = "idle" /\ Go("edit", "reload", NoJob, FALSE)
    BY DEF Edit
  <1>2. /\ Fresh /\ issued' = issued + 1 /\ job' = job
        /\ live' \in [enabled : BOOLEAN, revision : 1..issued', principal : 1..issued']
    <2>1. ASSUME NEW renews \in BOOLEAN, NEW enabled \in BOOLEAN, UpdateConnection(renews, enabled)
          PROVE  /\ issued' = issued + 1 /\ job' = job /\ live'.revision = issued'
                 /\ live' \in [enabled : BOOLEAN, revision : 1..issued', principal : 1..issued']
      <3>1. /\ issued' = issued + 1 /\ job' = job
            /\ live' = [enabled |-> enabled, revision |-> issued + 1,
                        principal |-> IF renews THEN issued + 1 ELSE live.principal]
        BY <2>1 DEF UpdateConnection
      <3>2. issued \in Nat \ {0} /\ live.principal \in 1..issued BY DEF IInv, TypeOK
      <3>3. (IF renews THEN issued + 1 ELSE live.principal) \in 1..issued' BY <3>1, <3>2
      <3> QED BY <3>1, <3>2, <3>3
    <2>2. live.enabled \in BOOLEAN BY DEF IInv, TypeOK
    <2>3. \/ UpdateConnection(FALSE, live.enabled) \/ UpdateConnection(TRUE, live.enabled)
          \/ UpdateConnection(FALSE, ~live.enabled)
      BY DEF Edit
    <2>4. (~live.enabled) \in BOOLEAN /\ TRUE \in BOOLEAN /\ FALSE \in BOOLEAN OBVIOUS
    <2>5. /\ issued' = issued + 1 /\ job' = job /\ live'.revision = issued'
          /\ live' \in [enabled : BOOLEAN, revision : 1..issued', principal : 1..issued']
      BY <2>1, <2>2, <2>3, <2>4, Zenon
    <2> QED BY <2>5 DEF Fresh
  <1>3. /\ Activation \subseteq Activation' /\ Leased \subseteq Leased' /\ Row \subseteq Row'
        /\ issued <= issued' /\ issued' \in Nat
    BY <1>2, StampsGrow DEF IInv, TypeOK
  <1>4. /\ act' \in [Actor -> Activation] /\ act'["edit"].at = "reload"
        /\ \A b \in Actor \ {"edit"} : act'[b] = act[b]
    <2>1. TypeOK /\ "edit" \in Actor /\ "reload" \in Points /\ NoJob \in Row /\ FALSE \in BOOLEAN
      BY NoJobTyped DEF IInv, Actor, Points
    <2> QED BY <1>1, <2>1, GoEffect, Zenon
  <1>5. changes' \in 0..MaxChanges /\ faults' \in 0..MaxFaults BY <1>1, BoundsKept DEF IInv
  <1>6. TypeOK'
    BY <1>1, <1>2, <1>3, <1>4, <1>5, TypeStep DEF IInv, TypeOK, reloadVars
  <1>7. CalmStep
    <2>1. ActorStep BY <1>1, <1>4 DEF ActorStep, IInv, ActiveInv, Activator, Actor
    <2> QED BY <1>1, <1>2, <2>1 DEF CalmStep, RowStep
  <1>8. LockInv' /\ BudgetInv' BY <1>1, <1>2, <1>4 DEF IInv, LockInv, BudgetInv, Actor
  <1> QED BY <1>1, <1>6, <1>7, <1>8, CalmKeeps

(***************************************************************************)
(* The reload.                                                             *)
(***************************************************************************)
\* The end of a reload lets its caller go on.
LEMMA EndReloadEffect ==
  ASSUME ActivationAssumption, IInv, NEW a \in Actor, act[a].at = "reload", NEW failed \in BOOLEAN,
         EndReload(a, failed)
  PROVE  /\ reload' = NoReload /\ act' \in [Actor -> Activation]
         /\ \A b \in Actor \ {a} : act'[b] = act[b]
         /\ a = "edit" => act'[a].at = "idle"
         /\ a # "edit" =>
              /\ act'[a].at = "recheck" /\ act'[a].job.reset
              /\ act'[a].job.revision = act[a].job.revision
              /\ act'[a].job.principal = act[a].job.principal
              /\ failed => act'[a].job.status = "pending"
  <1>1. /\ TypeOK /\ "idle" \in Points /\ "recheck" \in Points /\ FALSE \in BOOLEAN
        /\ NoJob \in Row /\ act[a].job \in Row
    BY NoJobTyped DEF IInv, TypeOK, Points, Activation
  <1>2. reload' = NoReload BY DEF EndReload
  <1>3. CASE a = "edit"
    <2>1. Go(a, "idle", NoJob, FALSE) BY <1>3 DEF EndReload
    <2>2. /\ act' \in [Actor -> Activation] /\ act'[a].at = "idle"
          /\ \A b \in Actor \ {a} : act'[b] = act[b]
      BY <1>1, <2>1, GoEffect, Zenon
    <2> QED BY <1>2, <1>3, <2>2
  <1>4. CASE a # "edit"
    <2> DEFINE j == [act[a].job EXCEPT !.status = IF Reports(failed) THEN "active" ELSE "pending"]
    <2>1. Go(a, "recheck", j, FALSE) BY <1>4 DEF EndReload
    <2>2. act[a].job.reset BY <1>4 DEF IInv, ActiveInv, Activator, Actor
    <2>3. /\ j \in Row /\ j.reset /\ j.revision = act[a].job.revision
          /\ j.principal = act[a].job.principal /\ (failed => j.status = "pending")
      BY <1>1, <2>2 DEF Row, Status, Reports
    <2> HIDE DEF j
    <2>4. /\ act' \in [Actor -> Activation] /\ act'[a].at = "recheck" /\ act'[a].job = j
          /\ \A b \in Actor \ {a} : act'[b] = act[b]
      BY <1>1, <2>1, <2>3, GoEffect, Zenon
    <2> QED BY <1>2, <1>4, <2>3, <2>4
  <1> QED BY <1>3, <1>4

\* What every step of a reload leaves alone.
ReloadFrame ==
  UNCHANGED <<rowVars, lock, worker, setup, leaseVars>> /\ (Fault \/ UNCHANGED boundVars)

LEMMA ReloadFrameKeeps ==
  ASSUME ActivationAssumption, IInv, ReloadFrame, act' \in [Actor -> Activation],
         reload' \in Reloading, serving' \in Stamp, gates' \in Stamp, ReloadInv', ActiveInv',
         act' # act =>
           \E a \in Actor : /\ act[a].at = "reload" /\ \A b \in Actor \ {a} : act'[b] = act[b]
                            /\ act'[a].at = IF a = "edit" THEN "idle" ELSE "recheck"
  PROVE  IInv'
  <1>1. changes' \in 0..MaxChanges /\ faults' \in 0..MaxFaults
    BY BoundsKept DEF ReloadFrame, IInv
  <1>2. TypeOK'
    BY <1>1, TypeStep, StampsKept DEF IInv, TypeOK, ReloadFrame, rowVars, leaseVars
  <1>3. LockInv' /\ BudgetInv'
    <2>1. CASE act' = act BY <2>1 DEF IInv, LockInv, BudgetInv, ReloadFrame, rowVars, leaseVars
    <2>2. CASE act' # act
      <3>1. PICK a \in Actor : /\ act[a].at = "reload" /\ \A b \in Actor \ {a} : act'[b] = act[b]
                               /\ act'[a].at = IF a = "edit" THEN "idle" ELSE "recheck"
        BY <2>2
      <3>2. LockInv' BY <3>1 DEF IInv, LockInv, ReloadFrame, leaseVars, Actor
      <3>3. BudgetInv' BY <3>1 DEF IInv, LockInv, BudgetInv, ReloadFrame, rowVars, Actor
      <3> QED BY <3>2, <3>3
    <2> QED BY <2>1, <2>2
  <1>4. LeaseInv' /\ SpentInv'
    BY FreshKeepsLeases DEF IInv, ReloadFrame, rowVars, leaseVars, Fresh
  <1> QED BY <1>2, <1>3, <1>4 DEF IInv

\* A reload that ends without publishing.
LEMMA FailedReloadKeeps ==
  ASSUME ActivationAssumption, IInv, ReloadFrame, NEW a \in Actor, act[a].at = "reload",
         reload.at # "free" => reload.by = a, EndReload(a, TRUE), UNCHANGED serving,
         gates' = serving
  PROVE  IInv'
  <1>1. /\ reload' = NoReload /\ act' \in [Actor -> Activation]
        /\ \A b \in Actor \ {a} : act'[b] = act[b]
        /\ act'[a].at = IF a = "edit" THEN "idle" ELSE "recheck"
        /\ a # "edit" => act'[a].job.status = "pending"
    BY EndReloadEffect
  <1>2. reload' \in Reloading /\ reload'.at = "free"
    BY <1>1 DEF NoReload, Reloading, IInv, TypeOK, Stamp
  <1>3. ReloadInv' BY <1>2 DEF ReloadInv
  <1>4. live' = live /\ job' = job /\ (Published => Published')
    BY <1>2 DEF Published, ReloadFrame, rowVars
  <1>5. ActiveInv'
    BY <1>1, <1>4 DEF ActiveInv, IInv, MatchesLive, Activator, Actor
  <1> QED BY <1>1, <1>2, <1>3, <1>5, ReloadFrameKeeps DEF IInv, TypeOK

LEMMA ReloadControlKeeps ==
  ASSUME ActivationAssumption, IInv, NEW a \in Actor, ReloadControl(a) PROVE IInv'
  <1>1. /\ ReloadFrame /\ UNCHANGED <<serving, gates>> /\ act[a].at = "reload"
        /\ reload.at = "free" /\ gates = serving
    BY DEF ReloadControl, ReloadFrame, IInv, ReloadInv
  <1>2. CASE EndReload(a, TRUE) BY <1>1, <1>2, FailedReloadKeeps
  <1>3. CASE /\ UNCHANGED act
             /\ \E f \in BOOLEAN :
                  reload' = [by |-> a, at |-> "hook", snapshot |-> Snapshot, failed |-> f]
    <2>1. /\ reload' \in Reloading /\ reload'.at = "hook" /\ reload'.by = a
          /\ reload'.snapshot = Snapshot
      <3>1. Snapshot \in Stamp BY DEF Snapshot, IInv, TypeOK, Stamp
      <3> QED BY <1>3, <3>1 DEF Reloading
    <2>2. live' = live /\ job' = job BY <1>1 DEF ReloadFrame, rowVars
    <2>3. live.enabled => Snapshot = live.principal BY DEF Snapshot
    <2>4. ReloadInv' BY <1>1, <1>3, <2>1, <2>2, <2>3 DEF ReloadInv, MatchesLive
    <2>5. ASSUME live.enabled, Published PROVE Published'
      BY <1>1, <2>1, <2>2, <2>3, <2>5 DEF Published
    <2>6. ActiveInv' BY <1>3, <2>2, <2>5 DEF ActiveInv, IInv, MatchesLive
    <2> QED BY <1>1, <1>3, <2>1, <2>4, <2>6, ReloadFrameKeeps DEF IInv, TypeOK
  <1> QED BY <1>2, <1>3 DEF ReloadControl

LEMMA MoveGenerationsKeeps == ASSUME ActivationAssumption, IInv, MoveGenerations PROVE IInv'
  <1>1. /\ ReloadFrame /\ UNCHANGED serving /\ reload.at = "hook" /\ gates = serving
        /\ reload.by \in Actor /\ act[reload.by].at = "reload" /\ reload \in Reloading
    BY DEF MoveGenerations, ReloadFrame, IInv, ReloadInv, TypeOK
  <1>2. CASE EndReload(reload.by, TRUE) /\ UNCHANGED gates BY <1>1, <1>2, FailedReloadKeeps
  <1>3. CASE gates' = reload.snapshot /\ reload' = [reload EXCEPT !.at = "publish"] /\ UNCHANGED act
    <2>1. /\ reload' \in Reloading /\ reload'.at = "publish" /\ reload'.by = reload.by
          /\ reload'.snapshot = reload.snapshot /\ reload.snapshot \in Stamp
      BY <1>1, <1>3 DEF Reloading
    <2>2. live' = live /\ job' = job BY <1>1 DEF ReloadFrame, rowVars
    <2>3. ReloadInv' BY <1>1, <1>3, <2>1, <2>2 DEF ReloadInv, MatchesLive, IInv
    <2>4. ASSUME Published PROVE Published' BY <1>1, <2>1, <2>2, <2>4 DEF Published
    <2>5. ActiveInv' BY <1>3, <2>2, <2>4 DEF ActiveInv, IInv, MatchesLive
    <2> QED BY <1>1, <1>3, <2>1, <2>3, <2>5, ReloadFrameKeeps DEF IInv, TypeOK
  <1> QED BY <1>2, <1>3 DEF MoveGenerations

LEMMA PublishSnapshotKeeps == ASSUME ActivationAssumption, IInv, PublishSnapshot PROVE IInv'
  <1> DEFINE a == reload.by
  <1>1. /\ ReloadFrame /\ reload.at = "publish" /\ gates = reload.snapshot
        /\ a \in Actor /\ act[a].at = "reload" /\ reload \in Reloading
    BY DEF PublishSnapshot, ReloadFrame, IInv, ReloadInv, TypeOK
  <1>2. CASE gates' = RestoredGenerations /\ EndReload(a, TRUE) /\ UNCHANGED serving
    BY <1>1, <1>2, FailedReloadKeeps DEF RestoredGenerations
  <1>3. CASE serving' = reload.snapshot /\ EndReload(a, reload.failed) /\ UNCHANGED gates
    <2>1. /\ reload' = NoReload /\ act' \in [Actor -> Activation]
          /\ \A b \in Actor \ {a} : act'[b] = act[b]
          /\ act'[a].at = IF a = "edit" THEN "idle" ELSE "recheck"
          /\ a # "edit" =>
               /\ act'[a].job.reset /\ act'[a].job.revision = act[a].job.revision
               /\ act'[a].job.principal = act[a].job.principal
      <3>1. reload.failed \in BOOLEAN BY <1>1 DEF Reloading
      <3> QED BY <1>1, <1>3, <3>1, EndReloadEffect
    <2>2. /\ reload' \in Reloading /\ reload'.at = "free" /\ reload.snapshot \in Stamp
      BY <1>1, <2>1 DEF NoReload, Reloading, IInv, TypeOK, Stamp
    <2>3. live' = live /\ job' = job BY <1>1 DEF ReloadFrame, rowVars
    <2>4. ReloadInv' BY <1>1, <1>3, <2>2 DEF ReloadInv
    <2>5. (Published => Published') /\ (reload.snapshot = live.principal => Published')
      BY <1>1, <1>3, <2>2, <2>3 DEF Published
    <2>6. ASSUME NEW b \in Activator
          PROVE  /\ act'[b].at = "reset" => act'[b].job.status = "pending"
                 /\ act'[b].at = "reload" => act'[b].job.reset
                 /\ act'[b].at \in {"recheck", "save"} /\ act'[b].job.status = "active"
                      /\ MatchesLive(act[b].job)' => act'[b].job.reset /\ Published'
      <3>1. CASE b = a
        <4>1. MatchesLive(act[b].job)' => MatchesLive(act[b].job)
          BY <2>1, <2>3, <3>1 DEF MatchesLive, Activator
        <4>2. MatchesLive(act[b].job) => reload.snapshot = live.principal
          BY <1>1, <3>1 DEF IInv, ReloadInv
        <4> QED BY <2>1, <2>5, <3>1, <4>1, <4>2 DEF Activator
      <3>2. CASE b # a
        <4>1. act'[b] = act[b] BY <2>1, <3>2 DEF Activator, Actor
        <4> QED BY <2>3, <2>5, <4>1 DEF IInv, ActiveInv, MatchesLive
      <3> QED BY <3>1, <3>2
    <2>7. job'.status = "active" /\ MatchesLive(job)' => job'.reset /\ Published'
      BY <2>3, <2>5 DEF IInv, ActiveInv, MatchesLive
    <2>8. ActiveInv' BY <2>6, <2>7 DEF ActiveInv
    <2> QED BY <1>1, <1>3, <2>1, <2>2, <2>4, <2>8, ReloadFrameKeeps DEF IInv, TypeOK
  <1> QED BY <1>1, <1>2, <1>3 DEF PublishSnapshot

(***************************************************************************)
(* The leases.                                                             *)
(***************************************************************************)
\* A step of one request that moves neither rows nor activations.
LEMMA RequestFrameKeeps ==
  ASSUME ActivationAssumption, IInv, LeaseStep, UNCHANGED rowVars,
         req' \in [Request -> Leased], lock' \in {"free", "worker", "admin", "request"},
         spent' \subseteq 1..issued, LockInv', LeaseInv', SpentInv'
  PROVE  IInv'
  <1>1. TypeOK'
    BY TypeStep, StampsKept DEF IInv, TypeOK, LeaseStep, rowVars, reloadVars, boundVars
  <1>2. CalmStep
    BY DEF CalmStep, Fresh, RowStep, ActorStep, LeaseStep, rowVars, IInv, ActiveInv, Activator, Actor
  <1>3. BudgetInv' BY DEF IInv, BudgetInv, LeaseStep, rowVars
  <1> QED BY <1>1, <1>2, <1>3, CalmKeepsReload, CalmKeepsActive DEF IInv

\* A request moves on outside of an exchange.
LEMMA LeaseMoveKeeps ==
  ASSUME ActivationAssumption, IInv, LeaseStep, UNCHANGED <<rowVars, lock, spent>>,
         NEW r \in Request, req' \in [Request -> Leased], \A s \in Request \ {r} : req'[s] = req[s],
         req[r].at # "exchange", req'[r].at # "exchange",
         req'[r].at = "prepared" =>
           /\ req'[r].binding = req'[r].material
           /\ live.revision = req'[r].binding => live.principal = req'[r].route
  PROVE  IInv'
  <1>1. LockInv' BY DEF IInv, LockInv, LeaseStep
  <1>2. LeaseInv' BY DEF IInv, LeaseInv, rowVars
  <1>3. SpentInv' BY DEF IInv, SpentInv, rowVars
  <1> QED BY <1>1, <1>2, <1>3, RequestFrameKeeps DEF IInv, TypeOK

LEMMA EndRequestEffect ==
  ASSUME TypeOK, NEW r \in Request, EndRequest(r)
  PROVE  /\ req' \in [Request -> Leased] /\ req'[r].at = "over"
         /\ \A s \in Request \ {r} : req'[s] = req[s]
  <1>1. NoLease \in Leased BY DEF NoLease, TypeOK, Leased, Stamp
  <1> HIDE DEF NoLease
  <1>2. Ended \in Leased BY <1>1 DEF Ended, Leased
  <1>3. req' = [req EXCEPT ![r] = Ended] BY DEF EndRequest
  <1>4. Ended.at = "over" BY <1>1 DEF Ended, Leased
  <1> HIDE DEF Ended
  <1> QED BY <1>2, <1>3, <1>4 DEF TypeOK

\* A request ends, and no exchange with it.
LEMMA EndRequestKeeps ==
  ASSUME ActivationAssumption, IInv, LeaseStep, UNCHANGED <<rowVars, lock, spent>>,
         NEW r \in Request, req[r].at # "exchange", EndRequest(r)
  PROVE  IInv'
  BY EndRequestEffect, LeaseMoveKeeps DEF IInv

LEMMA ResolveKeeps ==
  ASSUME ActivationAssumption, IInv, NEW r \in Request, Resolve(r) PROVE IInv'
  <1>1. /\ LeaseStep /\ UNCHANGED <<rowVars, lock, spent>> /\ req[r].at = "idle"
    BY DEF Resolve
  <1>2. CASE EndRequest(r) BY <1>1, <1>2, EndRequestKeeps
  <1>3. CASE \E expired \in BOOLEAN :
               req' = [req EXCEPT ![r] =
                         [at |-> IF expired THEN "refresh" ELSE "issue", route |-> serving,
                          material |-> live.revision, binding |-> 0, refreshed |-> expired]]
    <2>1. PICK expired \in BOOLEAN :
            req' = [req EXCEPT ![r] =
                      [at |-> IF expired THEN "refresh" ELSE "issue", route |-> serving,
                       material |-> live.revision, binding |-> 0, refreshed |-> expired]]
      BY <1>3
    <2>2. [at |-> IF expired THEN "refresh" ELSE "issue", route |-> serving,
           material |-> live.revision, binding |-> 0, refreshed |-> expired] \in Leased
      BY DEF IInv, TypeOK, Leased, Stamp
    <2>3. /\ req' \in [Request -> Leased] /\ req'[r].at \in {"refresh", "issue"}
          /\ \A s \in Request \ {r} : req'[s] = req[s]
      BY <2>1, <2>2 DEF IInv, TypeOK
    <2> QED BY <1>1, <2>3, LeaseMoveKeeps
  <1> QED BY <1>2, <1>3 DEF Resolve

LEMMA IssueKeeps ==
  ASSUME ActivationAssumption, IInv, NEW r \in Request, Issue(r) PROVE IInv'
  <1>1. /\ LeaseStep /\ UNCHANGED <<rowVars, lock, spent>> /\ req[r].at = "issue"
    BY DEF Issue
  <1>2. CASE EndRequest(r) BY <1>1, <1>2, EndRequestKeeps
  <1>3. CASE Issues(r) /\ req' = [req EXCEPT ![r].at = "prepared", ![r].binding = live.revision]
    <2>1. /\ req[r].material = live.revision /\ req[r].route = live.principal
          /\ live.revision \in Stamp
      BY <1>3 DEF Issues, RouteHolds, IInv, TypeOK, Stamp
    <2>2. /\ req' \in [Request -> Leased] /\ req'[r].binding = live.revision
          /\ req'[r].material = req[r].material /\ req'[r].route = req[r].route
          /\ req'[r].at = "prepared" /\ \A s \in Request \ {r} : req'[s] = req[s]
      <3>1. PICK b \in Stamp : b = live.revision BY <2>1
      <3> DEFINE l == [req[r] EXCEPT !.at = "prepared", !.binding = b]
      <3>2. req' = [req EXCEPT ![r] = l] BY <1>3, <3>1, Zenon
      <3>3. req[r] \in Leased /\ req \in [Request -> Leased] BY DEF IInv, TypeOK
      <3>4. /\ l \in Leased /\ l.binding = b /\ l.at = "prepared"
            /\ l.material = req[r].material /\ l.route = req[r].route
        BY <3>3 DEF Leased
      <3> HIDE DEF l
      <3> QED BY <3>1, <3>2, <3>3, <3>4
    <2> QED BY <1>1, <2>1, <2>2, LeaseMoveKeeps
  <1> QED BY <1>2, <1>3 DEF Issue

LEMMA DispatchKeeps ==
  ASSUME ActivationAssumption, IInv, NEW r \in Request, Dispatch(r) PROVE IInv'
  <1>1. /\ LeaseStep /\ UNCHANGED <<rowVars, lock, spent>> /\ req[r].at = "prepared"
    BY DEF Dispatch
  <1>2. CASE EndRequest(r) BY <1>1, <1>2, EndRequestKeeps
  <1>3. CASE req' = [req EXCEPT ![r].at = "refresh", ![r].refreshed = TRUE]
    <2>1. /\ req' \in [Request -> Leased] /\ req'[r].at = "refresh"
          /\ \A s \in Request \ {r} : req'[s] = req[s]
      BY <1>3 DEF IInv, TypeOK, Leased
    <2> QED BY <1>1, <2>1, LeaseMoveKeeps
  <1> QED BY <1>2, <1>3 DEF Dispatch

LEMMA RefreshAbandonedKeeps ==
  ASSUME ActivationAssumption, IInv, NEW r \in Request, RefreshAbandoned(r) PROVE IInv'
  BY EndRequestKeeps DEF RefreshAbandoned

LEMMA RefreshLocksKeeps ==
  ASSUME ActivationAssumption, IInv, NEW r \in Request, RefreshLocks(r) PROVE IInv'
  <1>1. LeaseStep /\ UNCHANGED rowVars /\ req[r].at = "refresh" /\ lock = "free"
    BY DEF RefreshLocks, RefreshMayLock
  <1>2. CASE EndRequest(r) /\ UNCHANGED <<lock, spent>> BY <1>1, <1>2, EndRequestKeeps
  <1>3. CASE /\ req' = [req EXCEPT ![r].at = "issue", ![r].material = live.revision]
             /\ UNCHANGED <<lock, spent>>
    <2>1. live.revision \in Stamp BY DEF IInv, TypeOK, Stamp
    <2>2. /\ req' \in [Request -> Leased] /\ req'[r].at = "issue"
          /\ \A s \in Request \ {r} : req'[s] = req[s]
      BY <1>3, <2>1 DEF IInv, TypeOK, Leased
    <2> QED BY <1>1, <1>3, <2>2, LeaseMoveKeeps
  <1>4. CASE /\ At(r, "exchange") /\ lock' = "request" /\ spent' = spent \cup {live.revision}
             /\ live.revision = req[r].material
    <2>1. /\ req' \in [Request -> Leased] /\ req'[r].at = "exchange"
          /\ req'[r].material = req[r].material /\ \A s \in Request \ {r} : req'[s] = req[s]
      BY <1>4 DEF At, IInv, TypeOK, Leased
    <2>2. live.revision \in 1..issued /\ spent' \subseteq 1..issued BY <1>4 DEF IInv, TypeOK
    <2>3. LockInv' BY <1>1, <1>4, <2>1 DEF IInv, LockInv, LeaseStep, Actor
    <2>4. LeaseInv' BY <1>1, <2>1 DEF IInv, LeaseInv, rowVars
    <2>5. SpentInv' BY <1>1, <1>4, <2>1 DEF SpentInv, rowVars
    <2> QED BY <1>1, <1>4, <2>1, <2>2, <2>3, <2>4, <2>5, RequestFrameKeeps
  <1> QED BY <1>2, <1>3, <1>4 DEF RefreshLocks

LEMMA ExchangeFailsKeeps ==
  ASSUME ActivationAssumption, IInv, NEW r \in Request, ExchangeFails(r) PROVE IInv'
  <1>1. /\ LeaseStep /\ UNCHANGED rowVars /\ req[r].at = "exchange" /\ lock' = "free"
        /\ EndRequest(r) /\ spent' = spent \ {req[r].material}
    BY DEF ExchangeFails
  <1>2. /\ req' \in [Request -> Leased] /\ req'[r].at = "over"
        /\ \A s \in Request \ {r} : req'[s] = req[s]
    BY <1>1, EndRequestEffect DEF IInv
  <1>3. lock = "request" /\ \A s \in Request \ {r} : req[s].at # "exchange"
    BY <1>1 DEF IInv, LockInv
  <1>4. LockInv' BY <1>1, <1>2, <1>3 DEF IInv, LockInv, LeaseStep, Actor
  <1>5. LeaseInv' BY <1>1, <1>2 DEF IInv, LeaseInv, rowVars
  <1>6. SpentInv' BY <1>1, <1>2, <1>3 DEF IInv, SpentInv, rowVars
  <1> QED BY <1>1, <1>2, <1>4, <1>5, <1>6, RequestFrameKeeps DEF IInv, TypeOK

LEMMA CommitRenewalKeeps ==
  ASSUME ActivationAssumption, IInv, NEW r \in Request, CommitRenewal(r) PROVE IInv'
  <1> DEFINE e == [revision |-> req[r].material, principal |-> req[r].route]
  <1>1. /\ UNCHANGED <<act, setup, reloadVars, boundVars>> /\ req[r].at = "exchange"
        /\ lock' = "free" /\ lock = "request"
    BY DEF CommitRenewal, IInv, LockInv
  <1>2. \A s \in Request \ {r} : req[s].at # "exchange"
    BY <1>1 DEF IInv, LockInv
  <1>3. CASE EndRequest(r) /\ spent' = spent \ {req[r].material} /\ UNCHANGED <<rowVars, worker>>
    <2>1. /\ req' \in [Request -> Leased] /\ req'[r].at = "over"
          /\ \A s \in Request \ {r} : req'[s] = req[s]
      BY <1>3, EndRequestEffect DEF IInv
    <2>2. LeaseStep BY <1>1, <1>3 DEF LeaseStep
    <2>3. LockInv' BY <1>1, <1>2, <2>1 DEF IInv, LockInv, Actor
    <2>4. LeaseInv' BY <1>3, <2>1 DEF IInv, LeaseInv, rowVars
    <2>5. SpentInv' BY <1>2, <1>3, <2>1 DEF IInv, SpentInv, rowVars
    <2> QED BY <1>1, <1>3, <2>1, <2>2, <2>3, <2>4, <2>5, RequestFrameKeeps DEF IInv, TypeOK
  <1>4. CASE /\ CompareAndSwap(e, "renewal") /\ worker' = Signalled /\ UNCHANGED spent
             /\ req' = [req EXCEPT ![r].at = "issue", ![r].material = issued']
    <2>1. e \in [revision : Stamp, principal : Stamp] BY DEF IInv, TypeOK, Leased
    <2> HIDE DEF e
    <2>2. /\ Fresh /\ issued' = issued + 1 /\ live'.revision = issued + 1
          /\ live' \in [enabled : BOOLEAN, revision : 1..issued', principal : 1..issued']
          /\ job' \in Row' /\ job'.status = "pending" /\ job'.attempts = 0
      BY <1>4, <2>1, SwapEffect DEF IInv, Transition
    <2>3. /\ Activation \subseteq Activation' /\ Leased \subseteq Leased' /\ issued <= issued'
          /\ issued' \in Nat /\ issued' \in Stamp'
      BY <2>2, StampsGrow DEF IInv, TypeOK, Stamp
    <2>4. /\ req' \in [Request -> Leased'] /\ req'[r].at = "issue"
          /\ \A s \in Request \ {r} : req'[s] = req[s]
      <3>1. PICK b \in Stamp' : b = issued' BY <2>3
      <3> DEFINE l == [req[r] EXCEPT !.at = "issue", !.material = b]
      <3>2. req' = [req EXCEPT ![r] = l] BY <1>4, <3>1, Zenon
      <3>3. req[r] \in Leased' /\ req \in [Request -> Leased'] BY <2>3 DEF IInv, TypeOK
      <3>4. l \in Leased' /\ l.at = "issue" BY <3>3 DEF Leased
      <3> HIDE DEF l
      <3> QED BY <3>2, <3>3, <3>4
    <2>5. /\ worker' \in Loop /\ worker'.tick = worker.tick /\ worker'.failures = worker.failures
      BY <1>4 DEF Signalled, IInv, TypeOK, Loop
    <2>6. TypeOK'
      BY <1>1, <1>4, <2>2, <2>3, <2>4, <2>5, TypeStep DEF IInv, TypeOK, reloadVars, boundVars
    <2>7. CalmStep
      BY <1>1, <2>2 DEF CalmStep, RowStep, ActorStep, IInv, ActiveInv, Activator, Actor
    <2>8. LockInv' BY <1>1, <1>2, <2>4 DEF IInv, LockInv, Actor
    <2>9. BudgetInv' BY <1>1, <2>2, <2>5 DEF IInv, BudgetInv, ActivationAssumption
    <2>10. LeaseInv'
      <3>1. ASSUME NEW s \in Request, req'[s].at = "prepared"
            PROVE  s # r /\ req[s].binding \in Stamp /\ req'[s] = req[s]
        BY <2>4, <3>1 DEF IInv, TypeOK, Leased
      <3> QED BY <2>2, <3>1 DEF IInv, LeaseInv, Stamp, TypeOK
    <2>11. SpentInv' BY <1>4, <2>2 DEF SpentInv, IInv, TypeOK
    <2> QED BY <2>6, <2>7, <2>8, <2>9, <2>10, <2>11, CalmKeepsReload, CalmKeepsActive DEF IInv
  <1> QED BY <1>3, <1>4 DEF CommitRenewal

(***************************************************************************)
(* The crash.                                                              *)
(***************************************************************************)
LEMMA CrashKeeps == ASSUME ActivationAssumption, IInv, Crash PROVE IInv'
  <1> DEFINE running == {x \in Request : req[x].at = "exchange"}
  <1>1. /\ UNCHANGED rowVars /\ Change /\ lock' = "free" /\ worker' = Started /\ setup' = NoSetup
        /\ reload' = NoReload /\ serving' = Snapshot /\ gates' = Snapshot
        /\ act' = [a \in Actor |-> Idle]
        /\ req' = [r \in Request |-> IF req[r].at = "idle" THEN req[r] ELSE Ended]
        /\ spent' = spent \ {req[r].material : r \in running}
    BY DEF Crash
  <1>2. act' \in [Actor -> Activation] /\ \A a \in Actor : act'[a].at = "idle"
    <2>1. Idle \in Activation /\ Idle.at = "idle"
      <3>1. NoJob \in Row BY NoJobTyped DEF IInv
      <3> HIDE DEF NoJob
      <3> QED BY <3>1 DEF Idle, Activation
    <2> HIDE DEF Idle
    <2> QED BY <1>1, <2>1
  <1>3. req' \in [Request -> Leased] /\ \A r \in Request : req'[r].at \in {"idle", "over"}
    <2>1. Ended \in Leased /\ Ended.at = "over"
      <3>1. NoLease \in Leased BY DEF NoLease, IInv, TypeOK, Leased, Stamp
      <3> HIDE DEF NoLease
      <3> QED BY <3>1 DEF Ended, Leased
    <2> HIDE DEF Ended
    <2> QED BY <1>1, <2>1 DEF IInv, TypeOK
  <1>4. /\ worker' \in Loop /\ worker'.failures < MaxAttempts
        /\ setup' \in [revision : Stamp, principal : Stamp]
        /\ reload' \in Reloading /\ reload'.at = "free"
    BY <1>1 DEF ActivationAssumption, Started, Loop, NoSetup, NoReload, Reloading, IInv, TypeOK, Stamp
  <1>5. serving' \in Stamp /\ gates' \in Stamp BY <1>1 DEF Snapshot, IInv, TypeOK, Stamp
  <1>6. changes' \in 0..MaxChanges /\ faults' \in 0..MaxFaults BY <1>1, BoundsKept DEF IInv
  <1>7. spent' \subseteq 1..issued BY <1>1 DEF IInv, TypeOK
  <1>8. TypeOK'
    BY <1>1, <1>2, <1>3, <1>4, <1>5, <1>6, <1>7, TypeStep, StampsKept DEF IInv, TypeOK, rowVars
  <1>9. LockInv' BY <1>2, <1>3 DEF LockInv, Actor
  <1>10. BudgetInv' BY <1>1, <1>2, <1>4 DEF BudgetInv, IInv, rowVars, Actor
  <1>11. ReloadInv' BY <1>1, <1>4 DEF ReloadInv
  <1>12. ActiveInv'
    <2>1. live.enabled => Published' BY <1>1, <1>4 DEF Published, Snapshot, rowVars
    <2> QED BY <1>1, <1>2, <2>1 DEF ActiveInv, IInv, MatchesLive, rowVars, Activator, Actor
  <1>13. LeaseInv' BY <1>3 DEF LeaseInv
  <1>14. SpentInv'
    <2>1. ASSUME live.revision \in spent PROVE \E r \in running : req[r].material = live.revision
      BY <2>1 DEF IInv, SpentInv
    <2>2. live.revision \notin spent' BY <1>1, <2>1
    <2> QED BY <1>1, <2>2 DEF SpentInv, rowVars
  <1> QED BY <1>8, <1>9, <1>10, <1>11, <1>12, <1>13, <1>14 DEF IInv

(***************************************************************************)
(* The theorems.                                                           *)
(***************************************************************************)
\* An edit has no activation, only its reload.
LEMMA ActivationStepKeeps ==
  ASSUME ActivationAssumption, IInv, NEW a \in Actor, ActivationStep(a) PROVE IInv'
  <1>1. CASE a \in Activator
    BY <1>1, ReadKeeps, ResetRoutingKeeps, ReloadControlKeeps, RecheckKeeps, SaveKeeps
    DEF ActivationStep
  <1>2. CASE a \notin Activator
    <2>1. act[a].at \in {"idle", "reload"} BY <1>2 DEF Activator, Actor, IInv, LockInv
    <2>2. ReloadControl(a)
      BY <2>1 DEF ActivationStep, ReadActivation, ResetRouting, Recheck, Save
    <2> QED BY <2>2, ReloadControlKeeps
  <1> QED BY <1>1, <1>2

LEMMA NextKeeps == ASSUME ActivationAssumption, IInv, [Next]_vars PROVE IInv'
  <1>1. CASE WorkerStep
    BY <1>1, ScanKeeps, SettleKeeps, ActivationStepKeeps DEF WorkerStep, Actor
  <1>2. CASE AttemptFallsDue BY <1>2, AttemptFallsDueKeeps
  <1>3. CASE ReloadStep BY <1>3, MoveGenerationsKeeps, PublishSnapshotKeeps DEF ReloadStep
  <1>4. CASE AdminStep
    BY <1>4, RetryReadsKeeps, RetrySavesKeeps, SignInStartsKeeps, SignInCommitsKeeps, EditKeeps
    DEF AdminStep
  <1>5. CASE Crash BY <1>5, CrashKeeps
  <1>6. CASE ActivationStep("admin") \/ ActivationStep("edit")
    BY <1>6, ActivationStepKeeps DEF Actor
  <1>7. ASSUME NEW r \in Request, RequestStep(r) PROVE IInv'
    BY <1>7, ResolveKeeps, IssueKeeps, DispatchKeeps, RefreshLocksKeeps, RefreshAbandonedKeeps,
       ExchangeFailsKeeps, CommitRenewalKeeps DEF RequestStep
  <1>8. CASE UNCHANGED vars
    <2>1. TypeOK' /\ LockInv' /\ BudgetInv' /\ ReloadInv' /\ ActiveInv' /\ LeaseInv' /\ SpentInv'
      <3> USE <1>8 DEF vars, rowVars, activationVars, reloadVars, leaseVars, boundVars, IInv
      <3>1. TypeOK' BY StampsKept DEF TypeOK
      <3>2. LockInv' /\ BudgetInv' BY DEF LockInv, BudgetInv
      <3>3. ReloadInv' BY DEF ReloadInv, MatchesLive
      <3>4. ActiveInv' BY DEF ActiveInv, MatchesLive, Published
      <3>5. LeaseInv' /\ SpentInv' BY DEF LeaseInv, SpentInv
      <3> QED BY <3>1, <3>2, <3>3, <3>4, <3>5
    <2> QED BY <2>1 DEF IInv
  <1> QED BY <1>1, <1>2, <1>3, <1>4, <1>5, <1>6, <1>7, <1>8 DEF Next

\* The inductive invariant of rows, activations, reload and leases holds in every
\* behaviour.
THEOREM CredentialInvariant == Spec => []IInv
  <1>1. Init => IInv BY InitIInv, ActivationAssumption
  <1>2. IInv /\ [Next]_vars => IInv' BY NextKeeps, ActivationAssumption
  <1> QED BY <1>1, <1>2, PTL DEF Spec

\* The rows, actors, leases and loops keep their types, and nothing refers to
\* a revision that the store has not issued.
THEOREM CredentialTypeCorrect == Spec => []TypeOK
  <1>1. IInv => TypeOK BY DEF IInv
  <1> QED BY <1>1, CredentialInvariant, PTL

\* A credential that is reported active and is live is the one the kernel
\* executes, whatever reloads, edits and crashes came after its activation.
THEOREM ActiveCorrect == Spec => []ActiveIsServed
  <1>1. IInv => ActiveIsServed BY DEF IInv, ActiveInv, ActiveIsServed, Published
  <1> QED BY <1>1, CredentialInvariant, PTL

\* Between reloads the gate observes the generations of the executed snapshot.
THEOREM GatesCorrect == Spec => []GatesFollowServing
  <1>1. IInv => GatesFollowServing BY DEF IInv, ReloadInv, GatesFollowServing
  <1> QED BY <1>1, CredentialInvariant, PTL

\* What is dispatched is the material of the binding and of the route's
\* principal.
THEOREM LeaseCorrect == Spec => []LeaseIsCoherent
  <1>1. IInv => LeaseIsCoherent BY DEF IInv, LeaseInv, LeaseIsCoherent, ValidForDispatch
  <1> QED BY <1>1, CredentialInvariant, PTL

\* Who enters and who leaves an exchange successfully.
LEMMA ExchangeSteps ==
  ASSUME IInv, Next, NEW r \in Request
  PROVE  /\ req[r].at = "refresh" /\ req'[r].at = "exchange" => RefreshLocks(r)
         /\ req[r].at = "exchange" /\ req'[r].at = "issue" => CommitRenewal(r)
  <1>1. req \in [Request -> Leased] BY DEF IInv, TypeOK
  <1>2. ASSUME UNCHANGED req
        PROVE  /\ ~(req[r].at = "refresh" /\ req'[r].at = "exchange")
               /\ ~(req[r].at = "exchange" /\ req'[r].at = "issue")
    BY <1>2
  <1>3. CASE WorkerStep \/ AttemptFallsDue \/ ReloadStep \/ AdminStep
             \/ ActivationStep("admin") \/ ActivationStep("edit")
    <2>1. ASSUME NEW a \in Actor, ActivationStep(a) PROVE UNCHANGED req
      BY <2>1 DEF ActivationStep, ReadActivation, ResetRouting, ReloadControl, Recheck, Save, leaseVars
    <2>2. WorkerStep => UNCHANGED req
      BY <2>1 DEF WorkerStep, Scan, Settle, leaseVars, Actor
    <2>3. AttemptFallsDue \/ ReloadStep => UNCHANGED req
      BY DEF AttemptFallsDue, ReloadStep, MoveGenerations, PublishSnapshot, leaseVars
    <2>4. AdminStep => UNCHANGED req
      BY DEF AdminStep, RetryReads, RetrySaves, SignInStarts, SignInCommits, Edit, leaseVars
    <2> QED BY <1>2, <1>3, <2>1, <2>2, <2>3, <2>4 DEF Actor
  <1>4. CASE Crash
    <2>1. req' = [s \in Request |-> IF req[s].at = "idle" THEN req[s] ELSE Ended]
      BY <1>4 DEF Crash
    <2>2. Ended.at = "over"
      <3>1. NoLease \in Leased BY DEF NoLease, IInv, TypeOK, Leased, Stamp
      <3> HIDE DEF NoLease
      <3> QED BY <3>1 DEF Ended, Leased
    <2> HIDE DEF Ended
    <2> QED BY <2>1, <2>2
  <1>5. ASSUME NEW s \in Request, RequestStep(s), s # r PROVE req'[r] = req[r]
    <2>1. EndRequest(s) => req'[r] = req[r] BY <1>1, <1>5 DEF EndRequest
    <2>2. At(s, "exchange") => req'[r] = req[r] BY <1>1, <1>5 DEF At
    <2>3. Resolve(s) => req'[r] = req[r] BY <1>1, <1>5, <2>1 DEF Resolve
    <2>4. Issue(s) \/ Dispatch(s) => req'[r] = req[r] BY <1>1, <1>5, <2>1 DEF Issue, Dispatch
    <2>5. RefreshLocks(s) => req'[r] = req[r] BY <1>1, <1>5, <2>1, <2>2 DEF RefreshLocks
    <2>6. RefreshAbandoned(s) \/ ExchangeFails(s) => req'[r] = req[r]
      BY <2>1 DEF RefreshAbandoned, ExchangeFails
    <2>7. CommitRenewal(s) => req'[r] = req[r] BY <1>1, <1>5, <2>1 DEF CommitRenewal
    <2> QED BY <1>5, <2>3, <2>4, <2>5, <2>6, <2>7 DEF RequestStep
  <1>6. CASE RequestStep(r)
    <2>1. EndRequest(r) => req'[r].at = "over"
      BY EndRequestEffect DEF IInv
    <2>2. ~(req[r].at = "refresh" /\ req'[r].at = "exchange") \/ RefreshLocks(r)
      BY <1>6, <2>1
      DEF RequestStep, Resolve, Issue, Dispatch, RefreshAbandoned, ExchangeFails, CommitRenewal
    <2>3. ~(req[r].at = "exchange" /\ req'[r].at = "issue") \/ CommitRenewal(r)
      BY <1>6, <2>1
      DEF RequestStep, Resolve, Issue, Dispatch, RefreshLocks, RefreshAbandoned, ExchangeFails
    <2> QED BY <2>2, <2>3
  <1>7. CASE \E s \in Request : RequestStep(s)
    BY <1>5, <1>6, <1>7
  <1> QED BY <1>3, <1>4, <1>7 DEF Next

\* No refresh token is exchanged twice.
THEOREM ExchangeCorrect == Spec => ExchangeIsSingle
  <1>1. ASSUME IInv, Next, NEW r \in Request, req[r].at = "refresh", req'[r].at = "exchange"
        PROVE  req[r].material \notin spent
    <2>1. RefreshLocks(r) BY <1>1, ExchangeSteps
    <2>2. lock = "free" BY <2>1 DEF RefreshLocks, RefreshMayLock
    <2>3. live.revision \notin spent BY <1>1, <2>2 DEF IInv, LockInv, SpentInv
    <2>4. CASE live.revision = req[r].material BY <2>3, <2>4
    <2>5. CASE live.revision # req[r].material
      <3>1. \/ EndRequest(r)
            \/ req' = [req EXCEPT ![r].at = "issue", ![r].material = live.revision]
        BY <2>1, <2>5 DEF RefreshLocks
      <3>2. req'[r].at # "exchange"
        <4>1. EndRequest(r) => req'[r].at = "over" BY <1>1, EndRequestEffect DEF IInv
        <4>2. CASE req' = [req EXCEPT ![r].at = "issue", ![r].material = live.revision]
          BY <1>1, <4>2 DEF IInv, TypeOK
        <4> QED BY <3>1, <4>1, <4>2
      <3> QED BY <1>1, <3>2
    <2> QED BY <2>4, <2>5
  <1>2. IInv /\ [Next]_vars =>
          [\A r \in Request : req[r].at = "refresh" /\ req'[r].at = "exchange" =>
             req[r].material \notin spent]_vars
    BY <1>1
  <1> QED BY <1>2, CredentialInvariant, PTL DEF Spec, ExchangeIsSingle

\* How an idle administrator gets to an activation.
LEMMA SignInSteps ==
  ASSUME IInv, Next, act["admin"].at = "idle", act'["admin"].at = "read"
  PROVE  SignInCommits
  <1>1. act \in [Actor -> Activation] /\ "admin" \in Actor BY DEF IInv, TypeOK, Actor
  <1>2. act'["admin"] # act["admin"] BY <1>1
  <1>3. ASSUME NEW a \in Actor, a # "admin", NEW at, NEW j, NEW failed, Go(a, at, j, failed)
        PROVE  FALSE
    <2>1. act' = [act EXCEPT ![a] = [at |-> at, job |-> j, failed |-> failed]] BY <1>3 DEF Go
    <2> QED BY <1>1, <1>2, <1>3, <2>1
  <1>4. ASSUME NEW a \in Actor, act[a].at = "reload", NEW failed, EndReload(a, failed) PROVE FALSE
    BY <1>3, <1>4 DEF EndReload
  <1>5. ASSUME NEW a \in Actor, ActivationStep(a) PROVE FALSE
    <2>1. CASE a = "admin"
      BY <1>5, <2>1
      DEF ActivationStep, ReadActivation, ResetRouting, ReloadControl, Recheck, Save
    <2>2. CASE a # "admin"
      BY <1>2, <1>3, <1>5, <2>2
      DEF ActivationStep, ReadActivation, Release, Advance, ResetRouting, ReloadControl, EndReload,
          Recheck, Save
    <2> QED BY <2>1, <2>2
  <1>6. ~WorkerStep
    BY <1>2, <1>3, <1>5 DEF WorkerStep, Scan, Settle, Actor
  <1>7. ~AttemptFallsDue BY <1>2 DEF AttemptFallsDue, activationVars
  <1>8. ~ReloadStep
    <2>1. reload.at # "free" => reload.by \in Actor /\ act[reload.by].at = "reload"
      BY DEF IInv, ReloadInv
    <2> QED BY <1>2, <1>4, <2>1 DEF ReloadStep, MoveGenerations, PublishSnapshot
  <1>9. ~RetryReads
    <2>1. RetryReads => act' = [act EXCEPT !["admin"] = [at |-> "retry", job |-> job, failed |-> FALSE]]
      BY DEF RetryReads, Go
    <2> QED BY <1>1, <2>1
  <1>10. ~RetrySaves /\ ~SignInStarts BY <1>2 DEF RetrySaves, SignInStarts
  <1>11. ~Edit BY <1>3 DEF Edit, Actor
  <1>12. ~Crash
    <2>1. Crash => act' = [a \in Actor |-> Idle] BY DEF Crash
    <2>2. Idle.at = "idle" BY DEF Idle
    <2> HIDE DEF Idle
    <2> QED BY <1>1, <2>1, <2>2
  <1>13. ASSUME NEW r \in Request, RequestStep(r) PROVE FALSE
    BY <1>2, <1>13
    DEF RequestStep, Resolve, Issue, Dispatch, RefreshLocks, RefreshAbandoned, ExchangeFails,
        CommitRenewal, LeaseStep
  <1> QED
    BY <1>5, <1>6, <1>7, <1>8, <1>9, <1>10, <1>11, <1>12, <1>13 DEF Next, AdminStep, Actor

\* Every commit replaces the credential it started from.
THEOREM LineageCorrect == Spec => LineageIsUnbroken
  <1> DEFINE Renewal == \A r \in Request : req[r].at = "exchange" /\ req'[r].at = "issue" =>
                          live.revision = req[r].material /\ live'.principal = live.principal
             SignIn == setup # NoSetup /\ act["admin"].at = "idle" /\ act'["admin"].at = "read" =>
                         live.revision = setup.revision
  <1>1. ASSUME IInv, Next PROVE Renewal
    <2>1. ASSUME NEW r \in Request, req[r].at = "exchange", req'[r].at = "issue"
          PROVE  live.revision = req[r].material /\ live'.principal = live.principal
      <3> DEFINE e == [revision |-> req[r].material, principal |-> req[r].route]
      <3>1. CommitRenewal(r) BY <1>1, <2>1, ExchangeSteps
      <3>2. ~EndRequest(r) BY <1>1, <2>1, EndRequestEffect DEF IInv
      <3>3. CompareAndSwap(e, "renewal") BY <3>1, <3>2 DEF CommitRenewal
      <3>4. e \in [revision : Stamp, principal : Stamp] /\ e.revision = req[r].material
        BY <1>1 DEF IInv, TypeOK, Leased
      <3> HIDE DEF e
      <3> QED BY <1>1, <3>3, <3>4, SwapEffect, ActivationAssumption DEF IInv, Transition
    <2> QED BY <2>1
  <1>2. ASSUME IInv, Next PROVE SignIn
    <2>1. ASSUME setup # NoSetup, act["admin"].at = "idle", act'["admin"].at = "read"
          PROVE  live.revision = setup.revision
      <3>1. SignInCommits BY <1>2, <2>1, SignInSteps
      <3>2. act' # act BY <2>1
      <3>3. CompareAndSwap(setup, "replacement") BY <3>1, <3>2 DEF SignInCommits
      <3> QED BY <1>2, <3>3, SwapEffect, ActivationAssumption DEF IInv, TypeOK, Transition
    <2> QED BY <2>1
  <1>3. IInv /\ [Next]_vars => [Renewal /\ SignIn]_vars BY <1>1, <1>2
  <1> QED BY <1>3, CredentialInvariant, PTL DEF Spec, LineageIsUnbroken

(***************************************************************************)
(* No wake of the worker is lost.                                          *)
(***************************************************************************)
Working == {"read", "reset", "reload", "recheck", "save"}

Watched ==
  \/ worker.wake \/ worker.tick # "off" \/ act["worker"].at # "idle"
  \/ act["admin"].at \in Working \/ WorkerGaveUp

\* While a row is pending the worker is awake, at work or has its timer armed, or
\* an administrator activates the row and will wake it, or it gave up.
JobIsWatched == job.status = "pending" => Watched

\* After a batch the timer is armed for a pending row, or the failures are too
\* many.
LEMMA SettledWatches ==
  ASSUME ActivationAssumption, NEW w \in Loop, NEW failed \in BOOLEAN, job.status = "pending"
  PROVE  Settled(w, failed).tick # "off" \/ Settled(w, failed).failures >= MaxAttempts
  <1>1. CASE failed
    <2>1. Settled(w, failed) = [tick |-> IF w.failures + 1 >= MaxAttempts THEN "off" ELSE "soon",
                                wake |-> w.wake, failures |-> w.failures + 1]
      BY <1>1 DEF Settled, Loop
    <2> QED BY <2>1
  <1>2. CASE ~failed
    <2>1. Settled(w, failed) = [tick |-> "next", wake |-> w.wake, failures |-> 0]
      BY <1>2 DEF Settled, Loop
    <2> QED BY <2>1
  <1> QED BY <1>1, <1>2

\* The loop of the worker.
LEMMA LoopWatches ==
  ASSUME ActivationAssumption, IInv, Scan \/ Settle
  PROVE  JobIsWatched'
  <1>1. job' = job BY DEF Scan, Settle, rowVars
  <1>2. worker \in Loop /\ act \in [Actor -> Activation] /\ act["worker"].failed \in BOOLEAN
    BY DEF IInv, TypeOK, Activation, Actor
  <1>3. ASSUME job.status = "pending" PROVE Watched'
    <2>1. ASSUME NEW w \in Loop, NEW failed \in BOOLEAN, worker' = Settled(w, failed)
          PROVE  Watched'
      BY <1>3, <2>1, SettledWatches DEF Watched, WorkerGaveUp
    <2> DEFINE awake ==
                 IF worker.wake THEN [worker EXCEPT !.wake = FALSE, !.failures = 0] ELSE worker
    <2>2. awake \in Loop
      <3>1. CASE worker.wake
        <4>1. awake = [tick |-> worker.tick, wake |-> FALSE, failures |-> 0]
          BY <1>2, <3>1 DEF Loop
        <4>2. worker.tick \in {"off", "soon", "next"} BY <1>2 DEF Loop
        <4> HIDE DEF awake
        <4> QED BY <4>1, <4>2 DEF ActivationAssumption, Loop
      <3>2. CASE ~worker.wake BY <1>2, <3>2
      <3> QED BY <3>1, <3>2
    <2>3. CASE Scan
      <3>1. \/ Go("worker", "read", job, FALSE)
            \/ worker' = Settled(awake, FALSE)
            \/ worker' = Settled(awake, TRUE)
        BY <2>3 DEF Scan
      <3>2. Go("worker", "read", job, FALSE) => act'["worker"].at = "read"
        BY <1>2 DEF Go, Actor
      <3> HIDE DEF awake
      <3> QED BY <2>1, <2>2, <3>1, <3>2 DEF Watched
    <2>4. CASE Settle
      <3>1. worker' = Settled(worker, act["worker"].failed) \/ worker' = Settled(worker, TRUE)
        BY <2>4 DEF Settle
      <3> QED BY <1>2, <2>1, <3>1
    <2> QED BY <2>3, <2>4
  <1> QED BY <1>1, <1>3 DEF JobIsWatched

\* An activation ends by waking the worker, or as the worker's own.
LEMMA ActivationWatches ==
  ASSUME ActivationAssumption, IInv, JobIsWatched, NEW a \in Activator,
         ReadActivation(a) \/ ResetRouting(a) \/ Recheck(a) \/ Save(a)
  PROVE  JobIsWatched'
  <1>1. act \in [Actor -> Activation] /\ worker \in Loop /\ a \in Actor
    BY DEF IInv, TypeOK, Activator, Actor
  <1>2. ASSUME NEW failed, Release(a, failed) PROVE Watched'
    <2>1. CASE a = "worker"
      BY <1>1, <1>2, <2>1 DEF Release, Go, Watched
    <2>2. CASE a # "worker"
      BY <1>1, <1>2, <2>2 DEF Release, Loop, Watched
    <2> QED BY <2>1, <2>2
  <1>3. ASSUME NEW at \in Working, NEW j, NEW failed, Go(a, at, j, failed) PROVE Watched'
    BY <1>1, <1>3 DEF Go, Watched, Working, Activator
  <1> QED BY <1>2, <1>3
    DEF ReadActivation, ResetRouting, Recheck, Save, Advance, Working, JobIsWatched

\* A reload is left alone, or its end lets the activation go on.
LEMMA ReloadWatches ==
  ASSUME ActivationAssumption, IInv, JobIsWatched,
         (\E a \in Actor : ReloadControl(a)) \/ MoveGenerations \/ PublishSnapshot
  PROVE  JobIsWatched'
  <1>1. UNCHANGED <<job, worker>>
    BY DEF ReloadControl, MoveGenerations, PublishSnapshot, rowVars
  <1>2. UNCHANGED act \/ \E a \in Actor, failed \in BOOLEAN : act[a].at = "reload" /\ EndReload(a, failed)
    BY DEF ReloadControl, MoveGenerations, PublishSnapshot, IInv, ReloadInv, TypeOK, Reloading
  <1>3. CASE UNCHANGED act
    BY <1>1, <1>3 DEF JobIsWatched, Watched, WorkerGaveUp
  <1>4. ASSUME NEW a \in Actor, NEW failed \in BOOLEAN, act[a].at = "reload", EndReload(a, failed)
        PROVE  JobIsWatched'
    <2>1. /\ \A b \in Actor \ {a} : act'[b] = act[b]
          /\ a # "edit" => act'[a].at = "recheck"
      BY <1>4, EndReloadEffect
    <2> QED BY <1>1, <2>1 DEF JobIsWatched, Watched, WorkerGaveUp, Working, Actor
  <1> QED BY <1>2, <1>3, <1>4

\* Whoever commits a credential or renews its row activates it, or wakes the
\* worker.
LEMMA CommitWatches ==
  ASSUME ActivationAssumption, IInv, JobIsWatched,
         AdminStep \/ \E r \in Request : RequestStep(r)
  PROVE  JobIsWatched'
  <1>1. act \in [Actor -> Activation] /\ worker \in Loop /\ {"worker", "admin", "edit"} = Actor
    BY DEF IInv, TypeOK, Actor
  <1>2. ASSUME UNCHANGED <<job, worker>>, act'["worker"] = act["worker"],
               act["admin"].at \notin Working \/ act' = act
        PROVE  JobIsWatched'
    BY <1>2 DEF JobIsWatched, Watched, WorkerGaveUp
  <1>3. ASSUME NEW j, Go("admin", "read", j, FALSE) PROVE JobIsWatched'
    BY <1>1, <1>3 DEF Go, JobIsWatched, Watched, Working
  <1>4. CASE RetryReads
    BY <1>1, <1>2, <1>4 DEF RetryReads, Go, rowVars, Working
  <1>5. CASE RetrySaves
    <2> DEFINE renewed == [act["admin"].job EXCEPT !.status = "pending", !.attempts = 0, !.due = TRUE]
    <2>1. CASE Saves(renewed)
      BY <1>3, <1>5, <2>1 DEF RetrySaves
    <2>2. CASE ~Saves(renewed)
      <3>1. job' = job /\ Go("admin", "idle", NoJob, FALSE) /\ act["admin"].at = "retry"
            /\ worker' = worker
        BY <1>5, <2>2 DEF RetrySaves, SaveActivation
      <3> QED BY <1>1, <1>2, <3>1 DEF Go, Working
    <2> QED BY <2>1, <2>2
  <1>6. CASE SignInStarts
    BY <1>2, <1>6 DEF SignInStarts, rowVars
  <1>7. CASE SignInCommits
    BY <1>2, <1>3, <1>7 DEF SignInCommits, rowVars
  <1>8. CASE Edit
    BY <1>1, <1>8 DEF Edit, Go, UpdateConnection, JobIsWatched, Watched, WorkerGaveUp
  <1>9. ASSUME NEW r \in Request, RequestStep(r) PROVE JobIsWatched'
    <2>1. CASE UNCHANGED <<job, worker, act>>
      BY <1>2, <2>1
    <2>2. CASE worker' = Signalled
      BY <1>1, <2>2 DEF Signalled, Loop, JobIsWatched, Watched
    <2> QED BY <1>9, <2>1, <2>2
      DEF RequestStep, Resolve, Issue, Dispatch, RefreshLocks, RefreshAbandoned, ExchangeFails,
          CommitRenewal, LeaseStep, rowVars
  <1> QED BY <1>4, <1>5, <1>6, <1>7, <1>8, <1>9 DEF AdminStep

\* Every step leaves a pending row to somebody.
LEMMA NextWatches ==
  ASSUME ActivationAssumption, IInv, JobIsWatched, [Next]_vars
  PROVE  JobIsWatched'
  <1>1. ASSUME NEW a \in Actor, ActivationStep(a) PROVE JobIsWatched'
    <2>1. CASE a \in Activator
      BY <1>1, <2>1, ActivationWatches, ReloadWatches DEF ActivationStep
    <2>2. CASE a \notin Activator
      <3>1. act[a].at \in {"idle", "reload"} BY <1>1, <2>2 DEF Activator, Actor, IInv, LockInv
      <3>2. ReloadControl(a)
        BY <1>1, <3>1 DEF ActivationStep, ReadActivation, ResetRouting, Recheck, Save
      <3> QED BY <3>2, ReloadWatches
    <2> QED BY <2>1, <2>2
  <1>2. CASE WorkerStep
    BY <1>1, <1>2, LoopWatches DEF WorkerStep, Actor
  <1>3. CASE AttemptFallsDue \/ UNCHANGED vars
    <2>1. job'.status = job.status /\ UNCHANGED <<worker, act>>
      BY <1>3 DEF AttemptFallsDue, vars, rowVars, activationVars, IInv, TypeOK, Row
    <2> QED BY <2>1 DEF JobIsWatched, Watched, WorkerGaveUp
  <1>4. CASE ReloadStep
    BY <1>4, ReloadWatches DEF ReloadStep
  <1>5. CASE Crash
    BY <1>5 DEF Crash, Started, JobIsWatched, Watched
  <1>6. CASE ActivationStep("admin") \/ ActivationStep("edit")
    BY <1>1, <1>6 DEF Actor
  <1>7. CASE AdminStep \/ \E r \in Request : RequestStep(r)
    BY <1>7, CommitWatches
  <1> QED BY <1>2, <1>3, <1>4, <1>5, <1>6, <1>7 DEF Next

\* A committed credential is never forgotten: no wake is lost between the scan of
\* the outbox, the timer, and the activations of sign-ins, retries and renewals
\* (runCredentialActivations, signalCredentialActivation): the safety half of
\* JobsSettle.
THEOREM WatchedCorrect == Spec => []JobIsWatched
  <1>1. Init => JobIsWatched
    BY DEF Init, RowsInit, NoJob, JobIsWatched
  <1>2. IInv /\ JobIsWatched /\ [Next]_vars => JobIsWatched'
    BY NextWatches, ActivationAssumption
  <1> QED BY <1>1, <1>2, CredentialInvariant, PTL DEF Spec
====
