---- MODULE AuthorizationSetupProofs ----
(***************************************************************************)
(* Theorems about AuthorizationSetup, for any number of sessions, steps of *)
(* a session and edits of the connection.                                  *)
(***************************************************************************)
EXTENDS AuthorizationSetup, TLAPS

(***************************************************************************)
(* Types.                                                                  *)
(***************************************************************************)
Point == Admitted \cup {"idle", "due"}
Daemon == {"running", "cancelled", "closed", "drained"}
SessionStatus == Active \cup {"none", "ended", "completed", "gone"}
Credential == [revision: Nat, principal: Nat]
Call == [at: Point, revision: Nat]
Entry ==
  [status: SessionStatus, revision: 0..(MaxRevisions + 1), expected: Credential,
   step: Step, awaitStarted: BOOLEAN, timer: BOOLEAN, late: BOOLEAN,
   key: BOOLEAN, pollTimer: 0..MaxRevisions]

RowType ==
  /\ live \in [enabled: BOOLEAN, revision: Nat, principal: Nat]
  /\ issued \in Nat
  /\ read \subseteq Credential

SetupType ==
  /\ table \in [Session -> Entry]
  /\ call \in [Session -> [Kind -> Call]]
  /\ owner \in 0..MaxSessions
  /\ inFlight \subseteq Session /\ releases \subseteq Session
  /\ bindings \subseteq Session /\ reservations \subseteq Session
  /\ daemon \in Daemon

(***************************************************************************)
(* The inductive invariant.                                                *)
(***************************************************************************)
Running == daemon \in {"running", "cancelled"}

\* At most one call of a session is admitted; while the coordinator is open
\* the session is marked as in flight until that call has ended.
Exclusive(s) ==
  /\ \A j, k \in Kind : call[s][j].at \in Admitted /\ call[s][k].at \in Admitted => j = k
  /\ \A k \in Kind : Running /\ call[s][k].at \in Admitted => s \in inFlight

\* A session that is not active holds nothing; one that was never opened has no
\* call; after the shutdown no session is active.
Blank(s) ==
  /\ table[s].status \notin Active =>
       table[s].revision = 0 /\ ~table[s].key /\ table[s].pollTimer = 0
  /\ table[s].status = "none" => \A k \in Kind : call[s][k].at = "idle"
  /\ table[s].status \in Active => Running

\* The last revision is that of a credential on its way to the commit.
Bounded(s) ==
  table[s].revision = MaxRevisions + 1 => \E k \in Kind : call[s][k].at = "commit"

\* The poll of DrivenByOne: the timer rests while a call is in flight, and one
\* that is not in flight has a timer or a goroutine of its revision.
Polled(s) ==
  /\ s \in inFlight => table[s].pollTimer = 0
  /\ table[s].status = "awaiting" /\ "poll" \in table[s].step /\ ~table[s].late
       /\ s \notin inFlight =>
       \/ table[s].pollTimer = table[s].revision
       \/ call[s]["poll"].at = "due" /\ call[s]["poll"].revision = table[s].revision

SessionInv == \A s \in Session : Exclusive(s) /\ Blank(s) /\ Bounded(s) /\ Polled(s)

OwnerInv == owner # 0 => table[owner].status \in Active

DrainInv == daemon = "drained" => Pending = {}

CallInv == SetupType /\ SessionInv /\ OwnerInv

IInv == RowType /\ CallInv /\ DrainInv /\ CallbacksBelong

\* A step without its await is a step.
LEMMA StepIs == {} \in Step /\ \A step \in Step : step \ {"await"} \in Step
BY DEF Step, Offer

\* A cleared entry is an entry.
LEMMA ClearedIs ==
  ASSUME NEW status \in SessionStatus
  PROVE  /\ Cleared(status) \in Entry
         /\ Cleared(status).status = status /\ Cleared(status).revision = 0
         /\ Cleared(status).key = FALSE /\ Cleared(status).pollTimer = 0
<1>1. /\ NoEntry \in Entry /\ NoEntry.revision = 0 /\ NoEntry.key = FALSE /\ NoEntry.pollTimer = 0
  BY SetupAssumption, StepIs DEF NoEntry, NoCredential, Entry, Credential, SessionStatus
<1> QED
  BY <1>1 DEF Cleared, Entry

\* What the end of a session does to its entry and to everything else.
Ends(s) ==
  /\ table' \in [Session -> Entry]
  /\ \A t \in Session \ {s} : table'[t] = table[t]
  /\ table'[s].status \notin Active
  /\ table'[s].status = "none" => table[s].status = "none"
  /\ table'[s].revision = 0 /\ ~table'[s].key /\ table'[s].pollTimer = 0
  /\ owner' \in 0..MaxSessions /\ owner' \in {0, owner}
  /\ owner = s /\ table[s].status \in Active => owner' = 0
  /\ releases' \subseteq Session
  /\ {t \in Session : table[t].key} \cup releases \subseteq
       {t \in Session : table'[t].key} \cup releases'

LEMMA ClearingEnds ==
  ASSUME SetupType, NEW s \in Session, NEW status \in {"ended", "completed"},
         table' = [table EXCEPT ![s] = Cleared(status)],
         owner' = OwnerAfter(s),
         releases' = IF table[s].key THEN releases \cup {s} ELSE releases
  PROVE  Ends(s)
<1>1. status \in SessionStatus /\ status \notin Active /\ status # "none"
  BY DEF SessionStatus, Active
<1>2. table' \in [Session -> Entry] /\ table'[s] = Cleared(status)
      /\ \A t \in Session \ {s} : table'[t] = table[t]
  BY <1>1, ClearedIs DEF SetupType
<1>3. releases' \subseteq Session /\ {t \in Session : table[t].key} \cup releases \subseteq
            {t \in Session : table'[t].key} \cup releases'
  BY <1>2 DEF SetupType
<1>4. owner' \in {0, owner} /\ (owner = s => owner' = 0)
  BY DEF OwnerAfter
<1>5. owner' \in 0..MaxSessions
  BY <1>4, SessionsAssumption DEF SetupType
<1>6. /\ table'[s].status = status
      /\ table'[s].revision = 0 /\ ~table'[s].key /\ table'[s].pollTimer = 0
  BY <1>1, <1>2, ClearedIs
<1> QED
  BY <1>1, <1>2, <1>3, <1>4, <1>5, <1>6 DEF Ends

LEMMA FinishIs ==
  ASSUME SetupType, SessionInv, NEW s \in Session, Finish(s)
  PROVE  Ends(s)
<1>1. CASE table[s].status \in Active
  BY <1>1, ClearingEnds DEF Finish
<1>2. CASE table[s].status \notin Active
  <2>1. UNCHANGED <<table, owner, releases>>
    BY <1>2 DEF Finish
  <2> QED
    BY <1>2, <2>1 DEF SetupType, SessionInv, Blank, Ends
<1> QED
  BY <1>1, <1>2

\* Effects on the calls of a session.
LEMMA CallIs ==
  ASSUME SetupType, NEW s \in Session, NEW k \in Kind, NEW c \in Call,
         call' = [call EXCEPT ![s][k] = c]
  PROVE  /\ call' \in [Session -> [Kind -> Call]]
         /\ \A t \in Session, j \in Kind : call'[t][j] = IF t = s /\ j = k THEN c ELSE call[t][j]
         /\ \A t \in Session \ {s} : call'[t] = call[t]
BY DEF SetupType

\* The calls a step may install.
LEMMA NoCallType ==
  /\ NoCall \in Call /\ NoCall.at = "idle"
  /\ \A at \in Point, r \in Nat :
       /\ [NoCall EXCEPT !.at = at] = [at |-> at, revision |-> 0]
       /\ [NoCall EXCEPT !.at = at, !.revision = r] = [at |-> at, revision |-> r]
       /\ [at |-> at, revision |-> r] \in Call
<1>1. NoCall \in Call /\ NoCall.at = "idle" /\ NoCall.revision = 0
  BY DEF NoCall, Call, Point
<1>2. ASSUME NEW c \in Call, NEW p \in Point, NEW r \in Nat
      PROVE  /\ [c EXCEPT !.at = p] = [at |-> p, revision |-> c.revision]
             /\ [c EXCEPT !.at = p, !.revision = r] = [at |-> p, revision |-> r]
             /\ [at |-> p, revision |-> r] \in Call
  <2>1. /\ [c EXCEPT !.at = p] = [at |-> p, revision |-> c.revision]
        /\ [at |-> p, revision |-> c.revision] \in Call
        /\ [at |-> p, revision |-> r] \in Call
    BY DEF Call
  <2> DEFINE d == [c EXCEPT !.at = p]
  <2>2. [c EXCEPT !.at = p, !.revision = r] = [d EXCEPT !.revision = r]
    OBVIOUS
  <2> HIDE DEF d
  <2>3. ASSUME d = [at |-> p, revision |-> c.revision], d \in Call
        PROVE  [d EXCEPT !.revision = r] = [at |-> p, revision |-> r]
    BY <2>3 DEF Call
  <2> QED
    BY <2>1, <2>2, <2>3 DEF d
<1> QED
  BY <1>1, <1>2

\* The entries that the steps of a session leave.
LEMMA OpenedIs ==
  ASSUME NEW c \in Credential
  PROVE  LET e == [NoEntry EXCEPT !.status = "starting", !.expected = c]
         IN /\ e \in Entry /\ e.status = "starting" /\ e.revision = 0
            /\ e.key = FALSE /\ e.pollTimer = 0
<1>1. /\ NoEntry \in Entry /\ NoEntry.revision = 0 /\ NoEntry.key = FALSE
      /\ NoEntry.pollTimer = 0
  BY SetupAssumption, StepIs DEF NoEntry, NoCredential, Entry, Credential, SessionStatus
<1> DEFINE d == [NoEntry EXCEPT !.status = "starting"]
<1>2. /\ d \in Entry /\ d.status = "starting" /\ d.revision = 0
      /\ d.key = FALSE /\ d.pollTimer = 0
  BY <1>1 DEF Entry, SessionStatus, Active
<1> HIDE DEF d
<1>3. LET e == [d EXCEPT !.expected = c]
      IN /\ e \in Entry /\ e.status = "starting" /\ e.revision = 0
         /\ e.key = FALSE /\ e.pollTimer = 0
  BY <1>2 DEF Entry
<1> QED
  BY <1>3 DEF d

LEMMA SteppedIs ==
  ASSUME SetupType, NEW s \in Session, NEW step \in Step, table[s].revision < MaxRevisions
  PROVE  Stepped(s, step) \in Entry
<1>1. table[s] \in Entry
  BY DEF SetupType
<1>2. table[s].revision + 1 \in 0..(MaxRevisions + 1) /\ 0 \in 0..MaxRevisions
  BY <1>1, SetupAssumption DEF Entry
<1> QED
  BY <1>1, <1>2 DEF Stepped, ExpiryArmed, Entry, SessionStatus, Active

LEMMA CommittingIs ==
  ASSUME NEW e \in Entry, e.revision <= MaxRevisions
  PROVE  LET f == Committing(e)
         IN /\ f \in Entry /\ f.status = "awaiting" /\ f.key = e.key /\ f.pollTimer = 0
<1> DEFINE a == [e EXCEPT !.status = "awaiting"]
           b == [a EXCEPT !.revision = @ + 1]
           c == [b EXCEPT !.timer = FALSE]
           d == [c EXCEPT !.pollTimer = 0]
<1>1. a \in Entry /\ a.status = "awaiting" /\ a.key = e.key /\ a.revision <= MaxRevisions
  BY DEF Entry, SessionStatus, Active
<1> HIDE DEF a
<1>2. b \in Entry /\ b.status = "awaiting" /\ b.key = e.key
  <2>1. a.revision + 1 \in 0..(MaxRevisions + 1)
    BY <1>1, SetupAssumption DEF Entry
  <2> QED
    BY <1>1, <2>1 DEF Entry
<1> HIDE DEF b
<1>3. c \in Entry /\ c.status = "awaiting" /\ c.key = e.key
  BY <1>2 DEF Entry
<1> HIDE DEF c
<1>4. d \in Entry /\ d.status = "awaiting" /\ d.key = e.key /\ d.pollTimer = 0
  <2>1. 0 \in 0..MaxRevisions
    BY SetupAssumption
  <2> QED
    BY <1>3, <2>1 DEF Entry
<1> QED
  BY <1>4 DEF Committing, a, b, c

(***************************************************************************)
(* A step of one session leaves the others alone.                          *)
(***************************************************************************)
Elsewhere(s) ==
  /\ \A t \in Session \ {s} :
       /\ table'[t] = table[t] /\ call'[t] = call[t]
       /\ t \in inFlight' <=> t \in inFlight
  /\ daemon' = daemon

LEMMA LocalStep ==
  ASSUME SessionInv, NEW s \in Session, Elsewhere(s),
         Exclusive(s)', Blank(s)', Bounded(s)', Polled(s)'
  PROVE  SessionInv'
<1> SUFFICES ASSUME NEW t \in Session \ {s}
             PROVE  Exclusive(t)' /\ Blank(t)' /\ Bounded(t)' /\ Polled(t)'
  BY DEF SessionInv
<1>1. /\ table'[t] = table[t] /\ call'[t] = call[t] /\ daemon' = daemon
      /\ t \in inFlight' <=> t \in inFlight
  BY DEF Elsewhere
<1>2. Exclusive(t) /\ Blank(t) /\ Bounded(t) /\ Polled(t)
  BY DEF SessionInv
<1> QED
  BY <1>1, <1>2 DEF Exclusive, Blank, Bounded, Polled, Running

\* The end of a session by the call that advances it, or by one that was
\* admitted and finds the connection changed.
LEMMA EndSessionKeeps ==
  ASSUME CallInv, NEW s \in Session, NEW k \in Kind, Ends(s),
         call' = EndCall(s, k), inFlight' = inFlight \ {s},
         \A j \in Kind \ {k} : call[s][j].at \notin Admitted,
         UNCHANGED <<bindings, reservations, daemon>>
  PROVE  CallInv'
<1>1. /\ call' = [call EXCEPT ![s][k] = NoCall] /\ inFlight' = inFlight \ {s}
  BY DEF EndCall
<1>2. /\ call' \in [Session -> [Kind -> Call]]
      /\ \A t \in Session, j \in Kind : call'[t][j] = IF t = s /\ j = k THEN NoCall ELSE call[t][j]
      /\ \A t \in Session \ {s} : call'[t] = call[t]
  <2>1. SetupType /\ NoCall \in Call
    BY NoCallType DEF CallInv
  <2> QED
    BY <1>1, <2>1, CallIs
<1>3. SetupType'
  BY <1>1, <1>2 DEF CallInv, SetupType, Ends
<1>4. Elsewhere(s)
  BY <1>1, <1>2 DEF CallInv, Elsewhere, Ends
<1>5. /\ table'[s].status \notin Active
      /\ table'[s].status = "none" => table[s].status = "none"
      /\ table'[s].revision = 0 /\ ~table'[s].key /\ table'[s].pollTimer = 0
  BY DEF Ends
<1>6. Exclusive(s)'
  BY <1>1, <1>2, NoCallType DEF Exclusive, Admitted
<1>7. Blank(s)'
  <2>1. table[s].status = "none" => \A j \in Kind : call'[s][j].at = "idle"
    <3>1. NoCall.at = "idle"
      BY NoCallType
    <3>2. Blank(s)
      BY DEF CallInv, SessionInv
    <3> QED
      BY <1>2, <3>1, <3>2 DEF Blank
  <2> QED
    BY <1>5, <2>1 DEF Blank
<1>8. Bounded(s)' /\ Polled(s)'
  BY <1>5, SetupAssumption DEF Bounded, Polled, Active
<1>9. OwnerInv'
  <2>1. owner # 0 => owner \in Session
    BY SessionsAssumption DEF CallInv, SetupType, Session
  <2> QED
    BY <2>1 DEF CallInv, OwnerInv, Ends
<1> QED
  BY <1>3, <1>4, <1>6, <1>7, <1>8, <1>9, LocalStep DEF CallInv

\* The end of a session from outside: by its user, its timer, or a resume.
LEMMA FinishKeeps ==
  ASSUME CallInv, NEW s \in Session, Ends(s),
         UNCHANGED <<inFlight, call, bindings, reservations, daemon>>
  PROVE  CallInv'
<1>1. SetupType'
  BY DEF CallInv, SetupType, Ends
<1>2. Elsewhere(s)
  BY DEF CallInv, Elsewhere, Ends
<1>3. /\ table'[s].status \notin Active
      /\ table'[s].status = "none" => table[s].status = "none"
      /\ table'[s].revision = 0 /\ ~table'[s].key /\ table'[s].pollTimer = 0
  BY DEF Ends
<1>4. Exclusive(s)' /\ Blank(s)'
  BY <1>3 DEF CallInv, SessionInv, Exclusive, Blank, Running
<1>5. Bounded(s)' /\ Polled(s)'
  BY <1>3, SetupAssumption DEF Bounded, Polled, Active
<1>6. OwnerInv'
  <2>1. owner # 0 => owner \in Session
    BY SessionsAssumption DEF CallInv, SetupType, Session
  <2> QED
    BY <2>1 DEF CallInv, OwnerInv, Ends
<1> QED
  BY <1>1, <1>2, <1>4, <1>5, <1>6, LocalStep DEF CallInv

\* Nothing of a session changes.
LEMMA NothingKeeps ==
  ASSUME CallInv, UNCHANGED <<table, owner, inFlight, call>>,
         daemon' = daemon \/ (daemon = "running" /\ daemon' = "cancelled"),
         releases' \subseteq Session, bindings' \subseteq Session, reservations' \subseteq Session
  PROVE  CallInv'
<1>1. SetupType' /\ OwnerInv'
  BY DEF CallInv, SetupType, OwnerInv, Daemon
<1>2. SessionInv'
  BY DEF CallInv, SessionInv, Exclusive, Blank, Bounded, Polled, Running
<1> QED
  BY <1>1, <1>2 DEF CallInv

LEMMA DeadlineKeeps ==
  ASSUME CallInv, NEW s \in Session, DeadlinePasses(s)
  PROVE  CallInv'
<1>1. /\ table' = [table EXCEPT ![s].late = TRUE]
      /\ UNCHANGED <<owner, inFlight, call, releases, bindings, reservations, daemon>>
  BY DEF DeadlinePasses, Environment, registryVars
<1>2. table[s] \in Entry
  BY DEF CallInv, SetupType
<1>3. /\ table'[s] \in Entry /\ table'[s].late /\ table'[s].status = table[s].status
      /\ table'[s].revision = table[s].revision /\ table'[s].key = table[s].key
      /\ table'[s].pollTimer = table[s].pollTimer
  BY <1>1, <1>2 DEF CallInv, SetupType, Entry
<1>4. table' \in [Session -> Entry] /\ \A t \in Session \ {s} : table'[t] = table[t]
  BY <1>1, <1>3 DEF CallInv, SetupType
<1>5. SetupType' /\ Elsewhere(s)
  BY <1>1, <1>4 DEF CallInv, SetupType, Elsewhere
<1>6. Exclusive(s)' /\ Blank(s)' /\ Bounded(s)' /\ Polled(s)'
  BY <1>1, <1>3 DEF CallInv, SessionInv, Exclusive, Blank, Bounded, Polled, Running
<1>7. OwnerInv'
  <2>1. owner # 0 => owner \in Session
    BY SessionsAssumption DEF CallInv, SetupType, Session
  <2> QED
    BY <1>1, <1>3, <1>4, <2>1 DEF CallInv, OwnerInv
<1> QED
  BY <1>5, <1>6, <1>7, LocalStep DEF CallInv

LEMMA OpenKeeps ==
  ASSUME CallInv, NEW s \in Session, NEW c \in Credential, Open(s, c)
  PROVE  CallInv'
<1> DEFINE e == [NoEntry EXCEPT !.status = "starting", !.expected = c]
           d == [NoCall EXCEPT !.at = "driver"]
<1>1. /\ table[s].status = "none" /\ owner = 0 /\ Running
      /\ table' = [table EXCEPT ![s] = e] /\ owner' = s /\ inFlight' = inFlight \cup {s}
      /\ call' = [call EXCEPT ![s]["start"] = d]
      /\ UNCHANGED <<releases, bindings, reservations, daemon>>
  BY DEF Open, Fresh, Running, Environment, registryVars
<1>2. /\ e \in Entry /\ e.status = "starting" /\ e.revision = 0
      /\ e.key = FALSE /\ e.pollTimer = 0
  BY OpenedIs
<1>3. d \in Call /\ d.at = "driver"
  <2>1. "driver" \in Point /\ 0 \in Nat
    BY DEF Point, Admitted
  <2> QED
    BY <2>1, NoCallType
<1> HIDE DEF e, d
<1>4. table' \in [Session -> Entry] /\ \A t \in Session \ {s} : table'[t] = table[t]
  BY <1>1, <1>2 DEF CallInv, SetupType
<1>5. table'[s] = e
  BY <1>1 DEF CallInv, SetupType
<1>6. "start" \in Kind
  BY DEF Kind
<1>7. /\ call' \in [Session -> [Kind -> Call]]
      /\ \A t \in Session, j \in Kind : call'[t][j] = IF t = s /\ j = "start" THEN d ELSE call[t][j]
      /\ \A t \in Session \ {s} : call'[t] = call[t]
  BY <1>1, <1>3, <1>6, CallIs DEF CallInv
<1>8. SetupType' /\ Elsewhere(s)
  BY <1>1, <1>4, <1>7, SessionsAssumption DEF CallInv, SetupType, Elsewhere, Session
<1>9. \A k \in Kind : call[s][k].at = "idle"
  BY <1>1 DEF CallInv, SessionInv, Blank
<1>10. Exclusive(s)'
  BY <1>1, <1>7, <1>9 DEF Exclusive, Admitted
<1>11. Blank(s)' /\ Bounded(s)' /\ Polled(s)'
  BY <1>1, <1>2, <1>5, SetupAssumption DEF Blank, Bounded, Polled, Active, Running
<1>12. OwnerInv'
  BY <1>1, <1>2, <1>5 DEF OwnerInv, Active
<1> QED
  BY <1>8, <1>10, <1>11, <1>12, LocalStep DEF CallInv

\* The calls of a session while another one is admitted.
LEMMA OneAdmitted ==
  ASSUME CallInv, NEW s \in Session, NEW k \in Kind, call[s][k].at \in Admitted
  PROVE  /\ \A j \in Kind \ {k} : call[s][j].at \notin Admitted
         /\ table[s].status # "none"
         /\ Running => s \in inFlight
         /\ call[s][k].at # "commit" => table[s].revision <= MaxRevisions
<1>1. \A j \in Kind \ {k} : call[s][j].at \notin Admitted
  BY DEF CallInv, SessionInv, Exclusive
<1>2. table[s].status # "none" /\ (Running => s \in inFlight)
  BY DEF CallInv, SessionInv, Exclusive, Blank, Admitted
<1>3. call[s][k].at # "commit" => table[s].revision # MaxRevisions + 1
  BY <1>1 DEF CallInv, SessionInv, Bounded, Admitted
<1>4. table[s].revision \in 0..(MaxRevisions + 1)
  BY DEF CallInv, SetupType, Entry
<1> QED
  BY <1>1, <1>2, <1>3, <1>4, SetupAssumption

\* A step that keeps an entry active, or leaves what Blank says of it.
LEMMA EntryKeeps ==
  ASSUME CallInv, NEW s \in Session, NEW e \in Entry,
         table' = [table EXCEPT ![s] = e],
         call' \in [Session -> [Kind -> Call]],
         \A t \in Session \ {s} : call'[t] = call[t],
         \/ e.status \in Active /\ Running
         \/ /\ e.status = table[s].status /\ e.revision = table[s].revision
            /\ e.key = table[s].key /\ e.pollTimer = table[s].pollTimer
            /\ e.status = "none" => \A k \in Kind : call'[s][k].at = "idle",
         UNCHANGED <<owner, daemon>>,
         inFlight' = inFlight \cup {s} \/ inFlight' = inFlight \ {s} \/ inFlight' = inFlight,
         releases' \subseteq Session, bindings' \subseteq Session, reservations' \subseteq Session,
         Exclusive(s)', Polled(s)', Bounded(s)'
  PROVE  CallInv'
<1>1. table' \in [Session -> Entry] /\ table'[s] = e /\ \A t \in Session \ {s} : table'[t] = table[t]
  BY DEF CallInv, SetupType
<1>2. SetupType' /\ Elsewhere(s)
  BY <1>1 DEF CallInv, SetupType, Elsewhere
<1>3. Blank(s)'
  BY <1>1 DEF CallInv, SessionInv, Blank, Running, Active
<1>4. OwnerInv'
  <2>1. owner # 0 => owner \in Session
    BY SessionsAssumption DEF CallInv, SetupType, Session
  <2> QED
    BY <1>1, <2>1 DEF CallInv, OwnerInv
<1> QED
  BY <1>2, <1>3, <1>4, LocalStep DEF CallInv

\* What admission writes.
LEMMA AdmittedIs ==
  ASSUME NEW d \in Entry
  PROVE  \A e \in {PollTaken(d), AwaitTaken(d)} :
           /\ e \in Entry /\ e.status = d.status /\ e.revision = d.revision
           /\ e.key = d.key /\ e.pollTimer = 0
<1> DEFINE x == [d EXCEPT !.pollTimer = 0]
           y == [x EXCEPT !.step = @ \ {"await"}]
           z == [y EXCEPT !.awaitStarted = FALSE]
<1>1. /\ x \in Entry /\ x.status = d.status /\ x.revision = d.revision
      /\ x.key = d.key /\ x.pollTimer = 0
  <2>1. 0 \in 0..MaxRevisions
    BY SetupAssumption
  <2> QED
    BY <2>1 DEF Entry
<1>2. PollTaken(d) = x
  BY DEF PollTaken
<1> HIDE DEF x
<1>3. /\ y \in Entry /\ y.status = d.status /\ y.revision = d.revision
      /\ y.key = d.key /\ y.pollTimer = 0
  BY <1>1, StepIs DEF Entry
<1> HIDE DEF y
<1>4. /\ z \in Entry /\ z.status = d.status /\ z.revision = d.revision
      /\ z.key = d.key /\ z.pollTimer = 0
  BY <1>3 DEF Entry
<1>5. AwaitTaken(d) = z
  BY DEF AwaitTaken, x, y
<1> HIDE DEF z
<1> QED
  BY <1>1, <1>2, <1>4, <1>5

LEMMA AdmitKeeps ==
  ASSUME CallInv, NEW s \in Session, NEW k \in Kind, NEW revision, NEW valid \in BOOLEAN,
         Admits(s, revision), Admit(s, k, valid)
  PROVE  CallInv'
<1>1. /\ Running /\ table[s].status = "awaiting" /\ s \notin inFlight
      /\ \A j \in Kind : call[s][j].at \notin Admitted
  BY DEF Admits, Running, CallInv, SessionInv, Exclusive
<1>2. UNCHANGED <<bindings, reservations, daemon>>
  BY DEF Admit, Environment, registryVars
<1>3. CASE EndSession(s, k)
  <2>1. Ends(s)
    BY <1>3, FinishIs DEF CallInv, EndSession
  <2> QED
    BY <1>1, <1>2, <1>3, <2>1, EndSessionKeeps DEF EndSession
<1>4. CASE ~EndSession(s, k)
  <2> DEFINE c == [NoCall EXCEPT !.at = IF valid THEN "driver" ELSE "release"]
  <2>1. /\ inFlight' = inFlight \cup {s}
        /\ table' = [table EXCEPT ![s] = IF k = "await" THEN AwaitTaken(@) ELSE PollTaken(@)]
        /\ call' = [call EXCEPT ![s][k] = c]
        /\ UNCHANGED <<owner, releases>>
    BY <1>4 DEF Admit
  <2>2. c \in Call /\ c.at \in Admitted
    <3>1. "driver" \in Point /\ "release" \in Point /\ 0 \in Nat
      BY DEF Point, Admitted
    <3> QED
      BY <3>1, NoCallType DEF Admitted
  <2> HIDE DEF c
  <2>3. PICK e \in Entry :
          /\ table' = [table EXCEPT ![s] = e]
          /\ e.status = table[s].status /\ e.revision = table[s].revision
          /\ e.key = table[s].key /\ e.pollTimer = 0
    <3>1. table[s] \in Entry
      BY DEF CallInv, SetupType
    <3> DEFINE e == IF k = "await" THEN AwaitTaken(table[s]) ELSE PollTaken(table[s])
    <3>2. e \in {PollTaken(table[s]), AwaitTaken(table[s])} /\ table' = [table EXCEPT ![s] = e]
      BY <2>1
    <3> HIDE DEF e
    <3> QED
      BY <3>1, <3>2, AdmittedIs
  <2>4. /\ \A j \in Kind : call'[s][j] = IF j = k THEN c ELSE call[s][j]
        /\ call' \in [Session -> [Kind -> Call]] /\ \A t \in Session \ {s} : call'[t] = call[t]
    BY <2>1, <2>2, CallIs DEF CallInv
  <2>5. Exclusive(s)'
    BY <1>1, <2>1, <2>4 DEF Exclusive
  <2>6. Polled(s)'
    BY <2>1, <2>3 DEF Polled, CallInv, SetupType
  <2>7. Bounded(s)'
    <3>1. table'[s].revision = table[s].revision
      BY <2>3 DEF CallInv, SetupType
    <3>2. table[s].revision # MaxRevisions + 1
      BY <1>1 DEF CallInv, SessionInv, Bounded, Admitted
    <3> QED
      BY <3>1, <3>2 DEF Bounded
  <2>8. /\ releases' \subseteq Session /\ bindings' \subseteq Session /\ reservations' \subseteq Session
        /\ e.status \in Active
    BY <1>1, <1>2, <2>1, <2>3 DEF CallInv, SetupType, Active
  <2> QED
    BY <1>1, <1>2, <2>1, <2>3, <2>4, <2>5, <2>6, <2>7, <2>8, EntryKeeps
<1> QED
  BY <1>3, <1>4

\* A due call that is refused: the poll of the current revision is never one.
LEMMA RefuseKeeps ==
  ASSUME CallInv, NEW s \in Session, NEW k \in {"poll", "await"}, call[s][k].at = "due",
         Refuse(s, k), k = "poll" => ~Admits(s, call[s][k].revision)
  PROVE  CallInv'
<1>1. /\ call' = [call EXCEPT ![s][k] = NoCall]
      /\ UNCHANGED <<table, owner, inFlight, releases, bindings, reservations, daemon>>
  BY DEF Refuse, EndCall, Environment, registryVars
<1>2. k \in Kind /\ "poll" \in Kind
  BY DEF Kind
<1>3. /\ table[s] \in Entry /\ table' = [table EXCEPT ![s] = table[s]]
      /\ NoCall \in Call /\ NoCall.at = "idle"
  BY <1>1, NoCallType DEF CallInv, SetupType
<1>4. /\ \A j \in Kind : call'[s][j] = IF j = k THEN NoCall ELSE call[s][j]
      /\ call' \in [Session -> [Kind -> Call]] /\ \A t \in Session \ {s} : call'[t] = call[t]
  BY <1>1, <1>2, NoCallType, CallIs DEF CallInv
<1>5. Exclusive(s)' /\ Bounded(s)'
  BY <1>1, <1>2, <1>3, <1>4 DEF CallInv, SessionInv, Exclusive, Bounded, Running, Admitted
<1>6. Polled(s)'
  <2> SUFFICES ASSUME table[s].status = "awaiting", "poll" \in table[s].step, ~table[s].late,
                      s \notin inFlight, table[s].pollTimer # table[s].revision
               PROVE  k # "poll"
    BY <1>1, <1>2, <1>4 DEF CallInv, SessionInv, Polled
  <2>1. call[s]["poll"].revision = table[s].revision
    BY DEF CallInv, SessionInv, Polled
  <2>2. Running
    BY DEF CallInv, SessionInv, Blank, Active
  <2> QED
    BY <2>1, <2>2 DEF Admits, Running
<1>7. releases' \subseteq Session /\ bindings' \subseteq Session /\ reservations' \subseteq Session
  BY <1>1 DEF CallInv, SetupType
<1>8. table[s].status = "none" => \A j \in Kind : call'[s][j].at = "idle"
  BY <1>3, <1>4 DEF CallInv, SessionInv, Blank
<1> QED
  BY <1>1, <1>3, <1>4, <1>5, <1>6, <1>7, <1>8, EntryKeeps

LEMMA PollFiresKeeps ==
  ASSUME CallInv, NEW s \in Session, PollFires(s)
  PROVE  CallInv'
<1> DEFINE c == [NoCall EXCEPT !.at = "due", !.revision = table[s].pollTimer]
           e == [table[s] EXCEPT !.pollTimer = 0]
<1>1. /\ table[s].pollTimer # 0 /\ call[s]["poll"].at = "idle"
      /\ call' = [call EXCEPT ![s]["poll"] = c] /\ table' = [table EXCEPT ![s] = e]
      /\ UNCHANGED <<owner, inFlight, releases, bindings, reservations, daemon>>
  BY DEF PollFires, Environment, registryVars
<1>2. "poll" \in Kind /\ table[s] \in Entry /\ 0 \in 0..MaxRevisions /\ table[s].pollTimer \in Nat
  BY SetupAssumption DEF Kind, CallInv, SetupType, Entry
<1>3. /\ e \in Entry /\ e.status = table[s].status /\ e.revision = table[s].revision
      /\ e.key = table[s].key /\ e.step = table[s].step /\ e.late = table[s].late
  BY <1>2 DEF Entry
<1>4. c \in Call /\ c.at = "due" /\ c.revision = table[s].pollTimer
  <2>1. "due" \in Point
    BY DEF Point
  <2> QED
    BY <1>2, <2>1, NoCallType
<1> HIDE DEF c, e
<1>5. table[s].status \in Active
  BY <1>1 DEF CallInv, SessionInv, Blank
<1>6. /\ \A j \in Kind : call'[s][j] = IF j = "poll" THEN c ELSE call[s][j]
      /\ call' \in [Session -> [Kind -> Call]] /\ \A t \in Session \ {s} : call'[t] = call[t]
  BY <1>1, <1>2, <1>4, CallIs DEF CallInv
<1>7. table'[s] = e
  BY <1>1 DEF CallInv, SetupType
<1>8. Exclusive(s)' /\ Bounded(s)'
  BY <1>1, <1>2, <1>3, <1>4, <1>6, <1>7
     DEF CallInv, SessionInv, Exclusive, Bounded, Running, Admitted
<1>9. Polled(s)'
  <2>1. Polled(s)
    BY DEF CallInv, SessionInv
  <2> QED
    BY <1>1, <1>2, <1>3, <1>4, <1>6, <1>7, <2>1 DEF Polled
<1>10. /\ releases' \subseteq Session /\ bindings' \subseteq Session /\ reservations' \subseteq Session
       /\ e.status \in Active /\ Running
  BY <1>1, <1>3, <1>5 DEF CallInv, SetupType, SessionInv, Blank
<1> QED
  BY <1>1, <1>3, <1>6, <1>8, <1>9, <1>10, EntryKeeps

\* A step of the driver leaves the session in flight, with one call admitted.
LEMMA CallMoves ==
  ASSUME CallInv, NEW s \in Session, NEW k \in Kind, call[s][k].at \in Admitted,
         NEW at \in Admitted, Go(s, k, at), UNCHANGED <<inFlight, daemon>>, Running,
         table'[s].pollTimer = 0
  PROVE  /\ call' \in [Session -> [Kind -> Call]]
         /\ \A t \in Session \ {s} : call'[t] = call[t]
         /\ call'[s][k].at = at
         /\ Exclusive(s)' /\ Polled(s)'
<1> DEFINE c == [call[s][k] EXCEPT !.at = at]
<1>1. call[s][k] \in Call /\ call' = [call EXCEPT ![s][k] = c]
  BY DEF CallInv, SetupType, Go
<1>2. c \in Call /\ c.at = at
  BY <1>1 DEF Call, Point
<1> HIDE DEF c
<1>3. /\ call' \in [Session -> [Kind -> Call]]
      /\ \A j \in Kind : call'[s][j] = IF j = k THEN c ELSE call[s][j]
      /\ \A t \in Session \ {s} : call'[t] = call[t]
  BY <1>1, <1>2, CallIs DEF CallInv
<1>4. s \in inFlight /\ \A j \in Kind \ {k} : call[s][j].at \notin Admitted
  BY OneAdmitted
<1>5. Exclusive(s)'
  BY <1>2, <1>3, <1>4 DEF Exclusive
<1>6. Polled(s)'
  BY <1>4 DEF Polled
<1> QED
  BY <1>2, <1>3, <1>5, <1>6

LEMMA PrepareKeeps ==
  ASSUME CallInv, NEW s \in Session, NEW k \in Kind, Prepare(s, k)
  PROVE  CallInv'
<1> DEFINE e == [table[s] EXCEPT !.key = TRUE]
<1>1. /\ call[s][k].at = "driver" /\ table[s].status \in Active /\ s \in inFlight
      /\ table' = [table EXCEPT ![s] = e]
      /\ UNCHANGED <<owner, inFlight, call, releases, daemon>>
      /\ bindings' \subseteq Session /\ reservations' \subseteq Session
  BY DEF Prepare, Reserves, ReservesByHand, CallInv, SetupType
<1>2. table[s] \in Entry
  BY DEF CallInv, SetupType
<1>3. /\ e \in Entry /\ e.status = table[s].status /\ e.revision = table[s].revision
      /\ e.pollTimer = table[s].pollTimer
  BY <1>2 DEF Entry
<1> HIDE DEF e
<1>4. Running
  BY <1>1 DEF CallInv, SessionInv, Blank
<1>5. table'[s] = e
  BY <1>1 DEF CallInv, SetupType
<1>6. Exclusive(s)' /\ Polled(s)' /\ Bounded(s)'
  BY <1>1, <1>3, <1>5 DEF CallInv, SessionInv, Exclusive, Polled, Bounded, Running
<1> QED
  BY <1>1, <1>3, <1>4, <1>6, EntryKeeps DEF CallInv, SetupType

LEMMA RejectKeeps ==
  ASSUME CallInv, NEW s \in Session, NEW k \in Kind, RejectInput(s, k)
  PROVE  CallInv'
<1>1. /\ call[s][k].at = "driver" /\ Go(s, k, "release")
      /\ daemon = "running" /\ table[s].status \in Active
      /\ UNCHANGED <<table, owner, inFlight, releases, bindings, reservations, daemon>>
  BY DEF RejectInput, ContextOver, Environment, registryVars
<1>2. "driver" \in Admitted /\ "release" \in Admitted /\ Running
  BY <1>1 DEF Admitted, Running
<1>3. /\ call' \in [Session -> [Kind -> Call]]
      /\ \A t \in Session \ {s} : call'[t] = call[t]
      /\ Exclusive(s)' /\ Polled(s)'
  <2>1. s \in inFlight
    BY <1>1, <1>2, OneAdmitted
  <2>2. table'[s].pollTimer = 0
    BY <1>1, <2>1 DEF CallInv, SessionInv, Polled
  <2> QED
    BY <1>1, <1>2, <2>2, CallMoves
<1>4. table[s] \in Entry /\ table' = [table EXCEPT ![s] = table[s]]
  BY <1>1 DEF CallInv, SetupType
<1>5. Bounded(s)'
  <2>1. table[s].revision <= MaxRevisions
    BY <1>1, <1>2, OneAdmitted
  <2> QED
    BY <1>1, <1>4, <2>1, SetupAssumption DEF Bounded, Entry
<1> QED
  BY <1>1, <1>2, <1>3, <1>4, <1>5, EntryKeeps DEF CallInv, SetupType

LEMMA ApplyCredentialKeeps ==
  ASSUME CallInv, NEW s \in Session, NEW k \in Kind, ApplyCredential(s, k)
  PROVE  CallInv'
<1> DEFINE e == Committing(table[s])
<1>1. /\ call[s][k].at = "driver" /\ daemon = "running" /\ Go(s, k, "commit")
      /\ table' = [table EXCEPT ![s] = e]
      /\ UNCHANGED <<owner, inFlight, releases, bindings, reservations, daemon>>
  BY DEF ApplyCredential, Applies, ContextOver, Environment, registryVars
<1>2. "driver" \in Admitted /\ "commit" \in Admitted /\ Running
  BY <1>1 DEF Admitted, Running
<1>3. table[s] \in Entry /\ table[s].revision <= MaxRevisions
  BY <1>1, <1>2, OneAdmitted DEF CallInv, SetupType
<1>4. e \in Entry /\ e.status \in Active /\ e.pollTimer = 0
  BY <1>3, CommittingIs DEF Active
<1> HIDE DEF e
<1>5. /\ call' \in [Session -> [Kind -> Call]]
      /\ \A t \in Session \ {s} : call'[t] = call[t]
      /\ call'[s][k].at = "commit"
      /\ Exclusive(s)' /\ Polled(s)'
  <2>1. table'[s].pollTimer = 0
    BY <1>1, <1>4 DEF CallInv, SetupType
  <2> QED
    BY <1>1, <1>2, <2>1, CallMoves
<1>6. Bounded(s)'
  BY <1>5 DEF Bounded
<1> QED
  BY <1>1, <1>2, <1>4, <1>5, <1>6, EntryKeeps DEF CallInv, SetupType

LEMMA ApplyStepKeeps ==
  ASSUME CallInv, NEW s \in Session, NEW k \in Kind, NEW step \in Step, NEW granted \in BOOLEAN,
         ApplyStep(s, k, step, granted)
  PROVE  CallInv'
<1> DEFINE e == Stepped(s, step)
<1>1. /\ call[s][k].at = "driver" /\ daemon = "running" /\ Go(s, k, "release")
      /\ table[s].revision < MaxRevisions
      /\ table' = [table EXCEPT ![s] = e]
      /\ UNCHANGED <<owner, inFlight, releases, daemon>>
      /\ bindings' \subseteq Session /\ reservations' \subseteq Session
  BY DEF ApplyStep, Applies, ContextOver, Replaces, CallInv, SetupType
<1>2. "driver" \in Admitted /\ "release" \in Admitted /\ Running
  BY <1>1 DEF Admitted, Running
<1>3. e \in Entry
  BY <1>1, SteppedIs DEF CallInv
<1>4. e.status \in Active /\ e.revision # MaxRevisions + 1 /\ e.pollTimer = 0
  <2>1. table[s].revision \in Nat
    BY DEF CallInv, SetupType, Entry
  <2> QED
    BY <1>1, <2>1, SetupAssumption DEF Stepped, Active
<1> HIDE DEF e
<1>5. table'[s] = e
  BY <1>1 DEF CallInv, SetupType
<1>6. /\ call' \in [Session -> [Kind -> Call]]
      /\ \A t \in Session \ {s} : call'[t] = call[t]
      /\ Exclusive(s)' /\ Polled(s)'
  BY <1>1, <1>2, <1>4, <1>5, CallMoves
<1>7. Bounded(s)'
  BY <1>4, <1>5 DEF Bounded
<1> QED
  BY <1>1, <1>2, <1>3, <1>4, <1>6, <1>7, EntryKeeps DEF CallInv, SetupType

LEMMA CommitKeeps ==
  ASSUME CallInv, NEW s \in Session, NEW k \in Kind, Commit(s, k)
  PROVE  CallInv'
<1>1. /\ call[s][k].at = "commit" /\ call' = EndCall(s, k) /\ inFlight' = inFlight \ {s}
      /\ UNCHANGED <<bindings, reservations, daemon>>
  BY DEF Commit, EndSession, registryVars
<1>2. \A j \in Kind \ {k} : call[s][j].at \notin Admitted
  BY <1>1, OneAdmitted DEF Admitted
<1>3. Ends(s)
  <2>1. \/ Finish(s)
        \/ /\ table' = [table EXCEPT ![s] = Cleared("completed")]
           /\ owner' = OwnerAfter(s)
           /\ releases' = IF table[s].key THEN releases \cup {s} ELSE releases
    BY DEF Commit, EndSession
  <2> QED
    BY <2>1, FinishIs, ClearingEnds DEF CallInv
<1> QED
  BY <1>1, <1>2, <1>3, EndSessionKeeps

LEMMA FailKeeps ==
  ASSUME CallInv, NEW s \in Session, NEW k \in Kind, DriverFails(s, k)
  PROVE  CallInv'
<1>1. /\ call[s][k].at = "driver" /\ call' = EndCall(s, k) /\ inFlight' = inFlight \ {s}
      /\ Finish(s) /\ UNCHANGED <<bindings, reservations, daemon>>
  BY DEF DriverFails, EndSession, Environment, registryVars
<1>2. \A j \in Kind \ {k} : call[s][j].at \notin Admitted
  BY <1>1, OneAdmitted DEF Admitted
<1>3. Ends(s)
  BY <1>1, FinishIs DEF CallInv
<1> QED
  BY <1>1, <1>2, <1>3, EndSessionKeeps

\* The release of a call arms the poll of the revision it leaves behind.
LEMMA ReleaseKeeps ==
  ASSUME CallInv, NEW s \in Session, NEW k \in Kind, Release(s, k)
  PROVE  CallInv'
<1> DEFINE t == table[s]
           e == Released(t)
           due == DueAwait(s)
<1>1. /\ call[s][k].at = "release" /\ inFlight' = inFlight \ {s}
      /\ table' = [table EXCEPT ![s] = e]
      /\ call' = IF Awaits(t) THEN [EndCall(s, k) EXCEPT ![s]["await"] = due] ELSE EndCall(s, k)
      /\ UNCHANGED <<owner, releases, bindings, reservations, daemon>>
  BY DEF Release, Environment, registryVars
<1>2. /\ \A j \in Kind \ {k} : call[s][j].at \notin Admitted
      /\ t.status # "none" /\ t.revision <= MaxRevisions
  BY <1>1, OneAdmitted DEF Admitted
<1>3. t \in Entry /\ t.revision \in 0..MaxRevisions /\ t.revision \in Nat
  BY <1>2, SetupAssumption DEF CallInv, SetupType, Entry
<1>4. /\ e \in Entry /\ e.status = t.status /\ e.revision = t.revision /\ e.key = t.key
      /\ e.step = t.step
      /\ e.pollTimer = IF t.status = "awaiting" /\ "poll" \in t.step THEN t.revision ELSE t.pollTimer
  <2> DEFINE poll == IF t.status = "awaiting" /\ "poll" \in t.step THEN t.revision ELSE t.pollTimer
             b == Awaits(t)
             x == [t EXCEPT !.pollTimer = poll]
             y == [x EXCEPT !.awaitStarted = @ \/ b]
  <2>1. /\ x \in Entry /\ x.status = t.status /\ x.revision = t.revision /\ x.key = t.key
        /\ x.step = t.step /\ x.pollTimer = poll
    BY <1>3 DEF Entry
  <2> HIDE DEF x, poll
  <2>2. b \in BOOLEAN
    BY DEF Awaits
  <2> HIDE DEF b
  <2>3. /\ y \in Entry /\ y.status = t.status /\ y.revision = t.revision /\ y.key = t.key
        /\ y.step = t.step /\ y.pollTimer = poll
    BY <2>1, <2>2 DEF Entry
  <2>4. e = y
    BY DEF Released, x, poll, b
  <2> QED
    BY <2>3, <2>4 DEF poll
<1>5. due \in Call /\ due.at = "due"
  <2>1. "due" \in Point
    BY DEF Point
  <2> QED
    BY <1>3, <2>1, NoCallType DEF DueAwait
<1> HIDE DEF e, due
<1>6. /\ call' \in [Session -> [Kind -> Call]]
      /\ \A r \in Session \ {s} : call'[r] = call[r]
      /\ \A j \in Kind : call'[s][j].at \notin Admitted
  <2> DEFINE ended == EndCall(s, k)
  <2>1. /\ ended \in [Session -> [Kind -> Call]]
        /\ \A r \in Session \ {s} : ended[r] = call[r]
        /\ \A j \in Kind : ended[s][j] = IF j = k THEN NoCall ELSE call[s][j]
    BY NoCallType DEF EndCall, CallInv, SetupType
  <2> HIDE DEF ended
  <2>2. "await" \in Kind
    BY DEF Kind
  <2>3. /\ [ended EXCEPT ![s]["await"] = due] \in [Session -> [Kind -> Call]]
        /\ \A r \in Session \ {s} : [ended EXCEPT ![s]["await"] = due][r] = ended[r]
        /\ \A j \in Kind : [ended EXCEPT ![s]["await"] = due][s][j]
                             = IF j = "await" THEN due ELSE ended[s][j]
    BY <1>5, <2>1, <2>2
  <2>4. call' = IF Awaits(t) THEN [ended EXCEPT ![s]["await"] = due] ELSE ended
    BY <1>1 DEF ended
  <2>5. "idle" \notin Admitted /\ "due" \notin Admitted /\ NoCall.at = "idle"
    BY NoCallType DEF Admitted
  <2> QED
    BY <1>2, <1>5, <2>1, <2>3, <2>4, <2>5
<1>7. Exclusive(s)'
  BY <1>6 DEF Exclusive
<1>8. table'[s] = e
  BY <1>1 DEF CallInv, SetupType
<1>9. Polled(s)' /\ Bounded(s)'
  BY <1>1, <1>3, <1>4, <1>8, SetupAssumption DEF Polled, Bounded
<1>10. \/ e.status \in Active /\ Running
       \/ e.status = t.status /\ e.revision = t.revision /\ e.key = t.key
          /\ e.pollTimer = t.pollTimer /\ e.status # "none"
  BY <1>2, <1>4 DEF CallInv, SessionInv, Blank, Active
<1> QED
  BY <1>1, <1>4, <1>6, <1>7, <1>9, <1>10, EntryKeeps DEF CallInv, SetupType

(***************************************************************************)
(* The steps of Next.                                                      *)
(***************************************************************************)
\* The two ways in which a call is admitted or refused.
LEMMA AdmissionKeeps ==
  ASSUME CallInv, NEW s \in Session,
         Submit(s) \/ Background(s, "poll") \/ Background(s, "await")
  PROVE  CallInv'
<1>1. {"submit", "poll", "await"} \subseteq Kind
  BY DEF Kind
<1>2. CASE Submit(s)
  <2>1. PICK valid \in BOOLEAN : Admit(s, "submit", valid)
    BY <1>2 DEF Submit
  <2>2. Admits(s, table[s].revision)
    BY <1>2 DEF Submit
  <2> QED
    BY <1>1, <2>1, <2>2, AdmitKeeps
<1>3. ASSUME NEW k \in {"poll", "await"}, Background(s, k) PROVE CallInv'
  <2>1. call[s][k].at = "due"
    BY <1>3 DEF Background
  <2>2. \/ Admits(s, call[s][k].revision) /\ Admit(s, k, TRUE)
        \/ Refuse(s, k) /\ (k = "poll" => ~Admits(s, call[s][k].revision))
    BY <1>3 DEF Background
  <2> QED
    BY <1>1, <2>1, <2>2, AdmitKeeps, RefuseKeeps
<1> QED
  BY <1>2, <1>3

LEMMA SessionKeepsCalls ==
  ASSUME CallInv, read \subseteq Credential, NEW s \in Session,
         SessionStep(s) \/ TimeStep(s) \/ UserStep(s)
  PROVE  CallInv'
<1>1. ASSUME NEW k \in Kind, CallStep(s, k) PROVE CallInv'
  BY <1>1, PrepareKeeps, FailKeeps, RejectKeeps, ApplyCredentialKeeps, ApplyStepKeeps,
     CommitKeeps, ReleaseKeeps DEF CallStep, DriverAnswers
<1>3. CASE Expires(s) \/ Cancel(s) \/ Prune(s)
  <2>1. Finish(s) /\ UNCHANGED <<inFlight, call, bindings, reservations, daemon>>
    BY <1>3 DEF Expires, Cancel, Prune, Environment, registryVars
  <2> QED
    BY <2>1, FinishIs, FinishKeeps DEF CallInv
<1>4. ASSUME NEW c \in read, Resume(s, c) PROVE CallInv'
  <2>1. UNCHANGED <<inFlight, call, bindings, reservations, daemon>>
    BY <1>4 DEF Resume, Environment, registryVars
  <2>2. CASE Finish(s)
    BY <2>1, <2>2, FinishIs, FinishKeeps DEF CallInv
  <2>3. CASE UNCHANGED <<table, owner, releases>>
    BY <2>1, <2>3, NothingKeeps DEF CallInv, SetupType
  <2> QED
    BY <1>4, <2>2, <2>3 DEF Resume
<1>5. CASE ReleaseGrants(s)
  BY <1>5, NothingKeeps DEF ReleaseGrants, ReleaseOwner, CallInv, SetupType
<1>6. ASSUME NEW c \in read, Open(s, c) PROVE CallInv'
  BY <1>6, OpenKeeps
<1>7. CASE DeadlinePasses(s) \/ PollFires(s)
  BY <1>7, DeadlineKeeps, PollFiresKeeps
<1> QED
  BY <1>1, <1>3, <1>4, <1>5, <1>6, <1>7, AdmissionKeeps DEF SessionStep, TimeStep, UserStep

\* The shutdown ends every session and forgets which one is in flight; the
\* calls that were admitted go on.
LEMMA CancelSessionsKeeps ==
  ASSUME CallInv, CancelSessions
  PROVE  CallInv'
<1> DEFINE e(s) == IF table[s].status = "none" THEN NoEntry ELSE Cleared("gone")
<1>1. /\ table' = [s \in Session |-> e(s)] /\ daemon' = "closed" /\ owner' = 0 /\ inFlight' = {}
      /\ releases' = releases \cup {s \in Session : table[s].key}
      /\ UNCHANGED <<call, bindings, reservations>>
  BY DEF CancelSessions, Cleared, registryVars
<1>2. /\ NoEntry \in Entry /\ NoEntry.status = "none" /\ NoEntry.revision = 0
      /\ NoEntry.key = FALSE /\ NoEntry.pollTimer = 0
  BY SetupAssumption, StepIs DEF NoEntry, NoCredential, Entry, Credential, SessionStatus
<1>3. /\ Cleared("gone") \in Entry /\ Cleared("gone").status = "gone"
      /\ Cleared("gone").revision = 0 /\ Cleared("gone").key = FALSE /\ Cleared("gone").pollTimer = 0
  <2>1. "gone" \in SessionStatus
    BY DEF SessionStatus
  <2> QED
    BY <2>1, ClearedIs
<1>4. \A s \in Session :
        /\ table'[s] \in Entry /\ table'[s].status \notin Active
        /\ table'[s].revision = 0 /\ ~table'[s].key /\ table'[s].pollTimer = 0
        /\ table'[s].status = "none" => table[s].status = "none"
  <2>1. "none" \notin Active /\ "gone" \notin Active
    BY DEF Active
  <2> QED
    BY <1>1, <1>2, <1>3, <2>1
<1>5. SetupType'
  BY <1>1, <1>4, SessionsAssumption DEF CallInv, SetupType, Daemon
<1>6. SessionInv'
  <2> SUFFICES ASSUME NEW s \in Session
               PROVE  Exclusive(s)' /\ Blank(s)' /\ Bounded(s)' /\ Polled(s)'
    BY DEF SessionInv
  <2>1. Exclusive(s) /\ Blank(s)
    BY DEF CallInv, SessionInv
  <2>2. Exclusive(s)' /\ Blank(s)'
    BY <1>1, <1>4, <2>1 DEF Exclusive, Blank, Running
  <2>3. Bounded(s)' /\ Polled(s)'
    BY <1>4, SetupAssumption DEF Bounded, Polled, Active
  <2> QED
    BY <2>2, <2>3
<1> QED
  BY <1>1, <1>5, <1>6 DEF CallInv, OwnerInv

LEMMA NextKeepsCalls ==
  ASSUME CallInv, read \subseteq Credential, [Next]_vars
  PROVE  CallInv'
<1>1. ASSUME NEW s \in Session, SessionStep(s) \/ TimeStep(s) \/ UserStep(s) PROVE CallInv'
  BY <1>1, SessionKeepsCalls
<1>2. CASE Edit \/ CancelContext
  BY <1>2, NothingKeeps DEF Edit, CancelContext, registryVars, sessionVars, CallInv, SetupType
<1>3. CASE Drain
  <2>1. /\ SetupType' /\ OwnerInv'
    BY <1>3 DEF Drain, CloseRegistry, sessionVars, CallInv, SetupType, OwnerInv, Daemon
  <2>2. SessionInv'
    BY <1>3 DEF Drain, sessionVars, CallInv, SessionInv, Exclusive, Blank, Bounded, Polled, Running
  <2> QED
    BY <2>1, <2>2 DEF CallInv
<1>4. CASE UNCHANGED vars
  BY <1>4, NothingKeeps DEF vars, registryVars, sessionVars, CallInv, SetupType
<1> QED
  BY <1>1, <1>2, <1>3, <1>4, CancelSessionsKeeps DEF Next

\* A step of a session leaves the daemon alone, and the rows unless it commits.
LEMMA SessionFrame ==
  ASSUME NEW s \in Session, SessionStep(s) \/ TimeStep(s) \/ UserStep(s)
  PROVE  /\ daemon' = daemon
         /\ UNCHANGED <<rowVars, read>> \/ \E k \in Kind : Commit(s, k)
<1>1. Environment => daemon' = daemon /\ UNCHANGED <<rowVars, read>>
  BY DEF Environment
<1>2. ASSUME NEW k \in Kind, CallStep(s, k)
      PROVE  daemon' = daemon /\ (UNCHANGED <<rowVars, read>> \/ Commit(s, k))
  <2>1. Commit(s, k) => daemon' = daemon
    BY DEF Commit
  <2>2. Prepare(s, k) => daemon' = daemon /\ UNCHANGED <<rowVars, read>>
    BY DEF Prepare
  <2>3. \A step \in Step, granted \in BOOLEAN :
          ApplyStep(s, k, step, granted) => daemon' = daemon /\ UNCHANGED <<rowVars, read>>
    BY DEF ApplyStep
  <2>4. DriverFails(s, k) \/ RejectInput(s, k) \/ ApplyCredential(s, k) \/ Release(s, k)
          => Environment
    BY DEF DriverFails, RejectInput, ApplyCredential, Release
  <2> QED
    BY <1>1, <1>2, <2>1, <2>2, <2>3, <2>4 DEF CallStep, DriverAnswers
<1>3. \A k \in Kind, valid \in BOOLEAN : Admit(s, k, valid) \/ Refuse(s, k) => Environment
  BY DEF Admit, Refuse
<1>4. {"submit", "poll", "await"} \subseteq Kind
  BY DEF Kind
<1>5. Submit(s) \/ Background(s, "poll") \/ Background(s, "await") => Environment
  BY <1>3, <1>4 DEF Submit, Background
<1>6. TimeStep(s) \/ PollFires(s) \/ Cancel(s) \/ Prune(s) => Environment
  BY DEF TimeStep, DeadlinePasses, Expires, PollFires, Cancel, Prune
<1>7. \A c : Open(s, c) \/ Resume(s, c) => Environment
  BY DEF Open, Resume
<1>8. ReleaseGrants(s) => daemon' = daemon /\ UNCHANGED <<rowVars, read>>
  BY DEF ReleaseGrants
<1> QED
  BY <1>1, <1>2, <1>5, <1>6, <1>7, <1>8 DEF SessionStep, UserStep

\* The rows and what was read from them keep their types.
LEMMA NextKeepsRows ==
  ASSUME RowType, CallInv, [Next]_vars
  PROVE  RowType'
<1>1. CASE UNCHANGED <<rowVars, read>>
  BY <1>1 DEF RowType, rowVars
<1>2. ASSUME NEW expected, CompareAndSwap(expected, "replacement"), Reads PROVE RowType'
  <2>1. live' \in [enabled: BOOLEAN, revision: Nat, principal: Nat] /\ issued' \in Nat
    <3> DEFINE x == [live EXCEPT !.revision = issued + 1]
    <3>1. x \in [enabled: BOOLEAN, revision: Nat, principal: Nat] /\ issued + 1 \in Nat
      BY DEF RowType
    <3>2. live' = [x EXCEPT !.principal = issued + 1] /\ issued' = issued + 1
      BY <1>2 DEF CompareAndSwap, SwappedPrincipal
    <3> HIDE DEF x
    <3> QED
      BY <3>1, <3>2
  <2>2. Identity' \in Credential
    BY <2>1 DEF Identity, Credential
  <2> QED
    BY <1>2, <2>1, <2>2 DEF RowType, Reads
<1>3. CASE Edit
  <2>1. live' \in [enabled: BOOLEAN, revision: Nat, principal: Nat] /\ issued' \in Nat
    <3>1. PICK enabled \in BOOLEAN : UpdateConnection(FALSE, enabled)
      BY <1>3 DEF Edit, RowType
    <3> QED
      BY <3>1 DEF UpdateConnection, RowType
  <2>2. Identity' \in Credential
    BY <2>1 DEF Identity, Credential
  <2> QED
    BY <1>3, <2>1, <2>2 DEF RowType, Reads, Edit
<1>4. ASSUME NEW s \in Session, NEW k \in Kind, Commit(s, k) PROVE RowType'
  <2>1. CASE UNCHANGED rowVars
    <3>1. Identity' = Identity
      BY <2>1 DEF Identity, rowVars
    <3>2. Identity \in Credential
      BY DEF RowType, Identity, Credential
    <3> QED
      BY <1>4, <2>1, <3>1, <3>2 DEF Commit, Reads, RowType, rowVars
  <2>2. CASE CompareAndSwap(table[s].expected, "replacement")
    BY <1>2, <1>4, <2>2 DEF Commit
  <2> QED
    BY <1>4, <2>1, <2>2 DEF Commit
<1>5. \/ UNCHANGED <<rowVars, read>>
      \/ Edit
      \/ \E s \in Session, k \in Kind : Commit(s, k)
  BY SessionFrame DEF Next, vars, CancelContext, CancelSessions, Drain
<1> QED
  BY <1>1, <1>3, <1>4, <1>5

\* After the wait of the shutdown no call is admitted again.
LEMMA NextKeepsDrained ==
  ASSUME CallInv, DrainInv, [Next]_vars
  PROVE  DrainInv'
<1>1. DrainInv <=> (daemon = "drained" =>
                      \A s \in Session, k \in Kind : ~Awaited(s, k))
  <2>1. ASSUME NEW s \in Session, NEW k \in Kind, Awaited(s, k) PROVE Pending # {}
    <3>1. <<s, k>> \in Pending
      BY <2>1 DEF Pending
    <3> QED
      BY <3>1
  <2>2. ASSUME NEW sk \in Pending PROVE \E s \in Session, k \in Kind : Awaited(s, k)
    BY DEF Pending
  <2> QED
    BY <2>1, <2>2 DEF DrainInv
<1>2. CASE UNCHANGED <<call, daemon>>
  BY <1>2 DEF DrainInv, Pending, Awaited
<1>3. CASE daemon' # "drained"
  BY <1>3 DEF DrainInv
<1>4. CASE Drain
  BY <1>4 DEF Drain, sessionVars, DrainInv, Pending, Awaited
<1>5. ASSUME daemon = "drained", NEW s \in Session, SessionStep(s) \/ TimeStep(s) \/ UserStep(s)
      PROVE  DrainInv'
  <2>1. ~Running /\ \A r \in Session, k \in Kind :
          call[r][k].at \notin Admitted /\ (k = "await" => call[r][k].at # "due")
    BY <1>1, <1>5 DEF Running, Awaited
  <2>2. {"submit", "poll", "await"} \subseteq Kind
    BY DEF Kind
  <2>3. \/ UNCHANGED <<call, daemon>>
        \/ PollFires(s)
        \/ call[s]["poll"].at = "due" /\ Refuse(s, "poll")
    <3>1. ~Submit(s) /\ ~Background(s, "await")
      BY <2>1, <2>2 DEF Submit, Admits, Running, Background
    <3>2. Background(s, "poll") => call[s]["poll"].at = "due" /\ Refuse(s, "poll")
      BY <2>1 DEF Background, Admits, Running
    <3>3. \A k \in Kind : ~CallStep(s, k)
      BY <2>1 DEF CallStep, DriverAnswers, Commit, Release, Admitted
    <3>4. \A c : ~Open(s, c)
      BY <2>1 DEF Open, Running
    <3>5. TimeStep(s) \/ Cancel(s) \/ Prune(s) \/ ReleaseGrants(s) \/ (\E c : Resume(s, c))
            => UNCHANGED <<call, daemon>>
      BY DEF TimeStep, DeadlinePasses, Expires, Cancel, Prune, ReleaseGrants, Resume, Environment
    <3> QED
      BY <1>5, <3>1, <3>2, <3>3, <3>4, <3>5 DEF SessionStep, UserStep
  <2>4. CASE PollFires(s) \/ Refuse(s, "poll")
    <3>1. PICK c \in Call : call' = [call EXCEPT ![s]["poll"] = c] /\ c.at \notin Admitted
      <4>1. table[s].pollTimer \in Nat
        BY SetupAssumption DEF CallInv, SetupType, Entry
      <4>2. "due" \in Point /\ "due" \notin Admitted /\ "idle" \notin Admitted
        BY DEF Point, Admitted
      <4>3. CASE Refuse(s, "poll")
        BY <4>2, <4>3, NoCallType DEF Refuse, EndCall
      <4>4. CASE PollFires(s)
        <5> DEFINE c == [NoCall EXCEPT !.at = "due", !.revision = table[s].pollTimer]
        <5>1. c \in Call /\ c.at = "due"
          BY <4>1, <4>2, NoCallType
        <5>2. call' = [call EXCEPT ![s]["poll"] = c]
          BY <4>4 DEF PollFires
        <5> HIDE DEF c
        <5> QED
          BY <4>2, <5>1, <5>2
      <4> QED
        BY <2>4, <4>3, <4>4
    <3>2. \A r \in Session, j \in Kind : call'[r][j] = IF r = s /\ j = "poll" THEN c ELSE call[r][j]
      BY <2>2, <3>1, CallIs DEF CallInv
    <3> QED
      BY <2>1, <3>1, <3>2 DEF DrainInv, Pending, Awaited
  <2> QED
    BY <1>2, <2>3, <2>4
<1>6. daemon' = "drained" => daemon = "drained" \/ Drain
  BY SessionFrame DEF Next, vars, Edit, CancelContext, CancelSessions
<1>7. \/ \E s \in Session : SessionStep(s) \/ TimeStep(s) \/ UserStep(s)
      \/ Drain \/ UNCHANGED <<call, daemon>> \/ daemon' # "drained"
  BY DEF Next, vars, sessionVars, Edit, CancelContext, CancelSessions
<1> QED
  BY <1>2, <1>3, <1>4, <1>5, <1>6, <1>7

(***************************************************************************)
(* Grants and the shared listener.                                         *)
(***************************************************************************)
\* What may hold a grant or a socket.
Holder(s) == table[s].key \/ s \in releases

LEMMA HoldersKept ==
  ASSUME CallInv, CallbacksBelong, UNCHANGED registryVars,
         \A s \in Session : Holder(s) => Holder(s)'
  PROVE  CallbacksBelong'
BY DEF CallbacksBelong, Holder, registryVars, CallInv, SetupType

LEMMA EndsKeepsGrants ==
  ASSUME CallInv, CallbacksBelong, UNCHANGED registryVars, NEW s \in Session, Ends(s)
  PROVE  CallbacksBelong'
<1>1. \A t \in Session : Holder(t) => Holder(t)'
  BY DEF Ends, Holder
<1> QED
  BY <1>1, HoldersKept

\* A step that writes one entry and keeps its mark.
LEMMA KeyKept ==
  ASSUME CallInv, CallbacksBelong, UNCHANGED registryVars, UNCHANGED releases,
         NEW s \in Session, NEW e, table' = [table EXCEPT ![s] = e], e.key = table[s].key
  PROVE  CallbacksBelong'
<1>1. \A t \in Session : table'[t].key = table[t].key
  BY DEF CallInv, SetupType
<1> QED
  BY <1>1, HoldersKept DEF Holder

\* The call that prepares or installs callbacks.
LEMMA CallbacksOfCall ==
  ASSUME CallInv, CallbacksBelong, NEW s \in Session, NEW k \in Kind,
         \/ Prepare(s, k)
         \/ \E step \in Step, granted \in BOOLEAN : ApplyStep(s, k, step, granted)
  PROVE  CallbacksBelong'
<1>1. bindings \subseteq Session /\ reservations \subseteq Session /\ table[s] \in Entry
  BY DEF CallInv, SetupType
<1>2. CASE Prepare(s, k)
  <2>1. releases' = releases /\ table' = [table EXCEPT ![s].key = TRUE]
    BY <1>2 DEF Prepare
  <2>2. table'[s].key /\ \A t \in Session : table[t].key => table'[t].key
    BY <1>1, <2>1 DEF CallInv, SetupType, Entry
  <2>3. \/ /\ reservations' = reservations \cup {s} /\ listener' = TRUE /\ bindings' = bindings
        \/ /\ ~listener /\ reservations' = reservations \ {s}
           /\ bindings' = bindings /\ listener' = listener
    BY <1>2 DEF Prepare, Reserves, ReservesByHand, CannotListen
  <2> QED
    BY <1>1, <2>1, <2>2, <2>3 DEF CallbacksBelong
<1>3. ASSUME NEW step \in Step, NEW granted \in BOOLEAN, ApplyStep(s, k, step, granted)
      PROVE  CallbacksBelong'
  <2>1. /\ releases' = releases /\ table' = [table EXCEPT ![s] = Stepped(s, step)]
        /\ granted => "callback" \in step
        /\ bindings' = IF granted THEN bindings \cup {s} ELSE bindings \ {s}
        /\ reservations' = reservations \ {s}
        /\ listener' = (bindings' \cup reservations' # {})
    BY <1>3 DEF ApplyStep, Replaces, Used
  <2>2. /\ table'[s].key = ("callback" \in step)
        /\ \A t \in Session \ {s} : table'[t] = table[t]
    BY <2>1 DEF Stepped, CallInv, SetupType
  <2> QED
    BY <1>1, <2>1, <2>2 DEF CallbacksBelong
<1> QED
  BY <1>2, <1>3

LEMMA NextKeepsGrants ==
  ASSUME CallInv, CallbacksBelong, [Next]_vars
  PROVE  CallbacksBelong'
<1>1. \A s \in Session : table[s] \in Entry
  BY DEF CallInv, SetupType
<1>2. CASE UNCHANGED <<table, releases, registryVars>>
  BY <1>2, HoldersKept DEF Holder
<1>3. ASSUME NEW s \in Session, Finish(s), UNCHANGED registryVars PROVE CallbacksBelong'
  BY <1>3, FinishIs, EndsKeepsGrants DEF CallInv
<1>4. ASSUME NEW s \in Session, NEW k \in Kind, CallStep(s, k) PROVE CallbacksBelong'
  <2>1. CASE DriverFails(s, k)
    BY <1>3, <2>1 DEF DriverFails, EndSession, Environment
  <2>2. CASE ApplyCredential(s, k)
    <3>1. /\ table' = [table EXCEPT ![s] = Committing(table[s])]
          /\ UNCHANGED releases /\ UNCHANGED registryVars
          /\ table[s].revision <= MaxRevisions
      BY <2>2, OneAdmitted DEF ApplyCredential, Environment, Admitted
    <3> QED
      BY <1>1, <3>1, CommittingIs, KeyKept
  <2>3. CASE Commit(s, k)
    <3>1. UNCHANGED registryVars
      BY <2>3 DEF Commit
    <3>2. \/ Finish(s)
          \/ /\ table' = [table EXCEPT ![s] = Cleared("completed")]
             /\ owner' = OwnerAfter(s)
             /\ releases' = IF table[s].key THEN releases \cup {s} ELSE releases
      BY <2>3 DEF Commit, EndSession
    <3> QED
      BY <3>1, <3>2, FinishIs, ClearingEnds, EndsKeepsGrants DEF CallInv
  <2>4. CASE Release(s, k)
    <3>1. /\ table' = [table EXCEPT ![s] = Released(table[s])]
          /\ UNCHANGED releases /\ UNCHANGED registryVars
      BY <2>4 DEF Release, Environment
    <3>2. Released(table[s]).key = table[s].key
      BY <1>1 DEF Released, Entry
    <3> QED
      BY <3>1, <3>2, KeyKept
  <2>5. CASE RejectInput(s, k)
    BY <1>2, <2>5 DEF RejectInput, Environment
  <2> QED
    BY <1>4, <2>1, <2>2, <2>3, <2>4, <2>5, CallbacksOfCall DEF CallStep, DriverAnswers
<1>5. ASSUME NEW s \in Session, NEW k \in Kind, NEW valid \in BOOLEAN, Admit(s, k, valid)
      PROVE  CallbacksBelong'
  <2>1. CASE EndSession(s, k)
    BY <1>3, <1>5, <2>1 DEF Admit, EndSession, Environment
  <2>2. CASE ~EndSession(s, k)
    <3> DEFINE e == IF k = "await" THEN AwaitTaken(table[s]) ELSE PollTaken(table[s])
    <3>1. /\ table' = [table EXCEPT ![s] = e]
          /\ UNCHANGED releases /\ UNCHANGED registryVars
      BY <1>5, <2>2 DEF Admit, Environment
    <3>2. e.key = table[s].key
      BY <1>1, AdmittedIs
    <3> HIDE DEF e
    <3> QED
      BY <3>1, <3>2, KeyKept
  <2> QED
    BY <2>1, <2>2
<1>6. ASSUME NEW s \in Session, SessionStep(s) PROVE CallbacksBelong'
  <2>1. {"poll", "await"} \subseteq Kind
    BY DEF Kind
  <2>2. ASSUME NEW k \in {"poll", "await"}, Background(s, k) PROVE CallbacksBelong'
    <3>1. Admit(s, k, TRUE) \/ Refuse(s, k)
      BY <2>2 DEF Background
    <3> QED
      BY <1>2, <1>5, <2>1, <3>1 DEF Refuse, Environment
  <2> QED
    BY <1>4, <1>6, <2>2 DEF SessionStep
<1>7. ASSUME NEW s \in Session, TimeStep(s) PROVE CallbacksBelong'
  <2>1. CASE DeadlinePasses(s)
    <3> DEFINE e == [table[s] EXCEPT !.late = TRUE]
    <3>1. /\ table' = [table EXCEPT ![s] = e]
          /\ UNCHANGED releases /\ UNCHANGED registryVars
      BY <2>1 DEF DeadlinePasses, Environment
    <3>2. e.key = table[s].key
      BY <1>1 DEF Entry
    <3> HIDE DEF e
    <3> QED
      BY <3>1, <3>2, KeyKept
  <2>2. CASE Expires(s)
    BY <1>3, <2>2 DEF Expires, Environment
  <2> QED
    BY <1>7, <2>1, <2>2 DEF TimeStep
<1>8. ASSUME NEW s \in Session, UserStep(s) PROVE CallbacksBelong'
  <2>1. ASSUME NEW c \in read, Open(s, c) PROVE CallbacksBelong'
    <3> DEFINE e == [NoEntry EXCEPT !.status = "starting", !.expected = c]
    <3>1. /\ table[s].status = "none" /\ table' = [table EXCEPT ![s] = e]
          /\ UNCHANGED releases /\ UNCHANGED registryVars
      BY <2>1 DEF Open, Fresh, Environment
    <3>2. ~table[s].key
      BY <3>1 DEF CallInv, SessionInv, Blank, Active
    <3>3. \A t \in Session : table[t].key => table'[t].key
      BY <3>1, <3>2 DEF CallInv, SetupType
    <3> QED
      BY <3>1, <3>3, HoldersKept DEF Holder
  <2>2. ASSUME NEW c \in read, Resume(s, c) PROVE CallbacksBelong'
    <3>1. UNCHANGED registryVars /\ (Finish(s) \/ UNCHANGED <<table, owner, releases>>)
      BY <2>2 DEF Resume, Environment
    <3> QED
      BY <1>2, <1>3, <3>1
  <2>3. CASE Submit(s)
    <3>1. "submit" \in Kind /\ \E valid \in BOOLEAN : Admit(s, "submit", valid)
      BY <2>3 DEF Submit, Kind
    <3> QED
      BY <1>5, <3>1
  <2>4. CASE PollFires(s)
    <3> DEFINE e == [table[s] EXCEPT !.pollTimer = 0]
    <3>1. /\ table' = [table EXCEPT ![s] = e]
          /\ UNCHANGED releases /\ UNCHANGED registryVars
      BY <2>4 DEF PollFires, Environment
    <3>2. e.key = table[s].key
      BY <1>1 DEF Entry
    <3> HIDE DEF e
    <3> QED
      BY <3>1, <3>2, KeyKept
  <2>5. CASE Cancel(s) \/ Prune(s)
    BY <1>3, <2>5 DEF Cancel, Prune, Environment
  <2>6. CASE ReleaseGrants(s)
    <3>1. /\ bindings' = bindings \ {s} /\ reservations' = reservations \ {s}
          /\ listener' = (listener /\ bindings' \cup reservations' # {})
          /\ releases' = releases \ {s} /\ table' = table
      BY <2>6 DEF ReleaseGrants, ReleaseOwner, Used
    <3> QED
      BY <3>1 DEF CallbacksBelong, CallInv, SetupType
  <2> QED
    BY <1>8, <2>1, <2>2, <2>3, <2>4, <2>5, <2>6 DEF UserStep
<1>9. CASE CancelSessions
  <2>1. UNCHANGED registryVars /\ releases' = releases \cup {s \in Session : table[s].key}
    BY <1>9 DEF CancelSessions
  <2>2. \A s \in Session : Holder(s) => Holder(s)'
    BY <2>1 DEF Holder
  <2> QED
    BY <2>1, <2>2, HoldersKept
<1>10. CASE Drain
  BY <1>10 DEF Drain, CloseRegistry, CallbacksBelong
<1>11. CASE Edit \/ CancelContext \/ UNCHANGED vars
  BY <1>2, <1>11 DEF Edit, CancelContext, sessionVars, vars
<1> QED
  BY <1>6, <1>7, <1>8, <1>9, <1>10, <1>11 DEF Next

(***************************************************************************)
(* The theorems.                                                           *)
(***************************************************************************)
LEMMA InitIInv == Init => IInv
<1> SUFFICES ASSUME Init PROVE IInv
  OBVIOUS
<1>1. /\ NoEntry \in Entry /\ NoEntry.status = "none" /\ NoEntry.revision = 0
      /\ NoEntry.key = FALSE /\ NoEntry.pollTimer = 0
  BY SetupAssumption, StepIs DEF NoEntry, NoCredential, Entry, Credential, SessionStatus
<1>2. /\ NoCall \in Call /\ NoCall.at = "idle" /\ "idle" \notin Admitted
  BY NoCallType DEF Admitted
<1>3. /\ table = [s \in Session |-> NoEntry] /\ owner = 0 /\ inFlight = {}
      /\ call = [s \in Session |-> [k \in Kind |-> NoCall]]
      /\ releases = {} /\ daemon = "running"
      /\ bindings = {} /\ reservations = {} /\ listener = FALSE
  BY DEF Init, RegistryInit
<1>4. RowType
  BY DEF Init, RowsInit, RowType, Identity, Credential
<1>5. SetupType
  BY <1>1, <1>2, <1>3, SessionsAssumption DEF SetupType, Daemon
<1>6. SessionInv
  BY <1>1, <1>2, <1>3, SetupAssumption
     DEF SessionInv, Exclusive, Blank, Bounded, Polled, Running, Active
<1>7. OwnerInv /\ DrainInv /\ CallbacksBelong
  BY <1>3 DEF OwnerInv, DrainInv, CallbacksBelong
<1> QED
  BY <1>4, <1>5, <1>6, <1>7 DEF IInv, CallInv

\* The inductive invariant of the sign-in sessions holds in every behaviour.
THEOREM SetupInvariant == Spec => []IInv
<1>1. IInv /\ [Next]_vars => IInv'
  BY NextKeepsRows, NextKeepsCalls, NextKeepsDrained, NextKeepsGrants DEF IInv, RowType
<1> QED
  BY <1>1, InitIInv, PTL DEF Spec

\* The types of sessions, calls and registry, and a connection belongs to an
\* active session only.
THEOREM SetupTypeCorrect == Spec => []TypeOK
<1>1. IInv => TypeOK
  <2> SUFFICES ASSUME IInv PROVE TypeOK
    OBVIOUS
  <2>1. ASSUME NEW s \in Session
        PROVE  /\ table[s].status \in Active \cup {"none", "ended", "completed", "gone"}
               /\ table[s].revision \in 0..(MaxRevisions + 1) /\ table[s].pollTimer \in 0..MaxRevisions
               /\ table[s].step \in Step
               /\ \A k \in Kind : call[s][k].at \in Admitted \cup {"idle", "due"}
    BY DEF IInv, CallInv, SetupType, Entry, SessionStatus, Call, Point
  <2> QED
    BY <2>1 DEF IInv, CallInv, SetupType, OwnerInv, TypeOK, Daemon
<1> QED
  BY <1>1, SetupInvariant, PTL

\* A session is advanced by one call at a time, a polled one is never left
\* without a poll, and the shutdown waits for every admitted call.
THEOREM DrivenCorrect == Spec => []DrivenByOne
<1>1. IInv => DrivenByOne
  BY DEF IInv, CallInv, SessionInv, Exclusive, Polled, DrainInv, DrivenByOne, Kind
<1> QED
  BY <1>1, SetupInvariant, PTL

\* No grant or reserved socket is left behind by its session, and the shared
\* listener is open exactly while somebody uses it.
THEOREM CallbacksCorrect == Spec => []CallbacksBelong
<1>1. IInv => CallbacksBelong
  BY DEF IInv
<1> QED
  BY <1>1, SetupInvariant, PTL

(***************************************************************************)
(* What has ended stays ended.                                             *)
(***************************************************************************)
StaysOver ==
  \A s \in Session : Over(s) =>
    Over(s)' /\ (table'[s].status = "completed" => table[s].status = "completed")

\* A step that writes one entry: of an active session, or with its status.
LEMMA WritesOne ==
  ASSUME CallInv, NEW s \in Session, NEW e, table' = [table EXCEPT ![s] = e],
         e.status = table[s].status \/ ~Over(s)
  PROVE  StaysOver
<1>1. table'[s] = e /\ \A t \in Session \ {s} : table'[t] = table[t]
  BY DEF CallInv, SetupType
<1> QED
  BY <1>1 DEF StaysOver, Over

LEMMA FinishStays ==
  ASSUME CallInv, NEW s \in Session, Finish(s)
  PROVE  StaysOver
<1>1. CASE table[s].status \in Active
  BY <1>1, WritesOne DEF Finish, Over, Active
<1>2. CASE table[s].status \notin Active
  BY <1>2 DEF Finish, StaysOver, Over
<1> QED
  BY <1>1, <1>2

LEMMA NextStays ==
  ASSUME CallInv, [Next]_vars
  PROVE  StaysOver
<1>1. \A s \in Session : table[s] \in Entry
  BY DEF CallInv, SetupType
<1>2. CASE UNCHANGED table
  BY <1>2 DEF StaysOver, Over
<1>3. ASSUME NEW s \in Session, NEW k \in Kind, CallStep(s, k) PROVE StaysOver
  <2>1. CASE Prepare(s, k)
    <3>1. table' = [table EXCEPT ![s].key = TRUE] /\ ~Over(s)
      BY <2>1 DEF Prepare, Over, Active
    <3> QED
      BY <3>1, WritesOne
  <2>2. CASE DriverFails(s, k)
    BY <2>2, FinishStays DEF DriverFails, EndSession
  <2>3. CASE ApplyCredential(s, k)
    BY <2>3, WritesOne DEF ApplyCredential, Applies, Over, Active
  <2>4. ASSUME NEW step \in Step, NEW granted \in BOOLEAN, ApplyStep(s, k, step, granted)
        PROVE  StaysOver
    BY <2>4, WritesOne DEF ApplyStep, Applies, Over, Active
  <2>5. CASE Commit(s, k)
    <3>1. \/ Finish(s)
          \/ table' = [table EXCEPT ![s] = Cleared("completed")] /\ table[s].status = "awaiting"
      BY <2>5 DEF Commit, Commits, EndSession
    <3> QED
      BY <3>1, FinishStays, WritesOne DEF Over
  <2>6. CASE Release(s, k)
    <3>1. table' = [table EXCEPT ![s] = Released(table[s])]
      BY <2>6 DEF Release
    <3>2. Released(table[s]).status = table[s].status
      BY <1>1 DEF Released, Entry
    <3> QED
      BY <3>1, <3>2, WritesOne
  <2>7. CASE RejectInput(s, k)
    BY <1>2, <2>7 DEF RejectInput
  <2> QED
    BY <1>3, <2>1, <2>2, <2>3, <2>4, <2>5, <2>6, <2>7 DEF CallStep, DriverAnswers
<1>4. ASSUME NEW s \in Session, NEW k \in Kind, NEW valid \in BOOLEAN, Admit(s, k, valid)
      PROVE  StaysOver
  <2>1. CASE EndSession(s, k)
    BY <2>1, FinishStays DEF EndSession
  <2>2. CASE ~EndSession(s, k)
    <3> DEFINE e == IF k = "await" THEN AwaitTaken(table[s]) ELSE PollTaken(table[s])
    <3>1. table' = [table EXCEPT ![s] = e]
      BY <1>4, <2>2 DEF Admit
    <3>2. e.status = table[s].status
      BY <1>1, AdmittedIs
    <3> HIDE DEF e
    <3> QED
      BY <3>1, <3>2, WritesOne
  <2> QED
    BY <2>1, <2>2
<1>5. ASSUME NEW s \in Session, SessionStep(s) PROVE StaysOver
  <2>1. {"poll", "await"} \subseteq Kind
    BY DEF Kind
  <2>2. ASSUME NEW k \in {"poll", "await"}, Background(s, k) PROVE StaysOver
    <3>1. Admit(s, k, TRUE) \/ Refuse(s, k)
      BY <2>2 DEF Background
    <3> QED
      BY <1>2, <1>4, <2>1, <3>1 DEF Refuse
  <2> QED
    BY <1>3, <1>5, <2>2 DEF SessionStep
<1>6. ASSUME NEW s \in Session, TimeStep(s) PROVE StaysOver
  <2>1. CASE DeadlinePasses(s)
    <3>1. table' = [table EXCEPT ![s].late = TRUE] /\ ~Over(s)
      BY <2>1 DEF DeadlinePasses, Over, Active
    <3> QED
      BY <3>1, WritesOne
  <2>2. CASE Expires(s)
    BY <2>2, FinishStays DEF Expires
  <2> QED
    BY <1>6, <2>1, <2>2 DEF TimeStep
<1>7. ASSUME NEW s \in Session, UserStep(s) PROVE StaysOver
  <2>1. ASSUME NEW c \in read, Open(s, c) PROVE StaysOver
    <3>1. table[s].status = "none"
          /\ table' = [table EXCEPT ![s] = [NoEntry EXCEPT !.status = "starting", !.expected = c]]
      BY <2>1 DEF Open, Fresh
    <3> QED
      BY <3>1, WritesOne DEF Over
  <2>2. ASSUME NEW c \in read, Resume(s, c) PROVE StaysOver
    BY <1>2, <2>2, FinishStays DEF Resume
  <2>3. CASE Submit(s)
    <3>1. "submit" \in Kind /\ \E valid \in BOOLEAN : Admit(s, "submit", valid)
      BY <2>3 DEF Submit, Kind
    <3> QED
      BY <1>4, <3>1
  <2>4. CASE PollFires(s)
    <3>1. table' = [table EXCEPT ![s].pollTimer = 0] /\ table[s].pollTimer # 0
      BY <2>4 DEF PollFires
    <3>2. ~Over(s)
      BY <3>1 DEF CallInv, SessionInv, Blank, Over, Active
    <3> QED
      BY <3>1, <3>2, WritesOne
  <2>5. CASE Cancel(s) \/ Prune(s)
    BY <2>5, FinishStays DEF Cancel, Prune
  <2>6. CASE ReleaseGrants(s)
    BY <1>2, <2>6 DEF ReleaseGrants
  <2> QED
    BY <1>7, <2>1, <2>2, <2>3, <2>4, <2>5, <2>6 DEF UserStep
<1>8. CASE CancelSessions
  <2>1. NoEntry.status = "none" /\ [NoEntry EXCEPT !.status = "gone"].status = "gone"
    <3>1. "gone" \in SessionStatus
      BY DEF SessionStatus
    <3> QED
      BY <3>1, ClearedIs DEF Cleared, NoEntry
  <2>2. \A s \in Session : Over(s) => table'[s].status = "gone"
    BY <1>8, <2>1 DEF CancelSessions, Over
  <2> QED
    BY <2>2 DEF StaysOver, Over
<1>9. CASE Edit \/ CancelContext \/ Drain \/ UNCHANGED vars
  BY <1>2, <1>9 DEF Edit, CancelContext, Drain, sessionVars, vars
<1> QED
  BY <1>5, <1>6, <1>7, <1>8, <1>9 DEF Next

\* A session that has ended never comes back to life and is never reported as
\* completed afterwards, whatever its driver still returns.
THEOREM EndedCorrect == Spec => EndedStaysEnded
<1>1. IInv /\ [Next]_vars =>
        [\A s \in Session : Over(s) =>
           Over(s)' /\ (table'[s].status = "completed" => table[s].status = "completed")]_vars
  BY NextStays DEF IInv, StaysOver
<1> QED
  BY <1>1, SetupInvariant, PTL DEF Spec, EndedStaysEnded

(***************************************************************************)
(* Something always bounds the life of an active session.                  *)
(***************************************************************************)
Bounds(s) ==
  /\ table[s].status = "starting" => call[s]["start"].at = "driver"
  /\ table[s].status = "awaiting" /\ ~table[s].timer => \E k \in Kind : call[s][k].at = "commit"

\* A session that starts has its driver, and one that awaits has its expiry timer,
\* which only a commit under way may have stopped.
ActiveIsBounded == \A s \in Session : Bounds(s)

\* A step of one session.
LEMMA OneBounds ==
  ASSUME ActiveIsBounded, NEW s \in Session, Bounds(s)',
         \A t \in Session \ {s} : table'[t] = table[t] /\ call'[t] = call[t]
  PROVE  ActiveIsBounded'
BY DEF ActiveIsBounded, Bounds

\* A step that writes neither status nor timer, and moves no driver or commit.
LEMMA TimerBounds ==
  ASSUME CallInv, ActiveIsBounded, NEW s \in Session, NEW e,
         table' = [table EXCEPT ![s] = e], e.status = table[s].status, e.timer = table[s].timer,
         \A t \in Session, k \in Kind : call[t][k].at \in {"driver", "commit"} =>
           call'[t][k].at = call[t][k].at
  PROVE  ActiveIsBounded'
<1>1. table'[s] = e /\ \A t \in Session \ {s} : table'[t] = table[t]
  BY DEF CallInv, SetupType
<1>2. "start" \in Kind
  BY DEF Kind
<1> QED
  BY <1>1, <1>2 DEF ActiveIsBounded, Bounds

\* The entries whose status and timer a step leaves alone.
LEMMA TimerKept ==
  ASSUME NEW d \in Entry
  PROVE  \A e \in {PollTaken(d), AwaitTaken(d), Released(d), [d EXCEPT !.key = TRUE],
                   [d EXCEPT !.late = TRUE], [d EXCEPT !.pollTimer = 0]} :
           e.status = d.status /\ e.timer = d.timer
BY DEF PollTaken, AwaitTaken, Released, Entry

\* An ended session needs no bound.
LEMMA EndsBounds ==
  ASSUME ActiveIsBounded, NEW s \in Session, Ends(s),
         \A t \in Session \ {s} : call'[t] = call[t]
  PROVE  ActiveIsBounded'
<1>1. Bounds(s)'
  BY DEF Ends, Bounds, Active
<1> QED
  BY <1>1, OneBounds DEF Ends

\* A call that did not drive its session is written.
LEMMA CallBounds ==
  ASSUME CallInv, NEW s \in Session, NEW k \in Kind, NEW c,
         call[s][k].at \notin {"driver", "commit"}, call' = [call EXCEPT ![s][k] = c]
  PROVE  \A t \in Session, j \in Kind : call[t][j].at \in {"driver", "commit"} =>
           call'[t][j] = call[t][j]
BY DEF CallInv, SetupType

\* Admission writes a call that was idle or due.
LEMMA AdmitBounds ==
  ASSUME CallInv, ActiveIsBounded, NEW s \in Session, NEW k \in Kind, NEW valid \in BOOLEAN,
         call[s][k].at \in {"idle", "due"}, Admit(s, k, valid)
  PROVE  ActiveIsBounded'
<1>1. CASE EndSession(s, k)
  <2>1. Ends(s) /\ \A t \in Session \ {s} : call'[t] = call[t]
    BY <1>1, FinishIs DEF CallInv, SetupType, EndSession, EndCall
  <2> QED
    BY <2>1, EndsBounds
<1>2. CASE ~EndSession(s, k)
  <2> DEFINE e == IF k = "await" THEN AwaitTaken(table[s]) ELSE PollTaken(table[s])
             c == [NoCall EXCEPT !.at = IF valid THEN "driver" ELSE "release"]
  <2>1. table' = [table EXCEPT ![s] = e] /\ call' = [call EXCEPT ![s][k] = c]
    BY <1>2 DEF Admit
  <2>2. e.status = table[s].status /\ e.timer = table[s].timer
    BY TimerKept DEF CallInv, SetupType
  <2> HIDE DEF e, c
  <2>3. \A t \in Session, j \in Kind : call[t][j].at \in {"driver", "commit"} =>
          call'[t][j] = call[t][j]
    BY <2>1, CallBounds
  <2> QED
    BY <2>1, <2>2, <2>3, TimerBounds
<1> QED
  BY <1>1, <1>2

\* The steps of a call.
LEMMA CallStepBounds ==
  ASSUME CallInv, ActiveIsBounded, NEW s \in Session, NEW k \in Kind, CallStep(s, k)
  PROVE  ActiveIsBounded'
<1>1. /\ table \in [Session -> Entry] /\ call \in [Session -> [Kind -> Call]]
      /\ "start" \in Kind
  BY DEF CallInv, SetupType, Kind
<1>2. CASE Prepare(s, k)
  <2>1. /\ table' = [table EXCEPT ![s] = [table[s] EXCEPT !.key = TRUE]] /\ call' = call
        /\ [table[s] EXCEPT !.key = TRUE].status = table[s].status
        /\ [table[s] EXCEPT !.key = TRUE].timer = table[s].timer
    BY <1>1, <1>2, TimerKept DEF Prepare
  <2> QED
    BY <2>1, TimerBounds
<1>3. CASE DriverFails(s, k)
  <2>1. Ends(s) /\ \A t \in Session \ {s} : call'[t] = call[t]
    BY <1>1, <1>3, FinishIs DEF CallInv, DriverFails, EndSession, EndCall
  <2> QED
    BY <2>1, EndsBounds
<1>4. CASE ApplyCredential(s, k)
  <2>1. /\ call'[s][k].at = "commit" /\ \A t \in Session \ {s} : call'[t] = call[t]
        /\ \A t \in Session \ {s} : table'[t] = table[t]
        /\ table'[s] = Committing(table[s])
    BY <1>1, <1>4 DEF ApplyCredential, Go, Call
  <2>2. Committing(table[s]).status = "awaiting"
    BY <1>1 DEF Committing, Entry
  <2>3. Bounds(s)'
    BY <2>1, <2>2 DEF Bounds
  <2> QED
    BY <2>1, <2>3, OneBounds
<1>5. ASSUME NEW step \in Step, NEW granted \in BOOLEAN, ApplyStep(s, k, step, granted)
      PROVE  ActiveIsBounded'
  <2>1. /\ \A t \in Session \ {s} : table'[t] = table[t] /\ call'[t] = call[t]
        /\ table'[s] = Stepped(s, step)
    BY <1>1, <1>5 DEF ApplyStep, Go
  <2>2. Bounds(s)'
    BY <2>1 DEF Bounds, Stepped, ExpiryArmed
  <2> QED
    BY <2>1, <2>2, OneBounds
<1>6. CASE Commit(s, k)
  <2>1. \A t \in Session \ {s} : call'[t] = call[t]
    BY <1>1, <1>6 DEF Commit, EndSession, EndCall
  <2>2. Ends(s)
    <3>1. \/ Finish(s)
          \/ /\ table' = [table EXCEPT ![s] = Cleared("completed")] /\ owner' = OwnerAfter(s)
             /\ releases' = IF table[s].key THEN releases \cup {s} ELSE releases
      BY <1>6 DEF Commit, EndSession
    <3> QED
      BY <3>1, FinishIs, ClearingEnds DEF CallInv
  <2> QED
    BY <2>1, <2>2, EndsBounds
<1>7. CASE Release(s, k)
  <2>1. call[s][k].at = "release" /\ table' = [table EXCEPT ![s] = Released(table[s])]
    BY <1>7 DEF Release
  <2>2. \A j \in Kind : call[s][j].at \notin {"driver", "commit"}
    BY <2>1 DEF CallInv, SessionInv, Exclusive, Admitted
  <2>3. \A t \in Session \ {s} : call'[t] = call[t]
    BY <1>1, <1>7 DEF Release, EndCall
  <2>4. Released(table[s]).status = table[s].status /\ Released(table[s]).timer = table[s].timer
    BY <1>1, TimerKept
  <2> QED
    BY <2>1, <2>2, <2>3, <2>4, TimerBounds
<1>8. CASE RejectInput(s, k)
  <2>1. /\ k # "start" /\ call[s][k].at = "driver" /\ table' = table
        /\ \A t \in Session, j \in Kind : t # s \/ j # k => call'[t][j] = call[t][j]
    BY <1>1, <1>8 DEF RejectInput, Go
  <2> QED
    BY <1>1, <2>1 DEF ActiveIsBounded, Bounds
<1> QED
  BY <1>2, <1>3, <1>4, <1>5, <1>6, <1>7, <1>8 DEF CallStep, DriverAnswers

\* Every step leaves each active session a bound.
LEMMA NextBounds ==
  ASSUME CallInv, ActiveIsBounded, [Next]_vars
  PROVE  ActiveIsBounded'
<1>1. /\ table \in [Session -> Entry] /\ call \in [Session -> [Kind -> Call]]
      /\ {"start", "submit", "poll", "await"} \subseteq Kind
  BY DEF CallInv, SetupType, Kind
<1>2. ASSUME UNCHANGED <<table, call>> PROVE ActiveIsBounded'
  BY <1>2 DEF ActiveIsBounded, Bounds
<1>3. ASSUME NEW s \in Session, Finish(s), UNCHANGED call PROVE ActiveIsBounded'
  BY <1>3, FinishIs, EndsBounds DEF CallInv
<1>4. ASSUME NEW s \in Session, SessionStep(s) PROVE ActiveIsBounded'
  <2>1. ASSUME NEW k \in {"poll", "await"}, Background(s, k) PROVE ActiveIsBounded'
    <3>1. call[s][k].at = "due" /\ (Admit(s, k, TRUE) \/ Refuse(s, k))
      BY <2>1 DEF Background
    <3>2. CASE Refuse(s, k)
      <4>1. table' = table /\ call' = [call EXCEPT ![s][k] = NoCall]
        BY <3>2 DEF Refuse, EndCall
      <4>2. \A t \in Session, j \in Kind : call[t][j].at \in {"driver", "commit"} =>
              call'[t][j] = call[t][j]
        BY <1>1, <3>1, <4>1, CallBounds
      <4> QED
        BY <1>1, <4>1, <4>2 DEF ActiveIsBounded, Bounds
    <3> QED
      BY <1>1, <3>1, <3>2, AdmitBounds
  <2> QED
    BY <1>4, <2>1, CallStepBounds DEF SessionStep
<1>5. ASSUME NEW s \in Session, TimeStep(s) PROVE ActiveIsBounded'
  <2>1. CASE DeadlinePasses(s)
    <3>1. /\ table' = [table EXCEPT ![s] = [table[s] EXCEPT !.late = TRUE]] /\ call' = call
          /\ [table[s] EXCEPT !.late = TRUE].status = table[s].status
          /\ [table[s] EXCEPT !.late = TRUE].timer = table[s].timer
      BY <1>1, <2>1, TimerKept DEF DeadlinePasses
    <3> QED
      BY <3>1, TimerBounds
  <2> QED
    BY <1>3, <1>5, <2>1 DEF TimeStep, Expires
<1>6. ASSUME NEW s \in Session, UserStep(s) PROVE ActiveIsBounded'
  <2>1. ASSUME NEW c \in read, Open(s, c) PROVE ActiveIsBounded'
    <3> DEFINE e == [NoEntry EXCEPT !.status = "starting", !.expected = c]
               d == [NoCall EXCEPT !.at = "driver"]
    <3>1. table' = [table EXCEPT ![s] = e] /\ call' = [call EXCEPT ![s]["start"] = d]
      BY <2>1 DEF Open
    <3>2. e.status = "starting" /\ d.at = "driver"
      BY DEF NoEntry, NoCall
    <3> HIDE DEF e, d
    <3>3. /\ table'[s] = e /\ call'[s]["start"] = d
          /\ \A t \in Session \ {s} : table'[t] = table[t] /\ call'[t] = call[t]
      BY <1>1, <3>1
    <3>4. Bounds(s)'
      BY <3>2, <3>3 DEF Bounds
    <3> QED
      BY <3>3, <3>4, OneBounds
  <2>2. ASSUME NEW c \in read, Resume(s, c) PROVE ActiveIsBounded'
    BY <1>2, <1>3, <2>2 DEF Resume
  <2>3. CASE Submit(s)
    BY <1>1, <2>3, AdmitBounds DEF Submit
  <2>4. CASE PollFires(s)
    <3> DEFINE c == [NoCall EXCEPT !.at = "due", !.revision = table[s].pollTimer]
    <3>1. /\ table' = [table EXCEPT ![s] = [table[s] EXCEPT !.pollTimer = 0]]
          /\ call[s]["poll"].at = "idle" /\ call' = [call EXCEPT ![s]["poll"] = c]
          /\ [table[s] EXCEPT !.pollTimer = 0].status = table[s].status
          /\ [table[s] EXCEPT !.pollTimer = 0].timer = table[s].timer
      BY <1>1, <2>4, TimerKept DEF PollFires
    <3> HIDE DEF c
    <3>2. \A t \in Session, j \in Kind : call[t][j].at \in {"driver", "commit"} =>
            call'[t][j] = call[t][j]
      BY <1>1, <3>1, CallBounds
    <3> QED
      BY <3>1, <3>2, TimerBounds
  <2>5. CASE Cancel(s) \/ Prune(s)
    BY <1>3, <2>5 DEF Cancel, Prune
  <2>6. CASE ReleaseGrants(s)
    BY <1>2, <2>6 DEF ReleaseGrants
  <2> QED
    BY <1>6, <2>1, <2>2, <2>3, <2>4, <2>5, <2>6 DEF UserStep
<1>7. CASE CancelSessions
  <2>1. \A s \in Session : table'[s].status \in {"none", "gone"}
    BY <1>7 DEF CancelSessions, NoEntry
  <2> QED
    BY <2>1 DEF ActiveIsBounded, Bounds
<1>8. CASE Edit \/ CancelContext \/ Drain \/ UNCHANGED vars
  BY <1>2, <1>8 DEF Edit, CancelContext, Drain, sessionVars, vars
<1> QED
  BY <1>4, <1>5, <1>6, <1>7, <1>8 DEF Next

\* No sign-in lives for ever: what is started has its driver, what awaits has its
\* expiry timer or a commit that ends it (openSetupAuthorization,
\* applySetupTransition, commitAuthorizationCredential): the safety half of
\* SessionsEnd.
THEOREM BoundedCorrect == Spec => []ActiveIsBounded
<1>1. Init => ActiveIsBounded
  BY DEF Init, ActiveIsBounded, Bounds, NoEntry
<1>2. IInv /\ ActiveIsBounded /\ [Next]_vars => ActiveIsBounded'
  BY NextBounds DEF IInv
<1> QED
  BY <1>1, <1>2, SetupInvariant, PTL DEF Spec
====
