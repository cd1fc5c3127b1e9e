---- MODULE KernelExecutionProofs ----
(***************************************************************************)
(* Proofs about KernelExecution, for every model graph, candidate set,     *)
(* answer set and retention window.                                        *)
(***************************************************************************)
EXTENDS KernelExecution, SequenceTheorems, FiniteSetTheorems, TLAPS

Walking == {"node", "candidate"}
Holding == {"prepare", "dispatch", "await", "answered", "continuity", "render"}
Sent == {"await", "answered", "continuity", "render"}

RejectedUpTo(n) == \A i \in 1..n : log[i].effect = "rejected"

\* The call runs on a nonempty stack until it returns a result.
RunInv ==
  /\ pc # "returned" => result = "none" /\ Len(frames) >= 1
  /\ pc = "credential" => ~retried
  /\ retried => safety = "scoped_idempotency_key"
  /\ retried /\ pc \in Holding => HasKey(Current)

\* The clock is past zero and past the first dispatch of the attempt.
ClockInv == 1 <= now /\ first <= now

\* What an attempt holds at each point.
ResourceInv ==
  /\ pc \in Walking \cup {"returned"} => leases = {} /\ admitted = {}
  /\ pc = "credential" => leases = {} /\ admitted = cand
  /\ pc \in Holding => leases = {lease} /\ admitted = cand

\* An entry of the running keyed attempt that may be repeated.
Repeatable(d) ==
  /\ d.effect # "accepted" /\ d.cand = Current /\ d.keyed
  /\ first # 0 /\ first <= d.at

\* The dispatches made so far, seen from the point the call has reached.
LogInv ==
  /\ pc \in Walking \cup {"credential"} => RejectedUpTo(Len(log))
  /\ pc \in {"prepare", "dispatch"} /\ ~retried => RejectedUpTo(Len(log))
  /\ pc \in {"prepare", "dispatch"} /\ retried =>
       \A i \in 1..Len(log) : log[i].effect = "rejected" \/ Repeatable(log[i])
  /\ pc \in Sent =>
       /\ Len(log) >= 1
       /\ ~retried => RejectedUpTo(Len(log) - 1)
       /\ LET d == log[Len(log)] IN
            /\ d.attempt = attempts /\ d.cand = Current /\ d.keyed = HasKey(Current)
            /\ d.keyed => first # 0 /\ first <= d.at
            /\ pc = "await" => d.effect = "unknown"
            /\ pc \in {"answered", "continuity"} => d.effect = answer.effect
            /\ pc = "render" => d.effect = "accepted"

\* The observations made so far belong to earlier attempts until one ends.
ToldInv ==
  /\ \A i \in 1..Len(told) : told[i].attempt <= attempts
  /\ pc \in Holding \cup {"credential"} => \A i \in 1..Len(told) : told[i].attempt < attempts
  /\ pc # "returned" => \A i \in 1..Len(told) : told[i].cause \notin {"success", "stream"}

IInv ==
  /\ TypeOK /\ RunInv /\ ClockInv /\ ResourceInv /\ LogInv /\ ToldInv
  /\ EffectAtMostOnce /\ NoRouteMeansNoEffect /\ EvidenceIsEarned

(***************************************************************************)
(* Facts about the pieces the actions are built from.                      *)
(***************************************************************************)
Causes == {"timeout", "network", "continuity", "status", "success", "stream"}
Effects == {"rejected", "unknown", "accepted"}

\* The selected candidate is the one member of cand.
LEMMA CurrentIs ==
  ASSUME NEW c, cand = {c}
  PROVE  Current = c
BY DEF Current

\* An observation appends one entry to the evidence and keeps the others.
LEMMA Observed ==
  ASSUME TypeOK, NEW cause \in Causes, Observe(cause)
  PROVE  /\ told' \in Seq(Observations) /\ Len(told') = Len(told) + 1
         /\ \A i \in 1..Len(told) : told'[i] = told[i]
         /\ told'[Len(told) + 1] = [attempt |-> attempts, cause |-> cause, ctx |-> ctx]
<1>1. told \in Seq(Observations) BY DEF TypeOK
<1>2. [attempt |-> attempts, cause |-> cause, ctx |-> ctx] \in Observations
  BY DEF TypeOK, Observations, Causes
<1>3. QED BY <1>1, <1>2, AppendProperties DEF Observe

\* Learning the effect of the last dispatch leaves every other entry alone.
LEMMA Learned ==
  ASSUME TypeOK, Len(log) >= 1, NEW e \in Effects, LearnEffect(e)
  PROVE  /\ log' \in Seq(Dispatches) /\ Len(log') = Len(log)
         /\ \A i \in 1..Len(log) : i # Len(log) => log'[i] = log[i]
         /\ log'[Len(log)] = [log[Len(log)] EXCEPT !.effect = e]
<1> DEFINE d == [log[Len(log)] EXCEPT !.effect = e]
<1>1. log \in Seq(Dispatches) /\ Len(log) \in 1..Len(log)
  BY LenProperties DEF TypeOK
<1>2. log[Len(log)] \in Dispatches BY <1>1, ElementOfSeq
<1>3. d \in Dispatches BY <1>2 DEF Dispatches, Effects
<1>4. log' = [log EXCEPT ![Len(log)] = d] BY DEF LearnEffect
<1> HIDE DEF d
<1>5. QED BY <1>1, <1>3, <1>4, ExceptSeq DEF d

NewDispatch == [attempt |-> attempts, cand |-> Current, keyed |-> HasKey(Current),
                at |-> now, effect |-> "unknown"]

\* A dispatch appends one entry of unknown effect and keeps the others.
LEMMA Dispatched ==
  ASSUME TypeOK, Dispatch
  PROVE  /\ log' \in Seq(Dispatches) /\ Len(log') = Len(log) + 1
         /\ \A i \in 1..Len(log) : log'[i] = log[i]
         /\ log'[Len(log) + 1] = NewDispatch
<1>1. log \in Seq(Dispatches) BY DEF TypeOK
<1>2. Current \in Candidate BY CurrentIs DEF TypeOK, Dispatch
<1>3. NewDispatch \in Dispatches
  BY <1>2 DEF TypeOK, Dispatches, NewDispatch, HasKey
<1>4. log' = Append(log, NewDispatch) BY DEF Dispatch, NewDispatch
<1>5. QED BY <1>1, <1>3, <1>4, AppendProperties

Frame == [node: Node, left: SUBSET (Node \cup Group)]

\* Ending an executeNode call leaves a shorter stack of the same type.
LEMMA Popped ==
  ASSUME TypeOK, Len(frames) >= 1
  PROVE  Pop \in Seq(Frame) /\ Len(Pop) = Len(frames) - 1
<1>1. frames \in Seq(Frame) BY DEF TypeOK, Frame
<1>2. Len(frames) \in Nat BY <1>1, LenProperties
<1> DEFINE n == Len(frames) - 1
<1>3. n \in Int /\ n >= 0 BY <1>2
<1>4. \A i \in 1..n : frames[i] \in Frame BY <1>1, <1>2, ElementOfSeq
<1> HIDE DEF n
<1>5. SubSeq(frames, 1, n) \in Seq(Frame) /\ Len(SubSeq(frames, 1, n)) = IF 1 <= n THEN n - 1 + 1 ELSE 0
  BY <1>3, <1>4, SubSeqProperties
<1>6. Pop = SubSeq(frames, 1, n) BY Zenon DEF Pop, n
<1>7. Pop \in Seq(Frame) /\ Len(Pop) = n BY <1>3, <1>5, <1>6
<1>8. QED BY <1>7, Zenon DEF n

\* Taking a member out of the plan on top keeps the stack and its type.
LEMMA Narrowed ==
  ASSUME TypeOK, Len(frames) >= 1, NEW m
  PROVE  /\ [frames EXCEPT ![Len(frames)].left = @ \ {m}] \in Seq(Frame)
         /\ Len([frames EXCEPT ![Len(frames)].left = @ \ {m}]) = Len(frames)
<1> DEFINE f == [frames[Len(frames)] EXCEPT !.left = @ \ {m}]
<1>1. frames \in Seq(Frame) /\ Len(frames) \in 1..Len(frames)
  BY LenProperties DEF TypeOK, Frame
<1>2. frames[Len(frames)] \in Frame BY <1>1, ElementOfSeq
<1>3. f \in Frame BY <1>2 DEF Frame
<1>4. [frames EXCEPT ![Len(frames)].left = @ \ {m}] = [frames EXCEPT ![Len(frames)] = f]
  OBVIOUS
<1> HIDE DEF f
<1>5. QED BY <1>1, <1>3, <1>4, ExceptSeq DEF f

\* The answer before any answer has the type of an answer.
LEMMA NoAnswerType == NoAnswer \in AnswerType
BY DEF NoAnswer, AnswerType

\* Every step preserves the type invariant.
LEMMA TypeStep ==
  ASSUME TypeOK, RunInv, LogInv, [Next]_vars
  PROVE  TypeOK'
<1> USE DEF vars, walkVars, attemptVars, resourceVars, envVars, historyVars, PC, Result,
            Safety, ErrorClass, Return, TryNext
<1>1. CASE NodeExhausted
  <2>1. frames' \in Seq(Frame) BY <1>1, Popped DEF NodeExhausted, NodeFails, RunInv
  <2>2. QED BY <1>1, <2>1 DEF NodeExhausted, NodeFails, TypeOK, Frame
<1>2. ASSUME NEW n \in Node, EnterChild(n) PROVE TypeOK'
  <2>1. PICK plan \in Plans(n) :
          frames' = Append([frames EXCEPT ![Len(frames)].left = @ \ {n}], [node |-> n, left |-> plan])
    BY <1>2 DEF EnterChild
  <2>2. [node |-> n, left |-> plan] \in Frame
    BY <2>1, KernelAssumption DEF Plans, Frame
  <2>3. [frames EXCEPT ![Len(frames)].left = @ \ {n}] \in Seq(Frame)
    BY <1>2, Narrowed DEF EnterChild, RunInv
  <2>4. frames' \in Seq(Frame) BY <2>1, <2>2, <2>3, AppendProperties
  <2>5. QED BY <1>2, <2>4 DEF EnterChild, TypeOK, Frame
<1>3. ASSUME NEW g \in Group, EnterGroup(g) PROVE TypeOK'
  <2>1. frames' \in Seq(Frame) BY <1>3, Narrowed DEF EnterGroup, RunInv
  <2>2. routes' \subseteq Candidate BY <1>3, KernelAssumption DEF EnterGroup
  <2>3. QED BY <1>3, <2>1, <2>2 DEF EnterGroup, TypeOK, Frame
<1>4. CASE WalkError BY <1>4 DEF WalkError, TypeOK
<1>5. CASE MemberExhausted
  <2>1. frames' \in Seq(Frame)
    BY <1>5, Popped DEF MemberExhausted, NodeFails, RunInv, TypeOK, Frame
  <2>2. QED BY <1>5, <2>1 DEF MemberExhausted, NodeFails, TypeOK, Frame
<1>6. ASSUME NEW c \in Candidate, SkipCandidate(c) PROVE TypeOK'
  BY <1>6 DEF SkipCandidate, TypeOK
<1>7. ASSUME NEW c \in Candidate, Admit(c) PROVE TypeOK'
  <2>1. \E x \in Candidate : cand' = {x} BY <1>7 DEF Admit
  <2>2. answer' \in AnswerType BY <1>7, NoAnswerType DEF Admit
  <2>3. cand' \subseteq Candidate /\ admitted' \subseteq Candidate /\ routes' \subseteq Candidate
    BY <1>7 DEF Admit, TypeOK
  <2>4. /\ safety' \in Safety /\ pc' \in PC /\ result' \in Result /\ class' \in ErrorClass
        /\ first' \in Nat /\ attempts' \in Nat
        /\ lease' \in Nat /\ leases' \subseteq Nat /\ opened' \in Nat
        /\ ctx' \in {"live", "cancelled", "deadline"} /\ now' \in Nat
    BY <1>7 DEF Admit, TypeOK
  <2>5. retried' \in BOOLEAN /\ refreshed' \in BOOLEAN /\ committed' \in BOOLEAN
    BY <1>7, Zenon DEF Admit, TypeOK
  <2>6. UNCHANGED <<frames, log, told>> BY <1>7 DEF Admit
  <2>7. QED BY <2>1, <2>2, <2>3, <2>4, <2>5, <2>6, Zenon DEF TypeOK
<1>8. CASE AcquireCredential BY <1>8 DEF AcquireCredential, TypeOK
<1>9. CASE CredentialUnavailable BY <1>9 DEF CredentialUnavailable, TypeOK
<1>10. CASE BorrowFails BY <1>10 DEF BorrowFails, TypeOK
<1>11. CASE DispatchRefused BY <1>11 DEF DispatchRefused, ReleaseCandidate, TypeOK
<1>12. CASE PrepareFails BY <1>12 DEF PrepareFails, ReleaseCandidate, TypeOK
<1>13. CASE Prepare BY <1>13 DEF Prepare, TypeOK
<1>14. CASE Dispatch
  <2>1. log' \in Seq(Dispatches) BY <1>14, Dispatched
  <2>2. QED BY <1>14, <2>1 DEF Dispatch, TypeOK
<1>15. CASE TransportError
  <2>1. told' \in Seq(Observations)
    BY <1>15, Observed DEF TransportError, TransportGivesUp, TypeOK, Causes
  <2>2. QED BY <1>15, <2>1
       DEF TransportError, TransportGivesUp, ReplayWithKey, ReleaseCandidate, TypeOK
<1>16. ASSUME NEW a \in Answer, ErrorAnswer(a) PROVE TypeOK'
  <2>1. a \in AnswerType BY KernelAssumption
  <2>2. log' \in Seq(Dispatches)
    BY <1>16, <2>1, Learned DEF ErrorAnswer, LogInv, Sent, AnswerType, Effects
  <2>3. QED BY <1>16, <2>1, <2>2 DEF ErrorAnswer, TypeOK
<1>17. CASE ContinuityReset
  <2>1. told' \in Seq(Observations) BY <1>17, Observed DEF ContinuityReset, TypeOK, Causes
  <2>2. QED BY <1>17, <2>1 DEF ContinuityReset, ReleaseCandidate, TypeOK
<1>18. CASE ReplayAnswer BY <1>18 DEF ReplayAnswer, ReplayWithKey, TypeOK
<1>19. CASE RefreshCredential
  BY <1>19 DEF RefreshCredential, ExchangeLease, HasKey, TypeOK
<1>20. CASE AnswerFails
  <2>1. told' \in Seq(Observations) BY <1>20, Observed DEF AnswerFails, Causes
  <2>2. QED BY <1>20, <2>1 DEF AnswerFails, ReleaseCandidate, TypeOK
<1>21. CASE Accepted
  <2>1. log' \in Seq(Dispatches) BY <1>21, Learned DEF Accepted, LogInv, Sent, Effects
  <2>2. QED BY <1>21, <2>1 DEF Accepted, TypeOK
<1>22. CASE Commit BY <1>22 DEF Commit, TypeOK
<1>23. CASE RenderDone
  <2>1. told' \in Seq(Observations) BY <1>23, Observed DEF RenderDone, TypeOK, Causes
  <2>2. QED BY <1>23, <2>1 DEF RenderDone, ReleaseCandidate, TypeOK
<1>24. ASSUME NEW origin \in Origin, RenderFails(origin) PROVE TypeOK'
  <2>1. told' \in Seq(Observations)
    BY <1>24, Observed DEF RenderFails, RenderEvidence, TypeOK, Causes
  <2>2. QED BY <1>24, <2>1 DEF RenderFails, ReleaseCandidate, TypeOK
<1>25. ASSUME NEW how \in {"cancelled", "deadline"}, Interrupt(how) PROVE TypeOK'
  BY <1>25 DEF Interrupt, TypeOK
<1>26. CASE Tick BY <1>26 DEF Tick, TypeOK
<1>27. CASE UNCHANGED vars BY <1>27 DEF TypeOK
<1>28. QED
  BY <1>1, <1>2, <1>3, <1>4, <1>5, <1>6, <1>7, <1>8, <1>9, <1>10, <1>11, <1>12, <1>13, <1>14,
     <1>15, <1>16, <1>17, <1>18, <1>19, <1>20, <1>21, <1>22, <1>23, <1>24, <1>25, <1>26, <1>27
     DEF Next, Walk, Attempt

\* Every step preserves the stack, result and replay facts of RunInv.
LEMMA RunStep ==
  ASSUME TypeOK, RunInv, [Next]_vars
  PROVE  RunInv'
<1> USE DEF vars, walkVars, attemptVars, resourceVars, envVars, historyVars, Return, TryNext
<1>1. CASE NodeExhausted
  <2>1. Len(frames) \in Nat BY LenProperties DEF TypeOK
  <2>2. CASE frames' = Pop /\ Len(frames) # 1
    <3>1. Len(frames') >= 1 BY <2>1, <2>2, <1>1, Popped DEF RunInv, NodeExhausted
    <3>2. QED BY <2>2, <3>1, <1>1 DEF NodeExhausted, NodeFails, RunInv, Holding
  <2>3. CASE ~(frames' = Pop /\ Len(frames) # 1)
    BY <2>3, <1>1 DEF NodeExhausted, NodeFails, RunInv, Holding
  <2>4. QED BY <2>2, <2>3
<1>2. ASSUME NEW n \in Node, EnterChild(n) PROVE RunInv'
  <2>1. PICK plan \in Plans(n) :
          frames' = Append([frames EXCEPT ![Len(frames)].left = @ \ {n}], [node |-> n, left |-> plan])
    BY <1>2 DEF EnterChild
  <2>2. [node |-> n, left |-> plan] \in Frame
    BY <2>1, KernelAssumption DEF Plans, Frame
  <2> DEFINE rest == [frames EXCEPT ![Len(frames)].left = @ \ {n}]
  <2>3. rest \in Seq(Frame) BY <1>2, Narrowed DEF EnterChild, RunInv
  <2>4. frames' = Append(rest, [node |-> n, left |-> plan]) BY <2>1
  <2> HIDE DEF rest
  <2>5. Len(frames') = Len(rest) + 1 /\ Len(rest) \in Nat
    BY <2>2, <2>3, <2>4, AppendProperties, LenProperties
  <2>6. Len(frames') >= 1 BY <2>5
  <2>7. QED BY <1>2, <2>6 DEF EnterChild, RunInv, Holding
<1>3. ASSUME NEW g \in Group, EnterGroup(g) PROVE RunInv'
  <2>1. Len(frames') >= 1 BY <1>3, Narrowed DEF EnterGroup, RunInv
  <2>2. QED BY <1>3, <2>1 DEF EnterGroup, RunInv, Holding
<1>4. CASE WalkError BY <1>4 DEF WalkError, RunInv, Holding
<1>5. CASE MemberExhausted
  <2>1. Len(frames) \in Nat BY LenProperties DEF TypeOK
  <2>2. CASE frames' = Pop /\ Len(frames) # 1
    <3>1. Len(frames') >= 1 BY <2>1, <2>2, <1>5, Popped DEF RunInv, MemberExhausted
    <3>2. QED BY <2>2, <3>1, <1>5 DEF MemberExhausted, NodeFails, RunInv, Holding
  <2>3. CASE ~(frames' = Pop /\ Len(frames) # 1)
    BY <2>3, <1>5 DEF MemberExhausted, NodeFails, RunInv, Holding
  <2>4. QED BY <2>2, <2>3
<1>6. ASSUME NEW c \in Candidate, SkipCandidate(c) PROVE RunInv'
  BY <1>6 DEF SkipCandidate, RunInv, Holding
<1>7. ASSUME NEW c \in Candidate, Admit(c) PROVE RunInv'
  BY <1>7 DEF Admit, RunInv, Holding
<1>8. CASE AcquireCredential BY <1>8 DEF AcquireCredential, HasKey, Current, RunInv, Holding
<1>9. CASE CredentialUnavailable BY <1>9 DEF CredentialUnavailable, RunInv, Holding
<1>10. CASE BorrowFails BY <1>10 DEF BorrowFails, RunInv, Holding
<1>11. CASE DispatchRefused BY <1>11 DEF DispatchRefused, ReleaseCandidate, RunInv, Holding
<1>12. CASE PrepareFails BY <1>12 DEF PrepareFails, ReleaseCandidate, RunInv, Holding
<1>13. CASE Prepare BY <1>13 DEF Prepare, HasKey, Current, RunInv, Holding
<1>14. CASE Dispatch BY <1>14 DEF Dispatch, HasKey, Current, RunInv, Holding
<1>15. CASE TransportError
  <2>1. CASE ctx = "live" /\ KeyedReplay
    <3>1. HasKey(Current) /\ UNCHANGED <<safety, cand>>
      BY <1>15, <2>1 DEF TransportError, KeyedReplay, TransportGivesUp, ReplayWithKey
    <3>2. HasKey(Current)' BY <3>1 DEF HasKey, Current
    <3>3. QED BY <1>15, <2>1, <3>1, <3>2 DEF TransportError, ReplayWithKey, RunInv, HasKey
  <2>2. CASE ~(ctx = "live" /\ KeyedReplay)
    BY <1>15, <2>2 DEF TransportError, TransportGivesUp, RunInv, Holding
  <2>3. QED BY <2>1, <2>2
<1>16. ASSUME NEW a \in Answer, ErrorAnswer(a) PROVE RunInv'
  BY <1>16 DEF ErrorAnswer, HasKey, Current, RunInv, Holding
<1>17. CASE ContinuityReset BY <1>17 DEF ContinuityReset, ReleaseCandidate, RunInv, Holding
<1>18. CASE ReplayAnswer
  BY <1>18 DEF ReplayAnswer, ReplayWithKey, RetryAnswer, KeyedReplay, HasKey, Current, RunInv,
      Holding
<1>19. CASE RefreshCredential
  BY <1>19 DEF RefreshCredential, ExchangeLease, HasKey, Current, RunInv, Holding
<1>20. CASE AnswerFails BY <1>20 DEF AnswerFails, ReleaseCandidate, RunInv, Holding
<1>21. CASE Accepted BY <1>21 DEF Accepted, HasKey, Current, RunInv, Holding
<1>22. CASE Commit BY <1>22 DEF Commit, HasKey, Current, RunInv, Holding
<1>23. CASE RenderDone BY <1>23 DEF RenderDone, ReleaseCandidate, RunInv, Holding
<1>24. ASSUME NEW origin \in Origin, RenderFails(origin) PROVE RunInv'
  BY <1>24 DEF RenderFails, ReleaseCandidate, RunInv, Holding
<1>25. ASSUME NEW how \in {"cancelled", "deadline"}, Interrupt(how) PROVE RunInv'
  BY <1>25 DEF Interrupt, HasKey, Current, RunInv, Holding
<1>26. CASE Tick BY <1>26 DEF Tick, HasKey, Current, RunInv, Holding
<1>27. CASE UNCHANGED vars BY <1>27 DEF RunInv, Holding, HasKey, Current
<1>28. QED
  BY <1>1, <1>2, <1>3, <1>4, <1>5, <1>6, <1>7, <1>8, <1>9, <1>10, <1>11, <1>12, <1>13, <1>14,
     <1>15, <1>16, <1>17, <1>18, <1>19, <1>20, <1>21, <1>22, <1>23, <1>24, <1>25, <1>26, <1>27
     DEF Next, Walk, Attempt

\* Every step preserves what an attempt holds: lease and admission.
LEMMA ResourceStep ==
  ASSUME TypeOK, ResourceInv, [Next]_vars
  PROVE  ResourceInv'
<1> USE DEF vars, walkVars, attemptVars, resourceVars, envVars, historyVars, Return, TryNext
<1>1. CASE NodeExhausted BY <1>1 DEF NodeExhausted, NodeFails, ResourceInv, Walking, Holding
<1>2. ASSUME NEW n \in Node, EnterChild(n) PROVE ResourceInv'
  BY <1>2 DEF EnterChild, ResourceInv, Walking, Holding
<1>3. ASSUME NEW g \in Group, EnterGroup(g) PROVE ResourceInv'
  BY <1>3 DEF EnterGroup, ResourceInv, Walking, Holding
<1>4. CASE WalkError BY <1>4 DEF WalkError, ResourceInv, Walking, Holding
<1>5. CASE MemberExhausted BY <1>5 DEF MemberExhausted, NodeFails, ResourceInv, Walking, Holding
<1>6. ASSUME NEW c \in Candidate, SkipCandidate(c) PROVE ResourceInv'
  BY <1>6 DEF SkipCandidate, ResourceInv, Walking, Holding
<1>7. ASSUME NEW c \in Candidate, Admit(c) PROVE ResourceInv'
  BY <1>7 DEF Admit, ResourceInv, Walking, Holding
<1>8. CASE AcquireCredential BY <1>8 DEF AcquireCredential, ResourceInv, Walking, Holding
<1>9. CASE CredentialUnavailable BY <1>9 DEF CredentialUnavailable, ResourceInv, Walking, Holding
<1>10. CASE BorrowFails BY <1>10 DEF BorrowFails, ResourceInv, Walking, Holding
<1>11. CASE DispatchRefused
  BY <1>11 DEF DispatchRefused, ReleaseCandidate, ResourceInv, Walking, Holding
<1>12. CASE PrepareFails BY <1>12 DEF PrepareFails, ReleaseCandidate, ResourceInv, Walking,
    Holding
<1>13. CASE Prepare BY <1>13 DEF Prepare, ResourceInv, Walking, Holding
<1>14. CASE Dispatch BY <1>14 DEF Dispatch, ResourceInv, Walking, Holding
<1>15. CASE TransportError
  BY <1>15 DEF TransportError, TransportGivesUp, ReplayWithKey, ReleaseCandidate, ResourceInv,
      Walking, Holding
<1>16. ASSUME NEW a \in Answer, ErrorAnswer(a) PROVE ResourceInv'
  BY <1>16 DEF ErrorAnswer, ResourceInv, Walking, Holding
<1>17. CASE ContinuityReset
  BY <1>17 DEF ContinuityReset, ReleaseCandidate, ResourceInv, Walking, Holding
<1>18. CASE ReplayAnswer BY <1>18 DEF ReplayAnswer, ReplayWithKey, ResourceInv, Walking, Holding
<1>19. CASE RefreshCredential
  BY <1>19 DEF RefreshCredential, ExchangeLease, ResourceInv, Walking, Holding
<1>20. CASE AnswerFails BY <1>20 DEF AnswerFails, ReleaseCandidate, ResourceInv, Walking, Holding
<1>21. CASE Accepted BY <1>21 DEF Accepted, ResourceInv, Walking, Holding
<1>22. CASE Commit BY <1>22 DEF Commit, ResourceInv, Walking, Holding
<1>23. CASE RenderDone BY <1>23 DEF RenderDone, ReleaseCandidate, ResourceInv, Walking, Holding
<1>24. ASSUME NEW origin \in Origin, RenderFails(origin) PROVE ResourceInv'
  BY <1>24 DEF RenderFails, ReleaseCandidate, ResourceInv, Walking, Holding
<1>25. ASSUME NEW how \in {"cancelled", "deadline"}, Interrupt(how) PROVE ResourceInv'
  BY <1>25 DEF Interrupt, ResourceInv, Walking, Holding
<1>26. CASE Tick BY <1>26 DEF Tick, ResourceInv, Walking, Holding
<1>27. CASE UNCHANGED vars BY <1>27 DEF ResourceInv, Walking, Holding
<1>28. QED
  BY <1>1, <1>2, <1>3, <1>4, <1>5, <1>6, <1>7, <1>8, <1>9, <1>10, <1>11, <1>12, <1>13, <1>14,
     <1>15, <1>16, <1>17, <1>18, <1>19, <1>20, <1>21, <1>22, <1>23, <1>24, <1>25, <1>26, <1>27
     DEF Next, Walk, Attempt

\* A keyed attempt that has dispatched once may repeat every dispatch so far
\* that was not rejected.
LEMMA AmbiguousRepeats ==
  ASSUME TypeOK, LogInv, pc \in {"await", "answered"}, ~retried, HasKey(Current),
         pc = "answered" => answer.effect # "accepted",
         UNCHANGED <<safety, cand, log, first>>
  PROVE  \A i \in 1..Len(log') : log'[i].effect = "rejected" \/ Repeatable(log[i])'
<1>1. Len(log) \in Nat BY LenProperties DEF TypeOK
<1>2. Repeatable(log[Len(log)]) BY DEF LogInv, Sent, Repeatable
<1>3. ASSUME NEW i \in 1..Len(log) PROVE log[i].effect = "rejected" \/ Repeatable(log[i])
  <2>1. CASE i = Len(log) BY <1>2, <2>1
  <2>2. CASE i # Len(log)
    <3>1. RejectedUpTo(Len(log) - 1) BY DEF LogInv, Sent
    <3>2. i \in 1..(Len(log) - 1) BY <1>1, <2>2
    <3>3. QED BY <3>1, <3>2 DEF RejectedUpTo
  <2>3. QED BY <2>1, <2>2
<1>4. QED BY <1>3 DEF Repeatable, Current

\* A first answer that rejects leaves only rejected dispatches.
LEMMA RejectedToo ==
  ASSUME TypeOK, LogInv, pc = "answered", ~retried, answer.effect = "rejected"
  PROVE  RejectedUpTo(Len(log))
<1>1. Len(log) \in Nat BY LenProperties DEF TypeOK
<1>2. QED BY <1>1 DEF LogInv, Sent, RejectedUpTo

\* Learning the effect of the last dispatch changes nothing else about it.
LEMMA EffectLearned ==
  ASSUME TypeOK, LogInv, pc = "await", NEW e \in Effects, LearnEffect(e),
         UNCHANGED <<safety, cand, attempts, first, retried>>,
         \/ pc' \in {"answered", "continuity"} /\ answer'.effect = e
         \/ pc' = "render" /\ e = "accepted"
  PROVE  LogInv'
<1>1. Len(log) \in Nat /\ Len(log) >= 1 BY LenProperties DEF TypeOK, LogInv, Sent
<1>2. /\ Len(log') = Len(log)
      /\ \A i \in 1..Len(log) : i # Len(log) => log'[i] = log[i]
      /\ log'[Len(log)] = [log[Len(log)] EXCEPT !.effect = e]
  BY <1>1, Learned
<1>3. log[Len(log)] \in Dispatches BY <1>1, ElementOfSeq DEF TypeOK
<1>4. ~retried' => RejectedUpTo(Len(log) - 1)'
  BY <1>1, <1>2 DEF LogInv, Sent, RejectedUpTo
<1>5. HasKey(Current)' = HasKey(Current) /\ Current' = Current BY DEF HasKey, Current
<1>6. QED BY <1>1, <1>2, <1>3, <1>4, <1>5 DEF LogInv, Sent, Walking, Dispatches

\* Every step preserves what is known about the dispatches made so far.
LEMMA LogStep ==
  ASSUME TypeOK, RunInv, ClockInv, LogInv, [Next]_vars
  PROVE  LogInv'
<1> USE DEF vars, walkVars, attemptVars, resourceVars, envVars, historyVars, Return, TryNext
<1>1. CASE NodeExhausted
  BY <1>1 DEF NodeExhausted, NodeFails, LogInv, RejectedUpTo, Repeatable, Walking, Sent
<1>2. ASSUME NEW n \in Node, EnterChild(n) PROVE LogInv'
  BY <1>2 DEF EnterChild, LogInv, RejectedUpTo, Repeatable, Walking, Sent
<1>3. ASSUME NEW g \in Group, EnterGroup(g) PROVE LogInv'
  BY <1>3 DEF EnterGroup, LogInv, RejectedUpTo, Repeatable, Walking, Sent
<1>4. CASE WalkError BY <1>4 DEF WalkError, LogInv, RejectedUpTo, Repeatable, Walking, Sent
<1>5. CASE MemberExhausted
  BY <1>5 DEF MemberExhausted, NodeFails, LogInv, RejectedUpTo, Repeatable, Walking, Sent
<1>6. ASSUME NEW c \in Candidate, SkipCandidate(c) PROVE LogInv'
  BY <1>6 DEF SkipCandidate, LogInv, RejectedUpTo, Repeatable, Walking, Sent
<1>7. ASSUME NEW c \in Candidate, Admit(c) PROVE LogInv'
  BY <1>7 DEF Admit, LogInv, RejectedUpTo, Repeatable, Walking, Sent
<1>8. CASE AcquireCredential
  BY <1>8 DEF AcquireCredential, RunInv, LogInv, RejectedUpTo, Repeatable, Walking, Sent
<1>9. CASE CredentialUnavailable
  BY <1>9 DEF CredentialUnavailable, LogInv, RejectedUpTo, Repeatable, Walking, Sent
<1>10. CASE BorrowFails BY <1>10 DEF BorrowFails, LogInv, RejectedUpTo, Repeatable, Walking, Sent
<1>11. CASE DispatchRefused
  BY <1>11 DEF DispatchRefused, ReleaseCandidate, LogInv, RejectedUpTo, Repeatable, Walking, Sent
<1>12. CASE PrepareFails
  BY <1>12 DEF PrepareFails, ReleaseCandidate, LogInv, RejectedUpTo, Repeatable, Walking, Sent
<1>13. CASE Prepare
  BY <1>13 DEF Prepare, HasKey, Current, LogInv, RejectedUpTo, Repeatable, Walking, Sent
<1>14. CASE Dispatch
  <2>1. Len(log) \in Nat BY LenProperties DEF TypeOK
  <2>2. /\ pc' = "await" /\ Current' = Current /\ HasKey(Current)' = HasKey(Current)
        /\ UNCHANGED <<retried, attempts>>
    BY <1>14 DEF Dispatch, Current, HasKey
  <2>3. Len(log') >= 1 BY <2>1, <1>14, Dispatched
  <2>4. ~retried' => RejectedUpTo(Len(log) - 1)'
    <3>1. SUFFICES ASSUME ~retried, NEW i \in 1..(Len(log') - 1) PROVE log'[i].effect = "rejected"
      BY <2>2 DEF RejectedUpTo
    <3>2. i \in 1..Len(log) /\ log'[i] = log[i] BY <2>1, <1>14, Dispatched
    <3>3. QED BY <3>1, <3>2, <1>14 DEF LogInv, RejectedUpTo, Dispatch
  <2>5. log'[Len(log')] = NewDispatch BY <2>1, <1>14, Dispatched
  <2>6. HasKey(Current) => first' # 0 /\ first' <= now
    <3>1. CASE first = 0 BY <3>1, <1>14 DEF Dispatch, TypeOK, ClockInv
    <3>2. CASE first # 0 BY <3>2, <1>14 DEF Dispatch, TypeOK, ClockInv
    <3>3. QED BY <3>1, <3>2
  <2>7. QED BY <2>2, <2>3, <2>4, <2>5, <2>6 DEF LogInv, Sent, Walking, NewDispatch
<1>15. CASE TransportError
  <2>1. CASE ctx = "live" /\ KeyedReplay
    <3>1. /\ pc = "await" /\ pc' = "prepare" /\ retried' /\ ~retried /\ HasKey(Current)
          /\ UNCHANGED <<safety, cand, log, first>>
      BY <1>15, <2>1 DEF TransportError, KeyedReplay, TransportGivesUp, ReplayWithKey
    <3>2. QED BY <3>1, AmbiguousRepeats DEF LogInv, Walking, Sent
  <2>2. CASE ~(ctx = "live" /\ KeyedReplay)
    BY <1>15, <2>2 DEF TransportError, TransportGivesUp, LogInv, Walking, Sent
  <2>3. QED BY <2>1, <2>2
<1>16. ASSUME NEW a \in Answer, ErrorAnswer(a) PROVE LogInv'
  <2>1. a.effect \in Effects BY KernelAssumption DEF AnswerType, Effects
  <2>2. QED BY <1>16, <2>1, EffectLearned DEF ErrorAnswer
<1>17. CASE ContinuityReset
  BY <1>17 DEF ContinuityReset, ReleaseCandidate, LogInv, RejectedUpTo, Repeatable, Walking, Sent
<1>18. CASE ReplayAnswer
  <2>1. /\ pc = "answered" /\ pc' = "prepare" /\ retried' /\ ~retried /\ HasKey(Current)
        /\ answer.effect # "accepted" /\ UNCHANGED <<safety, cand, log, first>>
    BY <1>18 DEF ReplayAnswer, RetryAnswer, KeyedReplay, ReplayWithKey
  <2>2. QED BY <2>1, AmbiguousRepeats DEF LogInv, Walking, Sent
<1>19. CASE RefreshCredential
  <2>1. /\ pc = "answered" /\ pc' = "prepare" /\ answer.effect # "accepted"
        /\ UNCHANGED <<safety, cand, log, first>> /\ retried' = (retried \/ HasKey(Current))
    BY <1>19 DEF RefreshCredential, CanRefresh
  <2>2. CASE CanReplayAfterDispatch(answer.effect)
    <3>1. answer.effect = "rejected" /\ ~HasKey(Current) /\ ~retried
      BY <2>2 DEF CanReplayAfterDispatch, HasKey, RunInv
    <3>2. RejectedUpTo(Len(log)) BY <2>1, <3>1, RejectedToo
    <3>3. QED BY <2>1, <3>1, <3>2 DEF LogInv, RejectedUpTo, Walking, Sent
  <2>3. CASE ~CanReplayAfterDispatch(answer.effect)
    <3>1. KeyedReplay BY <2>3, <1>19 DEF RefreshCredential, CanRefresh
    <3>2. HasKey(Current) /\ ~retried BY <3>1 DEF KeyedReplay
    <3>3. QED BY <2>1, <3>2, AmbiguousRepeats DEF LogInv, Walking, Sent
  <2>4. QED BY <2>2, <2>3
<1>20. CASE AnswerFails
  <2>1. CASE CanReplayAfterDispatch(answer.effect)
    <3>1. answer.effect = "rejected" /\ ~retried
      BY <2>1 DEF CanReplayAfterDispatch, RunInv
    <3>2. RejectedUpTo(Len(log)) BY <1>20, <3>1, RejectedToo DEF AnswerFails
    <3>3. QED BY <1>20, <2>1, <3>2 DEF AnswerFails, LogInv, RejectedUpTo, Walking, Sent
  <2>2. CASE ~CanReplayAfterDispatch(answer.effect)
    BY <1>20, <2>2 DEF AnswerFails, LogInv, Walking, Sent
  <2>3. QED BY <2>1, <2>2
<1>21. CASE Accepted
  BY <1>21, EffectLearned DEF Accepted, Effects
<1>22. CASE Commit
  BY <1>22 DEF Commit, HasKey, Current, LogInv, RejectedUpTo, Repeatable, Walking, Sent
<1>23. CASE RenderDone
  BY <1>23 DEF RenderDone, ReleaseCandidate, LogInv, RejectedUpTo, Repeatable, Walking, Sent
<1>24. ASSUME NEW origin \in Origin, RenderFails(origin) PROVE LogInv'
  BY <1>24 DEF RenderFails, ReleaseCandidate, LogInv, RejectedUpTo, Repeatable, Walking, Sent
<1>25. ASSUME NEW how \in {"cancelled", "deadline"}, Interrupt(how) PROVE LogInv'
  BY <1>25 DEF Interrupt, HasKey, Current, LogInv, RejectedUpTo, Repeatable, Walking, Sent
<1>26. CASE Tick
  BY <1>26 DEF Tick, HasKey, Current, LogInv, RejectedUpTo, Repeatable, Walking, Sent
<1>27. CASE UNCHANGED vars BY <1>27 DEF HasKey, Current, LogInv, RejectedUpTo, Repeatable,
    Walking, Sent
<1>28. QED
  BY <1>1, <1>2, <1>3, <1>4, <1>5, <1>6, <1>7, <1>8, <1>9, <1>10, <1>11, <1>12, <1>13, <1>14,
     <1>15, <1>16, <1>17, <1>18, <1>19, <1>20, <1>21, <1>22, <1>23, <1>24, <1>25, <1>26, <1>27
     DEF Next, Walk, Attempt

(***************************************************************************)
(* What a step does to the clock, to the dispatches and to the             *)
(* observations, whichever action it is.                                   *)
(***************************************************************************)
Active == Holding \cup {"credential"}

ClockShape ==
  \/ UNCHANGED first /\ now' \in {now, now + 1}
  \/ first' \in {0, first, now} /\ UNCHANGED now

LogShape ==
  \/ UNCHANGED log
  \/ Dispatch
  \/ pc = "await" /\ \E e \in Effects : LearnEffect(e)

\* The observation that ends an attempt.
Ended(cause) ==
  /\ Observe(cause) /\ UNCHANGED <<log, attempts>>
  /\ pc \in Sent /\ pc' \in {"candidate", "returned"}
  /\ cause \in {"success", "stream"} => pc = "render" /\ pc' = "returned"
  /\ cause = "success" => result' = "ok"
  /\ ctx = "cancelled" => cause \in {"status", "continuity"}

ToldShape ==
  \/ /\ UNCHANGED told
     /\ \/ attempts' = attempts + 1
        \/ attempts' = attempts /\ (pc' \in Active => pc \in Active)
  \/ \E cause \in Causes : Ended(cause)

ResultShape ==
  result' = "no_route" => UNCHANGED log /\ pc \in Walking

Shape ==
  \/ UNCHANGED vars
  \/ pc # "returned" /\ ClockShape /\ LogShape /\ ToldShape /\ ResultShape

\* How a step can change the clock, the dispatches, the evidence and the result.
LEMMA Shapes ==
  ASSUME TypeOK, RunInv, [Next]_vars
  PROVE  Shape
<1> USE DEF vars, walkVars, attemptVars, resourceVars, envVars, historyVars, Return, TryNext
<1>1. CASE NodeExhausted
  BY <1>1 DEF NodeExhausted, NodeFails, Shape, ClockShape, LogShape, ToldShape, ResultShape,
      RunInv, Walking, Active, Holding
<1>2. ASSUME NEW n \in Node, EnterChild(n) PROVE Shape
  BY <1>2 DEF EnterChild, Shape, ClockShape, LogShape, ToldShape, ResultShape, RunInv,
      Walking, Active, Holding
<1>3. ASSUME NEW g \in Group, EnterGroup(g) PROVE Shape
  BY <1>3 DEF EnterGroup, Shape, ClockShape, LogShape, ToldShape, ResultShape, RunInv,
      Walking, Active, Holding
<1>4. CASE WalkError
  BY <1>4 DEF WalkError, Shape, ClockShape, LogShape, ToldShape, ResultShape, RunInv, Walking,
      Active, Holding
<1>5. CASE MemberExhausted
  BY <1>5 DEF MemberExhausted, NodeFails, Shape, ClockShape, LogShape, ToldShape, ResultShape,
      RunInv, Walking, Active, Holding
<1>6. ASSUME NEW c \in Candidate, SkipCandidate(c) PROVE Shape
  BY <1>6 DEF SkipCandidate, Shape, ClockShape, LogShape, ToldShape, ResultShape, RunInv,
      Walking, Active, Holding
<1>7. ASSUME NEW c \in Candidate, Admit(c) PROVE Shape
  BY <1>7 DEF Admit, Shape, ClockShape, LogShape, ToldShape, ResultShape, RunInv, Walking,
      Active, Holding
<1>8. CASE AcquireCredential
  BY <1>8 DEF AcquireCredential, Shape, ClockShape, LogShape, ToldShape, ResultShape, RunInv,
      Walking, Active, Holding
<1>9. CASE CredentialUnavailable
  BY <1>9 DEF CredentialUnavailable, Shape, ClockShape, LogShape, ToldShape, ResultShape,
      RunInv, Walking, Active, Holding
<1>10. CASE BorrowFails
  BY <1>10 DEF BorrowFails, Shape, ClockShape, LogShape, ToldShape, ResultShape, RunInv,
      Walking, Active, Holding
<1>11. CASE DispatchRefused
  BY <1>11 DEF DispatchRefused, ReleaseCandidate, Shape, ClockShape, LogShape, ToldShape,
      ResultShape, RunInv, Walking, Active, Holding
<1>12. CASE PrepareFails
  BY <1>12 DEF PrepareFails, ReleaseCandidate, Shape, ClockShape, LogShape, ToldShape,
      ResultShape, RunInv, Walking, Active, Holding
<1>13. CASE Prepare
  BY <1>13 DEF Prepare, Shape, ClockShape, LogShape, ToldShape, ResultShape, RunInv, Walking,
      Active, Holding
<1>14. CASE Dispatch
  <2>1. LogShape BY <1>14 DEF LogShape
  <2>2. QED BY <1>14, <2>1 DEF Dispatch, Shape, ClockShape, ToldShape, ResultShape, RunInv,
      Active, Holding
<1>15. CASE TransportError
  <2>1. ToldShape BY <1>15 DEF TransportError, TransportGivesUp, ReplayWithKey,
      ReleaseCandidate, ToldShape, Ended, Causes, Sent, Active, Holding
  <2>2. QED BY <1>15, <2>1 DEF TransportError, TransportGivesUp, ReplayWithKey,
      ReleaseCandidate, Shape, ClockShape, LogShape, ResultShape, RunInv
<1>16. ASSUME NEW a \in Answer, ErrorAnswer(a) PROVE Shape
  <2>1. a.effect \in Effects BY KernelAssumption DEF AnswerType, Effects
  <2>2. LogShape BY <1>16, <2>1 DEF ErrorAnswer, LogShape
  <2>3. QED BY <1>16, <2>2 DEF ErrorAnswer, Shape, ClockShape, ToldShape, ResultShape, RunInv,
      Active, Holding
<1>17. CASE ContinuityReset
  <2>1. ToldShape BY <1>17 DEF ContinuityReset, ReleaseCandidate, ToldShape, Ended, Causes,
      Sent, Active, Holding
  <2>2. QED BY <1>17, <2>1 DEF ContinuityReset, ReleaseCandidate, Shape, ClockShape, LogShape,
      ResultShape, RunInv
<1>18. CASE ReplayAnswer
  BY <1>18 DEF ReplayAnswer, ReplayWithKey, Shape, ClockShape, LogShape, ToldShape,
      ResultShape, RunInv, Walking, Active, Holding
<1>19. CASE RefreshCredential
  BY <1>19 DEF RefreshCredential, ExchangeLease, Shape, ClockShape, LogShape, ToldShape,
      ResultShape, RunInv, Walking, Active, Holding
<1>20. CASE AnswerFails
  <2>1. ToldShape BY <1>20 DEF AnswerFails, ReleaseCandidate, ToldShape, Ended, Causes, Sent,
      Active, Holding
  <2>2. QED BY <1>20, <2>1 DEF AnswerFails, ReleaseCandidate, Shape, ClockShape, LogShape,
      ResultShape, RunInv
<1>21. CASE Accepted
  <2>1. LogShape BY <1>21 DEF Accepted, LogShape, Effects
  <2>2. QED BY <1>21, <2>1 DEF Accepted, Shape, ClockShape, ToldShape, ResultShape, RunInv,
      Active, Holding
<1>22. CASE Commit
  BY <1>22 DEF Commit, Shape, ClockShape, LogShape, ToldShape, ResultShape, RunInv, Walking,
      Active, Holding
<1>23. CASE RenderDone
  <2>1. ToldShape BY <1>23 DEF RenderDone, ReleaseCandidate, ToldShape, Ended, Causes, Sent,
      Active, Holding
  <2>2. QED BY <1>23, <2>1 DEF RenderDone, ReleaseCandidate, Shape, ClockShape, LogShape,
      ResultShape, RunInv
<1>24. ASSUME NEW origin \in Origin, RenderFails(origin) PROVE Shape
  <2>1. ToldShape BY <1>24 DEF RenderFails, RenderEvidence, ReleaseCandidate, ToldShape,
      Ended, Causes, Sent, Active, Holding
  <2>2. QED BY <1>24, <2>1 DEF RenderFails, RenderEvidence, ReleaseCandidate, Shape,
      ClockShape, LogShape, ResultShape, RunInv
<1>25. ASSUME NEW how \in {"cancelled", "deadline"}, Interrupt(how) PROVE Shape
  BY <1>25 DEF Interrupt, Shape, ClockShape, LogShape, ToldShape, ResultShape, RunInv,
      Walking, Active, Holding
<1>26. CASE Tick
  BY <1>26 DEF Tick, Shape, ClockShape, LogShape, ToldShape, ResultShape, RunInv, Walking,
      Active, Holding
<1>27. CASE UNCHANGED vars BY <1>27 DEF Shape, ClockShape, LogShape, ToldShape, ResultShape,
    RunInv, Walking, Active, Holding
<1>28. QED
  BY <1>1, <1>2, <1>3, <1>4, <1>5, <1>6, <1>7, <1>8, <1>9, <1>10, <1>11, <1>12, <1>13, <1>14,
     <1>15, <1>16, <1>17, <1>18, <1>19, <1>20, <1>21, <1>22, <1>23, <1>24, <1>25, <1>26, <1>27
     DEF Next, Walk, Attempt

\* Every step preserves the order of the clock and the first dispatch.
LEMMA ClockStep ==
  ASSUME TypeOK, RunInv, ClockInv, [Next]_vars
  PROVE  ClockInv'
<1>1. CASE UNCHANGED vars BY <1>1 DEF ClockInv, vars, attemptVars, envVars
<1>2. CASE ClockShape BY <1>2 DEF ClockShape, ClockInv, TypeOK
<1>3. QED BY <1>1, <1>2, Shapes DEF Shape

\* A step that ends with ErrNoRoute leaves only rejected dispatches behind.
LEMMA NoRouteStep ==
  ASSUME TypeOK, RunInv, LogInv, NoRouteMeansNoEffect, [Next]_vars
  PROVE  NoRouteMeansNoEffect'
<1>1. CASE UNCHANGED vars BY <1>1 DEF NoRouteMeansNoEffect, vars, historyVars
<1>2. CASE pc # "returned" /\ ResultShape
  BY <1>2 DEF ResultShape, NoRouteMeansNoEffect, RunInv, LogInv, RejectedUpTo, Walking
<1>3. QED BY <1>1, <1>2, Shapes DEF Shape

\* A dispatch only follows confirmed rejections or repeats a keyed request.
LEMMA EffectStep ==
  ASSUME TypeOK, RunInv, ClockInv, LogInv, EffectAtMostOnce, [Next]_vars
  PROVE  EffectAtMostOnce'
<1>1. Len(log) \in Nat BY LenProperties DEF TypeOK
<1>2. CASE UNCHANGED log BY <1>2 DEF EffectAtMostOnce
<1>3. CASE Dispatch
  <2>1. SUFFICES ASSUME NEW i \in 1..Len(log'), NEW j \in 1..Len(log'), i < j
                 PROVE  \/ log'[i].effect = "rejected"
                        \/ /\ log'[i].effect # "accepted"
                           /\ log'[i].cand = log'[j].cand /\ log'[i].keyed /\ log'[j].keyed
                           /\ log'[j].at - log'[i].at < Retention
    BY DEF EffectAtMostOnce
  <2>2. i \in 1..Len(log) /\ log'[i] = log[i] BY <1>1, <1>3, <2>1, Dispatched
  <2>3. CASE j \in 1..Len(log)
    BY <1>3, <2>1, <2>2, <2>3, Dispatched DEF EffectAtMostOnce
  <2>4. CASE j \notin 1..Len(log)
    <3>1. log'[j] = NewDispatch BY <1>1, <1>3, <2>1, <2>4, Dispatched
    <3>2. CASE ~retried BY <1>3, <2>2, <3>2 DEF LogInv, RejectedUpTo, Dispatch
    <3>3. CASE retried
      <4>1. log[i].effect = "rejected" \/ Repeatable(log[i])
        BY <1>3, <2>2, <3>3 DEF LogInv, Dispatch
      <4>2. HasKey(Current) BY <1>3, <3>3 DEF RunInv, Holding, Dispatch
      <4>3. now - first < Retention BY <1>3, <3>3 DEF Dispatch, PermitsReplay
      <4>4. log[i] \in Dispatches BY <2>2, ElementOfSeq DEF TypeOK
      <4>5. CASE Repeatable(log[i])
        <5>1. now - log[i].at < Retention
          BY <4>3, <4>4, <4>5, KernelAssumption DEF Repeatable, TypeOK, Dispatches
        <5>2. QED BY <2>2, <3>1, <4>2, <4>5, <5>1 DEF Repeatable, NewDispatch
      <4>6. QED BY <2>2, <4>1, <4>5
    <3>4. QED BY <3>2, <3>3
  <2>5. QED BY <2>3, <2>4
<1>4. ASSUME pc = "await", NEW e \in Effects, LearnEffect(e) PROVE EffectAtMostOnce'
  <2>1. Len(log) >= 1 BY <1>4 DEF LogInv, Sent
  <2>2. log[Len(log)] \in Dispatches BY <1>1, <2>1, ElementOfSeq DEF TypeOK
  <2>3. /\ Len(log') = Len(log)
        /\ \A i \in 1..Len(log) : i # Len(log) => log'[i] = log[i]
        /\ log'[Len(log)] = [log[Len(log)] EXCEPT !.effect = e]
    BY <1>4, <2>1, Learned
  <2>4. \A i \in 1..Len(log) :
          log'[i].cand = log[i].cand /\ log'[i].keyed = log[i].keyed /\ log'[i].at = log[i].at
    BY <2>2, <2>3 DEF Dispatches
  <2>5. QED BY <1>1, <2>3, <2>4 DEF EffectAtMostOnce
<1>5. QED BY <1>2, <1>3, <1>4, Shapes DEF Shape, LogShape, vars, historyVars

\* A dispatch on record keeps its place and its attempt.
LEMMA AttemptsKept ==
  ASSUME TypeOK, LogInv, LogShape
  PROVE  \A d \in 1..Len(log) : d \in 1..Len(log') /\ log'[d].attempt = log[d].attempt
<1>1. Len(log) \in Nat BY LenProperties DEF TypeOK
<1>2. CASE UNCHANGED log BY <1>2
<1>3. CASE Dispatch BY <1>1, <1>3, Dispatched
<1>4. ASSUME pc = "await", NEW e \in Effects, LearnEffect(e)
      PROVE  \A d \in 1..Len(log) : d \in 1..Len(log') /\ log'[d].attempt = log[d].attempt
  <2>1. Len(log) >= 1 BY <1>4 DEF LogInv, Sent
  <2>2. log[Len(log)] \in Dispatches BY <1>1, <2>1, ElementOfSeq DEF TypeOK
  <2>3. /\ Len(log') = Len(log)
        /\ \A i \in 1..Len(log) : i # Len(log) => log'[i] = log[i]
        /\ log'[Len(log)] = [log[Len(log)] EXCEPT !.effect = e]
    BY <1>4, <2>1, Learned
  <2>4. QED BY <2>2, <2>3 DEF Dispatches
<1>5. QED BY <1>2, <1>3, <1>4 DEF LogShape

\* Every step preserves which attempts have reported evidence.
LEMMA ToldStep ==
  ASSUME TypeOK, RunInv, ToldInv, [Next]_vars
  PROVE  ToldInv'
<1>1. Len(told) \in Nat /\ \A i \in 1..Len(told) : told[i].attempt \in Nat
  <2>1. Len(told) \in Nat BY LenProperties DEF TypeOK
  <2>2. \A i \in 1..Len(told) : told[i] \in Observations BY ElementOfSeq DEF TypeOK
  <2>3. QED BY <2>1, <2>2 DEF Observations
<1>2. CASE UNCHANGED vars
  BY <1>2 DEF ToldInv, vars, historyVars, resourceVars
<1>3. CASE pc # "returned" /\ ToldShape
  <2>1. ASSUME UNCHANGED told, attempts' = attempts + 1 PROVE ToldInv'
    <3>1. attempts \in Nat /\ \A i \in 1..Len(told) : told[i].attempt < attempts'
      BY <1>1, <2>1 DEF ToldInv, TypeOK
    <3>2. \A i \in 1..Len(told) : told[i].attempt <= attempts' BY <1>1, <2>1, <3>1
    <3>3. QED BY <1>3, <2>1, <3>1, <3>2 DEF ToldInv
  <2>2. ASSUME UNCHANGED told, attempts' = attempts, pc' \in Active => pc \in Active
        PROVE  ToldInv'
    BY <1>1, <1>3, <2>2 DEF ToldInv, Active
  <2>3. ASSUME NEW cause \in Causes, Ended(cause) PROVE ToldInv'
    <3>1. /\ Len(told') = Len(told) + 1
          /\ \A i \in 1..Len(told) : told'[i] = told[i]
          /\ told'[Len(told) + 1] = [attempt |-> attempts, cause |-> cause, ctx |-> ctx]
      BY <2>3, Observed DEF Ended
    <3>2. \A i \in 1..Len(told') : i \in 1..Len(told) \/ i = Len(told) + 1 BY <1>1, <3>1
    <3>3. attempts' = attempts /\ attempts \in Nat BY <2>3 DEF Ended, TypeOK
    <3>4. \A i \in 1..Len(told') : told'[i].attempt <= attempts'
      BY <3>1, <3>2, <3>3 DEF ToldInv
    <3>5. pc' \notin Holding \cup {"credential"} BY <2>3 DEF Ended, Holding
    <3>6. pc' # "returned" => \A i \in 1..Len(told') : told'[i].cause \notin {"success", "stream"}
      BY <1>3, <2>3, <3>1, <3>2 DEF ToldInv, Ended
    <3>7. QED BY <3>4, <3>5, <3>6 DEF ToldInv
  <2>4. QED BY <1>3, <2>1, <2>2, <2>3 DEF ToldShape
<1>4. QED BY <1>2, <1>3, Shapes DEF Shape

\* A step reports evidence at most once per attempt, and only what it earned.
LEMMA EvidenceStep ==
  ASSUME TypeOK, RunInv, LogInv, ToldInv, EvidenceIsEarned, [Next]_vars
  PROVE  EvidenceIsEarned'
<1>1. Len(told) \in Nat /\ Len(log) \in Nat BY LenProperties DEF TypeOK
<1>2. CASE UNCHANGED vars BY <1>2 DEF EvidenceIsEarned, vars, historyVars
<1>3. CASE pc # "returned" /\ LogShape /\ ToldShape
  <2>1. \A i \in 1..Len(told) : \E d \in 1..Len(log') : log'[d].attempt = told[i].attempt
    BY <1>3, AttemptsKept DEF EvidenceIsEarned
  <2>2. \A i \in 1..Len(told) :
          /\ told[i].cause \notin {"success", "stream"}
          /\ told[i].ctx = "cancelled" => told[i].cause \in {"status", "continuity"}
    BY <1>3 DEF ToldInv, EvidenceIsEarned
  <2>3. CASE UNCHANGED told
    BY <2>1, <2>2, <2>3 DEF EvidenceIsEarned
  <2>4. ASSUME NEW cause \in Causes, Ended(cause) PROVE EvidenceIsEarned'
    <3> DEFINE n == Len(told) + 1
    <3>1. /\ Len(told') = n
          /\ \A i \in 1..Len(told) : told'[i] = told[i]
          /\ told'[n] = [attempt |-> attempts, cause |-> cause, ctx |-> ctx]
      BY <2>4, Observed DEF Ended
    <3>2. \A i \in 1..Len(told') : i \in 1..Len(told) \/ i = n BY <1>1, <3>1
    <3>3. \A i \in 1..Len(told) : told[i].attempt # attempts
      BY <2>4 DEF ToldInv, Ended, Sent, Holding, TypeOK
    <3>4. UNCHANGED log /\ Len(log) \in 1..Len(log) /\ log[Len(log)].attempt = attempts
      BY <1>1, <2>4 DEF Ended, LogInv
    <3>5. cause \in {"success", "stream"} => log[Len(log)].effect = "accepted"
      BY <2>4 DEF Ended, LogInv, Sent
    <3>6. /\ cause = "success" => result' = "ok"
          /\ ctx = "cancelled" => cause \in {"status", "continuity"}
      BY <2>4 DEF Ended
    <3> HIDE DEF n
    <3>7. ASSUME NEW i \in 1..Len(told'), NEW j \in 1..Len(told'), i # j
          PROVE  told'[i].attempt # told'[j].attempt
      BY <3>1, <3>2, <3>3, <3>7 DEF EvidenceIsEarned
    <3>8. ASSUME NEW i \in 1..Len(told')
          PROVE  /\ \E d \in 1..Len(log') : log'[d].attempt = told'[i].attempt
                 /\ told'[i].cause \in {"success", "stream"} => log'[Len(log')].effect = "accepted"
                 /\ told'[i].cause = "success" => result' = "ok"
                 /\ told'[i].ctx = "cancelled" => told'[i].cause \in {"status", "continuity"}
      <4>1. CASE i \in 1..Len(told) BY <2>1, <2>2, <3>1, <4>1
      <4>2. CASE i = n BY <3>1, <3>4, <3>5, <3>6, <4>2
      <4>3. QED BY <3>2, <4>1, <4>2
    <3>9. QED BY <3>7, <3>8 DEF EvidenceIsEarned
  <2>5. QED BY <1>3, <2>3, <2>4 DEF ToldShape
<1>4. QED BY <1>2, <1>3, Shapes DEF Shape

(***************************************************************************)
(* The theorems.                                                           *)
(***************************************************************************)
LEMMA InitialState == Init => IInv
<1> SUFFICES ASSUME Init PROVE IInv OBVIOUS
<1>1. PICK plan \in Plans(Root) : frames = <<[node |-> Root, left |-> plan]>> BY DEF Init
<1>2. [node |-> Root, left |-> plan] \in Frame BY <1>1, KernelAssumption DEF Plans, Frame
<1>3. frames \in Seq(Frame) /\ Len(frames) = 1 BY <1>1, <1>2
<1>4. TypeOK
  <2>1. retried \in BOOLEAN /\ refreshed \in BOOLEAN /\ committed \in BOOLEAN
    BY Zenon DEF Init
  <2>2. log \in Seq(Dispatches) /\ told \in Seq(Observations) BY EmptySeq DEF Init
  <2>3. answer \in AnswerType BY NoAnswerType DEF Init
  <2>4. QED BY <1>3, <2>1, <2>2, <2>3 DEF Init, TypeOK, Frame, PC, Result, ErrorClass
<1>5. RunInv /\ ClockInv /\ ResourceInv /\ ToldInv
  BY <1>3 DEF Init, RunInv, ClockInv, ResourceInv, ToldInv, Holding, Walking
<1>6. LogInv BY DEF Init, LogInv, RejectedUpTo, Sent
<1>7. EffectAtMostOnce /\ NoRouteMeansNoEffect /\ EvidenceIsEarned
  BY DEF Init, EffectAtMostOnce, NoRouteMeansNoEffect, EvidenceIsEarned
<1>8. QED BY <1>4, <1>5, <1>6, <1>7 DEF IInv

\* The inductive invariant: what an attempt holds, what is known about every
\* dispatch and which evidence was given, at each point of executeNode.
THEOREM ExecutionInvariant == Spec => []IInv
<1>1. IInv /\ [Next]_vars => IInv'
  BY TypeStep, RunStep, ClockStep, ResourceStep, LogStep, ToldStep, EffectStep, NoRouteStep,
     EvidenceStep DEF IInv
<1>2. QED BY InitialState, <1>1, PTL DEF Spec

\* Every variable of an Execute call keeps its type.
THEOREM ExecutionTypeCorrect == Spec => []TypeOK
<1>1. IInv => TypeOK BY DEF IInv
<1>2. QED BY ExecutionInvariant, <1>1, PTL

\* executeNode never dispatches again after an effect that may have happened,
\* except as an idempotent repetition within the retention window.
THEOREM EffectCorrect == Spec => []EffectAtMostOnce
<1>1. IInv => EffectAtMostOnce BY DEF IInv
<1>2. QED BY ExecutionInvariant, <1>1, PTL

\* ErrNoRoute is returned only when every dispatch was rejected.
THEOREM NoRouteCorrect == Spec => []NoRouteMeansNoEffect
<1>1. IInv => NoRouteMeansNoEffect BY DEF IInv
<1>2. QED BY ExecutionInvariant, <1>1, PTL

\* releaseCandidate has run for every admission and every lease on return.
THEOREM ResourcesCorrect == Spec => []ResourcesReturned
<1>1. IInv => ResourcesReturned BY DEF IInv, ResourceInv, ResourcesReturned
<1>2. QED BY ExecutionInvariant, <1>1, PTL

\* Observations given to the gate are earned by a dispatch, one per attempt.
THEOREM EvidenceCorrect == Spec => []EvidenceIsEarned
<1>1. IInv => EvidenceIsEarned BY DEF IInv
<1>2. QED BY ExecutionInvariant, <1>1, PTL

(***************************************************************************)
(* Continuations of an attempt.                                            *)
(***************************************************************************)
Continued == retried \/ refreshed

EarlierUpTo(n) == \A i \in 1..n : log[i].attempt < attempts

\* The running attempt has as many dispatches as its continuations allow.
CountInv ==
  /\ \A i \in 1..Len(log) : log[i].attempt <= attempts
  /\ pc = "credential" => ~Continued /\ EarlierUpTo(Len(log))
  /\ refreshed /\ HasKey(Current) /\ pc \in Holding => retried
  /\ pc \in {"prepare", "dispatch"} => EarlierUpTo(IF Continued THEN Len(log) - 1 ELSE Len(log))
  /\ pc \in Sent => EarlierUpTo(IF Continued THEN Len(log) - 2 ELSE Len(log) - 1)
  /\ ContinuedOnce

\* A step that makes no dispatch and no new attempt, and keeps the attempts of
\* the dispatches made.
SameDispatches ==
  /\ Len(log') = Len(log) /\ attempts' = attempts
  /\ \A i \in 1..Len(log) : log'[i].attempt = log[i].attempt

\* The attempt goes on without a dispatch.
LEMMA CountSame ==
  ASSUME TypeOK, CountInv, SameDispatches, UNCHANGED <<safety, cand, retried, refreshed>>,
         \/ pc' = pc
         \/ pc' \in Walking \cup {"returned"}
         \/ pc = "credential" /\ pc' = "prepare"
         \/ pc = "prepare" /\ pc' = "dispatch"
         \/ pc \in Sent /\ pc' \in Sent
  PROVE  CountInv'
<1>1. HasKey(Current)' = HasKey(Current) BY DEF HasKey, Current
<1>2. Len(log) \in Nat BY LenProperties DEF TypeOK
<1>3. ContinuedOnce' BY DEF CountInv, ContinuedOnce, SameDispatches
<1> QED
  BY <1>1, <1>2, <1>3 DEF CountInv, Continued, EarlierUpTo, SameDispatches, Walking, Holding, Sent

\* The ends of an attempt.
LEMMA CountEnds ==
  ASSUME TypeOK, CountInv, SameDispatches, pc' \in Walking \cup {"returned"}
  PROVE  CountInv'
<1>1. Len(log) \in Nat BY LenProperties DEF TypeOK
<1>2. ContinuedOnce' BY DEF CountInv, ContinuedOnce, SameDispatches
<1> QED
  BY <1>1, <1>2 DEF CountInv, SameDispatches, Walking, Holding, Sent

\* A continuation of an attempt that was not continued before.
LEMMA CountContinues ==
  ASSUME TypeOK, CountInv, SameDispatches, pc \in Sent, ~Continued, pc' = "prepare",
         Continued', HasKey(Current)' => retried'
  PROVE  CountInv'
<1>1. Len(log) \in Nat BY LenProperties DEF TypeOK
<1>2. ContinuedOnce' BY DEF CountInv, ContinuedOnce, SameDispatches
<1> QED
  BY <1>1, <1>2 DEF CountInv, Continued, EarlierUpTo, SameDispatches, Holding, Sent

\* Every dispatch carries the number of an attempt.
LEMMA DispatchTypes ==
  ASSUME TypeOK
  PROVE  Len(log) \in Nat /\ \A i \in 1..Len(log) : log[i] \in Dispatches /\ log[i].attempt \in Nat
<1>1. log \in Seq(Dispatches) BY DEF TypeOK
<1>2. Len(log) \in Nat /\ \A i \in 1..Len(log) : log[i] \in Dispatches
  BY <1>1, LenProperties, ElementOfSeq
<1> QED BY <1>2 DEF Dispatches

\* Every step keeps the count of dispatches.
LEMMA CountStep ==
  ASSUME TypeOK, RunInv, LogInv, CountInv, [Next]_vars
  PROVE  CountInv'
<1> USE DEF vars, walkVars, attemptVars, resourceVars, envVars, historyVars, Return, TryNext
<1>1. ASSUME UNCHANGED <<log, attempts>> PROVE SameDispatches
  BY <1>1 DEF SameDispatches
<1>2. ASSUME NEW e \in Effects, LearnEffect(e), pc \in Sent, UNCHANGED attempts
      PROVE  SameDispatches
  <2>1. Len(log) >= 1 /\ Len(log) \in Nat /\ log \in Seq(Dispatches)
    BY <1>2, LenProperties DEF LogInv, TypeOK
  <2>2. log[Len(log)] \in Dispatches BY <2>1, ElementOfSeq
  <2>3. /\ Len(log') = Len(log) /\ \A i \in 1..Len(log) : i # Len(log) => log'[i] = log[i]
        /\ log'[Len(log)] = [log[Len(log)] EXCEPT !.effect = e]
    BY <1>2, <2>1, Learned
  <2>4. log'[Len(log)].attempt = log[Len(log)].attempt BY <2>2, <2>3 DEF Dispatches
  <2>5. QED BY <1>2, <2>3, <2>4 DEF SameDispatches
<1>3. CASE Walk
  <2>1. ASSUME NEW c \in Candidate, Admit(c) PROVE CountInv'
    <3>1. /\ UNCHANGED log /\ attempts' = attempts + 1 /\ attempts \in Nat
          /\ pc' = "credential" /\ ~retried' /\ ~refreshed'
      BY <2>1 DEF Admit, TypeOK
    <3>2. \A i \in 1..Len(log) : log[i].attempt \in Nat
      BY DispatchTypes
    <3>3. ContinuedOnce' BY <3>1 DEF CountInv, ContinuedOnce
    <3>4. QED BY <3>1, <3>2, <3>3 DEF CountInv, Continued, EarlierUpTo, Holding, Sent
  <2>2. ASSUME NodeExhausted \/ WalkError \/ MemberExhausted PROVE CountInv'
    BY <1>1, <2>2, CountEnds DEF NodeExhausted, NodeFails, WalkError, MemberExhausted, Walking
  <2>3. ASSUME NEW n \in Node, EnterChild(n) PROVE CountInv'
    BY <1>1, <2>3, CountSame DEF EnterChild
  <2>4. ASSUME NEW g \in Group, EnterGroup(g) PROVE CountInv'
    BY <1>1, <2>4, CountEnds DEF EnterGroup, Walking
  <2>5. ASSUME NEW c \in Candidate, SkipCandidate(c) PROVE CountInv'
    BY <1>1, <2>5, CountSame DEF SkipCandidate
  <2>6. QED BY <1>3, <2>1, <2>2, <2>3, <2>4, <2>5 DEF Walk
<1>4. CASE AcquireCredential BY <1>1, <1>4, CountSame DEF AcquireCredential
<1>5. CASE CredentialUnavailable \/ BorrowFails
  BY <1>1, <1>5, CountEnds DEF CredentialUnavailable, BorrowFails, Walking
<1>6. CASE DispatchRefused \/ PrepareFails
  BY <1>1, <1>6, CountEnds DEF DispatchRefused, PrepareFails, ReleaseCandidate, Walking
<1>7. CASE Prepare BY <1>1, <1>7, CountSame DEF Prepare
<1>8. CASE Dispatch
  <2>1. /\ Len(log') = Len(log) + 1 /\ Len(log) \in Nat /\ attempts \in Nat
        /\ \A i \in 1..Len(log) : log'[i] = log[i] /\ log[i].attempt \in Nat
        /\ log'[Len(log) + 1].attempt = attempts
    BY <1>8, Dispatched, DispatchTypes DEF TypeOK, NewDispatch
  <2>2. pc = "dispatch" /\ pc' = "await" /\ UNCHANGED <<safety, cand, retried, refreshed, attempts>>
    BY <1>8 DEF Dispatch
  <2>3. HasKey(Current)' = HasKey(Current) BY <2>2 DEF HasKey, Current
  <2>4. EarlierUpTo(IF Continued THEN Len(log) - 1 ELSE Len(log)) BY <2>2 DEF CountInv
  <2>5. EarlierUpTo(IF Continued THEN Len(log) - 2 ELSE Len(log) - 1)'
    BY <2>1, <2>2, <2>4 DEF EarlierUpTo, Continued
  <2>6. EarlierUpTo(Len(log) - 1)
    BY <2>1, <2>4 DEF EarlierUpTo
  <2>7. ContinuedOnce'
    <3>1. SUFFICES ASSUME NEW i \in 1..Len(log'), NEW j \in 1..Len(log'), i + 2 <= j
                   PROVE  log'[i].attempt < log'[j].attempt
      BY DEF ContinuedOnce
    <3>2. i \in 1..(Len(log) - 1) /\ i \in 1..Len(log) BY <2>1, <3>1
    <3>3. CASE j \in 1..Len(log)
      BY <2>1, <3>1, <3>2, <3>3 DEF CountInv, ContinuedOnce
    <3>4. CASE j = Len(log) + 1
      BY <2>1, <2>6, <3>2, <3>4 DEF EarlierUpTo
    <3>5. QED BY <2>1, <3>3, <3>4
  <2>8. \A i \in 1..Len(log') : log'[i].attempt <= attempts'
    BY <2>1, <2>2 DEF CountInv
  <2>9. QED BY <2>2, <2>3, <2>5, <2>7, <2>8 DEF CountInv, Continued, Holding
<1>9. ASSUME KeyedReplay, ReplayWithKey, pc \in Sent, UNCHANGED <<safety, log, attempts>> PROVE CountInv'
  <2>1. ~retried /\ ~refreshed
    BY <1>9 DEF KeyedReplay, CountInv, Sent, Holding
  <2>2. pc' = "prepare" /\ retried'
    BY <1>9 DEF ReplayWithKey
  <2>3. QED BY <1>1, <1>9, <2>1, <2>2, CountContinues DEF Continued
<1>10. CASE TransportError
  <2>1. CASE ctx = "live" /\ KeyedReplay
    <3>1. ReplayWithKey /\ UNCHANGED <<safety, log>> /\ pc \in Sent
      BY <1>10, <2>1 DEF TransportError, Sent
    <3>2. QED BY <1>9, <2>1, <3>1 DEF ReplayWithKey
  <2>2. CASE ~(ctx = "live" /\ KeyedReplay)
    BY <1>1, <1>10, <2>2, CountEnds DEF TransportError, TransportGivesUp, ReleaseCandidate
  <2>3. QED BY <2>1, <2>2
<1>11. ASSUME NEW a \in Answer, ErrorAnswer(a) PROVE CountInv'
  <2>1. a.effect \in Effects BY KernelAssumption DEF AnswerType, Effects
  <2>2. pc \in Sent /\ pc' \in Sent /\ SameDispatches
    BY <1>2, <1>11, <2>1 DEF ErrorAnswer, Sent
  <2>3. QED BY <1>11, <2>2, CountSame DEF ErrorAnswer
<1>12. CASE ContinuityReset
  BY <1>1, <1>12, CountEnds DEF ContinuityReset, ReleaseCandidate
<1>13. CASE ReplayAnswer
  <2>1. KeyedReplay /\ ReplayWithKey /\ UNCHANGED <<safety, log>> /\ pc \in Sent
    BY <1>13 DEF ReplayAnswer, RetryAnswer, Sent
  <2>2. QED BY <1>9, <2>1 DEF ReplayWithKey
<1>14. CASE RefreshCredential
  <2>1. ~refreshed /\ ~retried
    BY <1>14 DEF RefreshCredential, CanRefresh, CanReplayAfterDispatch, KeyedReplay, RunInv
  <2>2. /\ pc \in Sent /\ pc' = "prepare" /\ refreshed' /\ UNCHANGED <<safety, cand, log, attempts>>
        /\ retried' = (retried \/ HasKey(Current))
    BY <1>14 DEF RefreshCredential, Sent
  <2>3. HasKey(Current)' = HasKey(Current) BY <2>2 DEF HasKey, Current
  <2>4. QED BY <1>1, <2>1, <2>2, <2>3, CountContinues DEF Continued
<1>15. CASE AnswerFails
  BY <1>1, <1>15, CountEnds DEF AnswerFails, ReleaseCandidate, Walking
<1>16. CASE Accepted
  <2>1. pc \in Sent /\ pc' \in Sent /\ SameDispatches
    BY <1>2, <1>16 DEF Accepted, Sent, Effects
  <2>2. QED BY <1>16, <2>1, CountSame DEF Accepted
<1>17. CASE Commit BY <1>1, <1>17, CountSame DEF Commit
<1>18. CASE RenderDone BY <1>1, <1>18, CountEnds DEF RenderDone, ReleaseCandidate
<1>19. ASSUME NEW origin \in Origin, RenderFails(origin) PROVE CountInv'
  BY <1>1, <1>19, CountEnds DEF RenderFails, ReleaseCandidate
<1>20. ASSUME NEW how \in {"cancelled", "deadline"}, Interrupt(how) PROVE CountInv'
  BY <1>1, <1>20, CountSame DEF Interrupt
<1>21. CASE Tick \/ UNCHANGED vars BY <1>1, <1>21, CountSame DEF Tick
<1>22. QED
  BY <1>3, <1>4, <1>5, <1>6, <1>7, <1>8, <1>10, <1>11, <1>12, <1>13, <1>14, <1>15, <1>16, <1>17,
     <1>18, <1>19, <1>20, <1>21 DEF Next, Attempt

\* The dispatches of an attempt are those its continuations allow.
LEMMA CountCorrect == Spec => []CountInv
<1>1. Init => CountInv
  BY DEF Init, CountInv, ContinuedOnce, Holding, Sent
<1>2. IInv /\ CountInv /\ [Next]_vars => CountInv'
  BY CountStep DEF IInv
<1>3. QED BY <1>1, <1>2, ExecutionInvariant, PTL DEF Spec

\* An attempt is dispatched again once at most (retryUpstream in executeNode).
THEOREM ContinuedCorrect == Spec => []ContinuedOnce
<1>1. CountInv => ContinuedOnce
  BY DEF CountInv
<1>2. QED BY <1>1, CountCorrect, PTL

(***************************************************************************)
(* The walk over the model graph.                                          *)
(***************************************************************************)
\* No model is under execution twice.
StackInv ==
  \A i, j \in 1..Len(frames) : frames[i].node = frames[j].node => i = j

\* The frames of the executeNode calls under way.
LEMMA StackTypes ==
  ASSUME TypeOK
  PROVE  /\ Len(frames) \in Nat
         /\ \A i \in 1..Len(frames) :
              /\ frames[i] \in Frame /\ frames[i].node \in Node
              /\ frames[i].left \subseteq Node \cup Group
<1>1. frames \in Seq(Frame) BY DEF TypeOK, Frame
<1>2. Len(frames) \in Nat /\ \A i \in 1..Len(frames) : frames[i] \in Frame
  BY <1>1, LenProperties, ElementOfSeq
<1> QED BY <1>2 DEF Frame

\* What is left of a plan is finite.
LEMMA LeftFinite ==
  ASSUME NEW S, S \subseteq Node \cup Group
  PROVE  IsFiniteSet(S) /\ Cardinality(S) \in Nat
<1>1. IsFiniteSet(Node \cup Group) BY FiniteAssumption, FS_Union
<1> QED BY <1>1, FS_Subset, FS_CardinalityType

\* The stack is at most as high as there are models.
LEMMA StackBounded ==
  ASSUME TypeOK, StackInv
  PROVE  Cardinality(Node) \in Nat /\ Len(frames) <= Cardinality(Node)
<1> DEFINE f == [i \in 1..Len(frames) |-> frames[i].node]
<1>1. f \in Injection(1..Len(frames), Node)
  BY StackTypes DEF StackInv, Injection, IsInjective
<1>2. Len(frames) \in Nat /\ Cardinality(1..Len(frames)) = Len(frames)
  <2>1. Len(frames) \in Nat BY StackTypes
  <2>2. Cardinality(1..Len(frames)) = IF 1 > Len(frames) THEN 0 ELSE Len(frames) - 1 + 1
    BY <2>1, FS_Interval
  <2> QED BY <2>1, <2>2
<1> HIDE DEF f
<1>3. Cardinality(1..Len(frames)) <= Cardinality(Node)
  BY <1>1, FiniteAssumption, FS_Injection
<1> QED BY <1>2, <1>3, FiniteAssumption, FS_CardinalityType

\* The frames a shorter stack keeps.
LEMMA PopIs ==
  ASSUME TypeOK, Len(frames) >= 1
  PROVE  Len(Pop) = Len(frames) - 1 /\ \A i \in 1..(Len(frames) - 1) : Pop[i] = frames[i]
<1>1. frames \in Seq(Frame) /\ Len(frames) \in Nat BY StackTypes DEF TypeOK, Frame
<1> DEFINE n == Len(frames) - 1
<1>2. n \in Nat /\ n <= Len(frames) BY <1>1
<1> HIDE DEF n
<1>3. Len(SubSeq(frames, 1, n)) = n /\ \A i \in 1..n : SubSeq(frames, 1, n)[i] = frames[i]
  BY <1>1, <1>2
<1> QED BY <1>3 DEF Pop, n

\* Taking a member off the plan on top.
LEMMA NarrowIs ==
  ASSUME TypeOK, Len(frames) >= 1, NEW m, NEW rest,
         rest = [frames EXCEPT ![Len(frames)].left = @ \ {m}]
  PROVE  /\ Len(rest) = Len(frames) /\ rest \in Seq(Frame)
         /\ \A i \in 1..(Len(frames) - 1) : rest[i] = frames[i]
         /\ rest[Len(frames)].node = Top.node /\ rest[Len(frames)].left = Top.left \ {m}
<1>1. frames \in Seq(Frame) /\ Len(frames) \in Nat /\ DOMAIN frames = 1..Len(frames)
      /\ Len(frames) \in 1..Len(frames)
  BY StackTypes, LenProperties DEF TypeOK, Frame
<1>2. frames[Len(frames)] \in Frame BY <1>1, StackTypes
<1>3. rest[Len(frames)] = [frames[Len(frames)] EXCEPT !.left = @ \ {m}]
      /\ \A i \in 1..(Len(frames) - 1) : rest[i] = frames[i]
  BY <1>1
<1>4. Len(rest) = Len(frames) /\ rest \in Seq(Frame) BY Narrowed
<1> QED BY <1>2, <1>3, <1>4 DEF Frame, Top

\* Entering a child: its parent gives it up, and its frame comes on top.
LEMMA EnterIs ==
  ASSUME TypeOK, RunInv, NEW n \in Node, EnterChild(n)
  PROVE  /\ Len(frames') = Len(frames) + 1 /\ Len(frames) >= 1
         /\ \A i \in 1..(Len(frames) - 1) : frames'[i] = frames[i]
         /\ frames'[Len(frames)].node = Top.node /\ frames'[Len(frames)].left = Top.left \ {n}
         /\ frames'[Len(frames) + 1].node = n /\ n \in Top.left
<1> DEFINE rest == [frames EXCEPT ![Len(frames)].left = @ \ {n}]
<1>1. Len(frames) >= 1 /\ n \in Top.left BY DEF EnterChild, RunInv
<1>2. PICK plan \in Plans(n) : frames' = Append(rest, [node |-> n, left |-> plan])
  BY DEF EnterChild
<1>3. [node |-> n, left |-> plan] \in Frame BY <1>2, KernelAssumption DEF Plans, Frame
<1>4. /\ Len(rest) = Len(frames) /\ rest \in Seq(Frame)
      /\ \A i \in 1..(Len(frames) - 1) : rest[i] = frames[i]
      /\ rest[Len(frames)].node = Top.node /\ rest[Len(frames)].left = Top.left \ {n}
  BY <1>1, NarrowIs
<1>5. Len(frames) \in Nat BY StackTypes
<1> HIDE DEF rest
<1>6. /\ Len(frames') = Len(rest) + 1 /\ \A i \in 1..Len(rest) : frames'[i] = rest[i]
      /\ frames'[Len(rest) + 1] = [node |-> n, left |-> plan]
  BY <1>2, <1>3, <1>4, AppendProperties
<1> QED BY <1>1, <1>4, <1>5, <1>6

\* Entering a group: the innermost call gives it up.
LEMMA GroupIs ==
  ASSUME TypeOK, RunInv, NEW g \in Group, EnterGroup(g)
  PROVE  /\ Len(frames') = Len(frames) /\ Len(frames) >= 1 /\ Len(frames) \in Nat
         /\ \A i \in 1..(Len(frames) - 1) : frames'[i] = frames[i]
         /\ frames'[Len(frames)].node = Top.node /\ frames'[Len(frames)].left = Top.left \ {g}
         /\ g \in Top.left
<1> DEFINE rest == [frames EXCEPT ![Len(frames)].left = @ \ {g}]
<1>1. Len(frames) >= 1 /\ g \in Top.left /\ frames' = rest BY DEF EnterGroup, RunInv
<1>2. /\ Len(rest) = Len(frames)
      /\ \A i \in 1..(Len(frames) - 1) : rest[i] = frames[i]
      /\ rest[Len(frames)].node = Top.node /\ rest[Len(frames)].left = Top.left \ {g}
  BY <1>1, NarrowIs
<1>3. Len(frames) \in Nat BY StackTypes
<1> HIDE DEF rest
<1> QED BY <1>1, <1>2, <1>3

\* executeNode refuses a model that is on its path.
LEMMA StackStep ==
  ASSUME TypeOK, RunInv, StackInv, [Next]_vars
  PROVE  StackInv'
<1> USE DEF vars, walkVars, attemptVars, resourceVars, envVars, historyVars, Return, TryNext
<1>1. Len(frames) \in Nat BY StackTypes
<1>2. ASSUME UNCHANGED frames PROVE StackInv' BY <1>2 DEF StackInv
<1>3. ASSUME pc # "returned", frames' = Pop PROVE StackInv'
  <2>1. Len(frames) >= 1 BY <1>3 DEF RunInv
  <2>2. QED BY <1>1, <1>3, <2>1, PopIs DEF StackInv
<1>4. ASSUME NEW n \in Node, EnterChild(n) PROVE StackInv'
  <2>1. /\ Len(frames') = Len(frames) + 1 /\ Len(frames) >= 1
        /\ \A i \in 1..(Len(frames) - 1) : frames'[i] = frames[i]
        /\ frames'[Len(frames)].node = Top.node
        /\ frames'[Len(frames) + 1].node = n
    BY <1>4, EnterIs
  <2>2. \A i \in 1..Len(frames) : frames[i].node # n
    BY <1>4, StackTypes, LenProperties DEF EnterChild, OnStack, TypeOK
  <2>3. \A i \in 1..Len(frames) : frames'[i].node = frames[i].node
    BY <1>1, <2>1 DEF Top
  <2>4. QED BY <1>1, <2>1, <2>2, <2>3 DEF StackInv
<1>5. ASSUME NEW g \in Group, EnterGroup(g) PROVE StackInv'
  <2>1. /\ Len(frames') = Len(frames) /\ Len(frames) >= 1
        /\ \A i \in 1..(Len(frames) - 1) : frames'[i] = frames[i]
        /\ frames'[Len(frames)].node = Top.node
    BY <1>5, GroupIs
  <2>2. \A i \in 1..Len(frames) : frames'[i].node = frames[i].node
    BY <1>1, <2>1 DEF Top
  <2>3. QED BY <2>1, <2>2 DEF StackInv
<1>6. CASE NodeExhausted \/ MemberExhausted
  BY <1>2, <1>3, <1>6 DEF NodeExhausted, MemberExhausted, NodeFails
<1>7. CASE WalkError \/ (\E c \in Candidate : SkipCandidate(c) \/ Admit(c))
  BY <1>2, <1>7 DEF WalkError, SkipCandidate, Admit
<1>8. CASE Attempt
  BY <1>2, <1>8 DEF Attempt, AcquireCredential, CredentialUnavailable, BorrowFails,
     DispatchRefused, PrepareFails, Prepare, Dispatch, TransportError, TransportGivesUp,
     ReplayWithKey, ErrorAnswer, ContinuityReset, ReplayAnswer, RefreshCredential, AnswerFails,
     Accepted, Commit, RenderDone, RenderFails
<1>9. CASE (\E how \in {"cancelled", "deadline"} : Interrupt(how)) \/ Tick \/ UNCHANGED vars
  BY <1>2, <1>9 DEF Interrupt, Tick
<1>10. QED BY <1>4, <1>5, <1>6, <1>7, <1>8, <1>9 DEF Next, Walk

\* A public model is never executed inside itself, however its models refer to
\* each other (the path of executeNode).
THEOREM PathCorrect == Spec => []StackInv
<1>1. Init => StackInv
  BY DEF Init, StackInv
<1>2. IInv /\ StackInv /\ [Next]_vars => StackInv'
  BY StackStep DEF IInv
<1>3. QED BY <1>1, <1>2, ExecutionInvariant, PTL DEF Spec

(***************************************************************************)
(* The position of the call, in a well-founded order.                      *)
(***************************************************************************)
Depth == Cardinality(Node)

\* What a frame has left; a frame that is not there is over.
FramePosition(d) == IF d <= Len(frames) THEN Cardinality(frames[d].left) + 1 ELSE 0

\* What the current member has left, and whether a candidate is being tried.
MemberPosition ==
  CASE pc = "node" -> 0
    [] pc = "candidate" -> 2 * Cardinality(routes) + 1
    [] OTHER -> 2 * Cardinality(routes) + 2

\* How far the current dispatch has come.
DispatchPosition ==
  CASE pc = "credential" -> 5
    [] pc = "prepare" -> 4
    [] pc = "dispatch" -> 3
    [] pc = "await" -> 2
    [] pc = "render" /\ committed -> 0
    [] OTHER -> 1

Position ==
  [d \in 1..(Depth + 4) |->
     CASE d = 1 -> IF pc = "returned" THEN 0 ELSE 1
       [] d \in 2..(Depth + 1) -> FramePosition(d - 1)
       [] d = Depth + 2 -> MemberPosition
       [] d = Depth + 3 -> IF Continued THEN 0 ELSE 1
       [] OTHER -> DispatchPosition]

Less == {p \in Nat \X Nat : p[1] < p[2]}

\* Positions are compared from the outermost model inwards.
Later == LexProductOrdering(Less, Nat, Depth + 4)

\* There are finitely many models.
LEMMA DepthIs == Depth \in Nat
BY FiniteAssumption, FS_CardinalityType DEF Depth

\* Positions in a finite configuration cannot be passed for ever (the walk of
\* executeNode has no infinite descent).
THEOREM PositionsWellFounded == IsWellFoundedOn(Later, [1..(Depth + 4) -> Nat])
<1>1. IsWellFoundedOn(Less, Nat)
  <2>1. Less = OpToRel(<, Nat) BY DEF Less, OpToRel
  <2>2. QED BY <2>1, NatLessThanWellFounded
<1>2. Depth + 4 \in Nat BY DepthIs
<1>3. QED BY <1>1, <1>2, WFLexProductOrdering DEF Later

\* A position is a tuple of natural numbers.
LEMMA PositionType ==
  ASSUME TypeOK
  PROVE  /\ \A d \in Nat : FramePosition(d) \in Nat \/ d = 0
         /\ MemberPosition \in Nat /\ DispatchPosition \in Nat
         /\ Position \in [1..(Depth + 4) -> Nat]
<1>1. ASSUME NEW d \in Nat, d # 0 PROVE FramePosition(d) \in Nat
  <2>1. CASE d <= Len(frames)
    <3>1. frames[d].left \subseteq Node \cup Group BY <1>1, <2>1, StackTypes
    <3>2. QED BY <2>1, <3>1, LeftFinite DEF FramePosition
  <2>2. QED BY <1>1, <2>1 DEF FramePosition
<1>2. MemberPosition \in Nat /\ DispatchPosition \in Nat
  <2>1. Cardinality(routes) \in Nat
    BY FiniteAssumption, FS_Subset, FS_CardinalityType DEF TypeOK
  <2>2. QED BY <2>1 DEF MemberPosition, DispatchPosition
<1>3. ASSUME NEW d \in 1..(Depth + 4) PROVE Position[d] \in Nat
  <2>1. d \in 2..(Depth + 1) => d - 1 \in Nat /\ d - 1 # 0 BY <1>3, DepthIs
  <2>2. Position[d] = CASE d = 1 -> IF pc = "returned" THEN 0 ELSE 1
       [] d \in 2..(Depth + 1) -> FramePosition(d - 1)
       [] d = Depth + 2 -> MemberPosition
       [] d = Depth + 3 -> IF Continued THEN 0 ELSE 1
       [] OTHER -> DispatchPosition
    BY DEF Position
  <2>3. QED BY <1>1, <1>2, <2>1, <2>2
<1>4. Position \in [1..(Depth + 4) -> Nat]
  <2>1. Position = [d \in 1..(Depth + 4) |-> Position[d]] BY DEF Position
  <2>2. QED BY <1>3, <2>1
<1>5. QED BY <1>1, <1>2, <1>4

\* The entries of a position.
Entries ==
  /\ Position[1] = IF pc = "returned" THEN 0 ELSE 1
  /\ \A d \in 1..Depth : Position[d + 1] = FramePosition(d)
  /\ Position[Depth + 2] = MemberPosition
  /\ Position[Depth + 3] = IF Continued THEN 0 ELSE 1
  /\ Position[Depth + 4] = DispatchPosition

\* Each entry of the position, before a step ...
LEMMA PositionIs == Entries
<1> USE DepthIs
<1>1. Position[1] = IF pc = "returned" THEN 0 ELSE 1
  BY DEF Position
<1>2. ASSUME NEW d \in 1..Depth PROVE Position[d + 1] = FramePosition(d)
  <2>1. d + 1 \in 2..(Depth + 1) /\ d + 1 # 1 /\ d + 1 \in 1..(Depth + 4) /\ (d + 1) - 1 = d
    OBVIOUS
  <2>2. QED BY <2>1 DEF Position
<1>3. Position[Depth + 2] = MemberPosition
  BY DEF Position
<1>4. Position[Depth + 3] = IF Continued THEN 0 ELSE 1
  BY DEF Position
<1>5. Position[Depth + 4] = DispatchPosition
  BY DEF Position
<1> QED BY <1>1, <1>2, <1>3, <1>4, <1>5 DEF Entries

\* ... and after it.
LEMMA PositionWillBe == Entries'
BY PositionIs, PTL

PositionOK == Position \in [1..(Depth + 4) -> Nat]

\* The number of models does not change.
LEMMA DepthStays == Depth' = Depth
BY DEF Depth

\* A position is later when it is lower in the first entry that differs.
LEMMA LaterAt ==
  ASSUME PositionOK, PositionOK', NEW j \in 1..(Depth + 4), Position'[j] < Position[j],
         \A i \in 1..(j - 1) : Position'[i] = Position[i]
  PROVE  <<Position', Position>> \in Later
<1>1. /\ Position \in [1..(Depth + 4) -> Nat]
      /\ Position' \in [1..(Depth + 4) -> Nat]
  BY DepthStays DEF PositionOK
<1>2. <<Position'[j], Position[j]>> \in Less BY <1>1 DEF Less
<1>3. QED BY <1>1, <1>2 DEF Later, LexProductOrdering

\* Execute returns.
LEMMA AtReturn ==
  ASSUME PositionOK, PositionOK', pc # "returned", pc' = "returned"
  PROVE  <<Position', Position>> \in Later
<1>1. Position[1] = 1 /\ Position'[1] = 0
  BY PositionIs, PositionWillBe, DepthStays DEF Entries
<1>2. 1 \in 1..(Depth + 4) BY DepthIs
<1>3. QED BY <1>1, <1>2, LaterAt

\* One of the executeNode calls on the stack gives up a member or ends.
LEMMA AtFrame ==
  ASSUME PositionOK, PositionOK', pc # "returned", pc' # "returned", NEW d \in 1..Depth,
         FramePosition(d)' < FramePosition(d),
         \A i \in 1..(d - 1) : FramePosition(i)' = FramePosition(i)
  PROVE  <<Position', Position>> \in Later
<1> USE DepthIs
<1>1. d + 1 \in 1..(Depth + 4) OBVIOUS
<1>2. Position'[d + 1] = FramePosition(d)' /\ Position[d + 1] = FramePosition(d)
  BY PositionIs, PositionWillBe, DepthStays DEF Entries
<1>3. ASSUME NEW i \in 1..d PROVE Position'[i] = Position[i]
  <2>1. CASE i = 1 BY <2>1, PositionIs, PositionWillBe, DepthStays DEF Entries
  <2>2. CASE i # 1
    <3>1. i - 1 \in 1..(d - 1) /\ i - 1 \in 1..Depth /\ (i - 1) + 1 = i BY <2>2
    <3>2. Position'[(i - 1) + 1] = FramePosition(i - 1)' /\ Position[(i - 1) + 1] = FramePosition(i - 1)
      BY <3>1, PositionIs, PositionWillBe, DepthStays DEF Entries
    <3>3. QED BY <3>1, <3>2
  <2>3. QED BY <2>1, <2>2
<1>4. QED BY <1>1, <1>2, <1>3, LaterAt

\* The entries before the member while the walk stays where it is.
LEMMA SameWalk ==
  ASSUME UNCHANGED frames, pc # "returned", pc' # "returned", NEW i \in 1..(Depth + 1)
  PROVE  Position'[i] = Position[i]
<1> USE DepthIs
<1>1. CASE i = 1 BY <1>1, PositionIs, PositionWillBe, DepthStays DEF Entries
<1>2. CASE i # 1
  <2>1. i - 1 \in 1..Depth /\ (i - 1) + 1 = i BY <1>2
  <2>2. Position'[(i - 1) + 1] = FramePosition(i - 1)' /\ Position[(i - 1) + 1] = FramePosition(i - 1)
    BY <2>1, PositionIs, PositionWillBe, DepthStays DEF Entries
  <2>3. FramePosition(i - 1)' = FramePosition(i - 1) BY DEF FramePosition
  <2>4. QED BY <2>1, <2>2, <2>3
<1>3. QED BY <1>1, <1>2

\* The member under way gives up a candidate or ends.
LEMMA AtMember ==
  ASSUME PositionOK, PositionOK', UNCHANGED frames, pc # "returned", pc' # "returned",
         MemberPosition' < MemberPosition
  PROVE  <<Position', Position>> \in Later
<1> USE DepthIs
<1>1. Depth + 2 \in 1..(Depth + 4) /\ (Depth + 2) - 1 = Depth + 1 OBVIOUS
<1>2. Position'[Depth + 2] = MemberPosition' /\ Position[Depth + 2] = MemberPosition
  BY PositionIs, PositionWillBe, DepthStays DEF Entries
<1>3. \A i \in 1..((Depth + 2) - 1) : Position'[i] = Position[i] BY <1>1, SameWalk
<1>4. QED BY <1>1, <1>2, <1>3, LaterAt

\* The attempt under way uses its continuation.
LEMMA AtContinuation ==
  ASSUME PositionOK, PositionOK', UNCHANGED frames, pc # "returned", pc' # "returned",
         MemberPosition' = MemberPosition, ~Continued, Continued'
  PROVE  <<Position', Position>> \in Later
<1> USE DepthIs
<1>1. Depth + 3 \in 1..(Depth + 4) /\ (Depth + 3) - 1 = Depth + 2 OBVIOUS
<1>2. Position'[Depth + 3] = 0 /\ Position[Depth + 3] = 1
  BY PositionIs, PositionWillBe, DepthStays DEF Entries
<1>3. Position'[Depth + 2] = MemberPosition' /\ Position[Depth + 2] = MemberPosition
  BY PositionIs, PositionWillBe, DepthStays DEF Entries
<1>4. \A i \in 1..(Depth + 1) : Position'[i] = Position[i] BY SameWalk
<1>5. \A i \in 1..((Depth + 3) - 1) : Position'[i] = Position[i] BY <1>1, <1>3, <1>4
<1>6. QED BY <1>1, <1>2, <1>5, LaterAt

\* The attempt under way goes on.
LEMMA AtDispatch ==
  ASSUME PositionOK, PositionOK', UNCHANGED frames, pc # "returned", pc' # "returned",
         MemberPosition' = MemberPosition, Continued' = Continued,
         DispatchPosition' < DispatchPosition
  PROVE  <<Position', Position>> \in Later
<1> USE DepthIs
<1>1. Depth + 4 \in 1..(Depth + 4) /\ (Depth + 4) - 1 = Depth + 3 OBVIOUS
<1>2. Position'[Depth + 4] = DispatchPosition' /\ Position[Depth + 4] = DispatchPosition
  BY PositionIs, PositionWillBe, DepthStays DEF Entries
<1>3. /\ Position'[Depth + 2] = MemberPosition' /\ Position[Depth + 2] = MemberPosition
      /\ Position'[Depth + 3] = Position[Depth + 3]
  BY PositionIs, PositionWillBe, DepthStays DEF Entries
<1>4. \A i \in 1..(Depth + 1) : Position'[i] = Position[i] BY SameWalk
<1>5. \A i \in 1..((Depth + 4) - 1) : Position'[i] = Position[i] BY <1>1, <1>3, <1>4
<1>6. QED BY <1>1, <1>2, <1>5, LaterAt

\* The sets a call works off get smaller.
LEMMA Smaller ==
  ASSUME NEW S, IsFiniteSet(S), NEW x \in S
  PROVE  Cardinality(S \ {x}) < Cardinality(S) /\ Cardinality(S) \in Nat
<1>1. Cardinality(S \ {x}) = Cardinality(S) - 1 BY FS_RemoveElement
<1>2. Cardinality(S) \in Nat BY FS_CardinalityType
<1>3. QED BY <1>1, <1>2

\* The innermost executeNode call ends.
LEMMA PoppedLater ==
  ASSUME TypeOK, StackInv, PositionOK, PositionOK', pc # "returned", pc' # "returned",
         Len(frames) >= 1, frames' = Pop
  PROVE  <<Position', Position>> \in Later
<1>1. Len(frames) \in Nat /\ Len(frames) <= Depth BY StackBounded, StackTypes DEF Depth
<1>2. PICK d \in 1..Depth : d = Len(frames) BY <1>1, DepthIs
<1>3. Len(frames') = d - 1 /\ \A i \in 1..(d - 1) : frames'[i] = frames[i]
  BY <1>2, PopIs
<1>4. Cardinality(frames[d].left) \in Nat
  BY <1>2, StackTypes, LeftFinite
<1>5. FramePosition(d)' < FramePosition(d)
  BY <1>2, <1>3, <1>4, DepthIs DEF FramePosition
<1>6. \A i \in 1..(d - 1) : FramePosition(i)' = FramePosition(i)
  BY <1>2, <1>3, DepthIs DEF FramePosition
<1>7. QED BY <1>5, <1>6, AtFrame

\* The innermost executeNode call gives up a member.
LEMMA NarrowedLater ==
  ASSUME TypeOK, StackInv, PositionOK, PositionOK', pc # "returned", pc' # "returned",
         Len(frames) >= 1, NEW m \in Top.left, Len(frames') >= Len(frames),
         frames'[Len(frames)].left = Top.left \ {m},
         \A i \in 1..(Len(frames) - 1) : frames'[i] = frames[i]
  PROVE  <<Position', Position>> \in Later
<1>1. Len(frames) \in Nat /\ Len(frames) <= Depth BY StackBounded, StackTypes DEF Depth
<1>2. PICK d \in 1..Depth : d = Len(frames) BY <1>1, DepthIs
<1>3. IsFiniteSet(frames[d].left) /\ m \in frames[d].left
  BY <1>2, StackTypes, LeftFinite DEF Top
<1>4. frames'[d].left = frames[d].left \ {m} BY <1>2 DEF Top
<1>5. Cardinality(frames'[d].left) < Cardinality(frames[d].left)
  BY <1>3, <1>4, Smaller
<1>6. Cardinality(frames[d].left) \in Nat /\ Cardinality(frames'[d].left) \in Nat
  <2>1. frames[d].left \subseteq Node \cup Group BY <1>2, StackTypes
  <2>2. frames'[d].left \subseteq Node \cup Group BY <1>4, <2>1
  <2>3. QED BY <2>1, <2>2, LeftFinite
<1>7. d <= Len(frames) /\ d <= Len(frames') BY <1>2
<1>8. FramePosition(d)' = Cardinality(frames'[d].left) + 1
      /\ FramePosition(d) = Cardinality(frames[d].left) + 1
  BY <1>7 DEF FramePosition
<1>9. FramePosition(d)' < FramePosition(d)
  BY <1>5, <1>6, <1>8
<1>10. \A i \in 1..(d - 1) : FramePosition(i)' = FramePosition(i)
  <2>1. SUFFICES ASSUME NEW i \in 1..(d - 1) PROVE FramePosition(i)' = FramePosition(i)
    OBVIOUS
  <2>2. i <= Len(frames) /\ i <= Len(frames') /\ frames'[i] = frames[i]
    BY <1>2, <1>7, <1>1 DEF Depth
  <2>3. QED BY <2>2 DEF FramePosition
<1>11. QED BY <1>9, <1>10, AtFrame

\* A member has finitely many candidates left.
LEMMA RoutesFinite ==
  ASSUME TypeOK
  PROVE  IsFiniteSet(routes) /\ Cardinality(routes) \in Nat
BY FiniteAssumption, FS_Subset, FS_CardinalityType DEF TypeOK

\* The walk moves on.
LEMMA WalkAdvances ==
  ASSUME TypeOK, RunInv, StackInv, PositionOK, PositionOK', Walk
  PROVE  <<Position', Position>> \in Later
<1> USE DEF Return
<1>1. ASSUME NodeFails, pc \in {"node", "candidate"} PROVE <<Position', Position>> \in Later
  <2>1. Len(frames) >= 1 /\ frames' = Pop BY <1>1 DEF NodeFails, RunInv
  <2>2. CASE pc' = "returned" BY <1>1, <2>2, AtReturn
  <2>3. CASE pc' # "returned" BY <1>1, <2>1, <2>3, PoppedLater
  <2>4. QED BY <2>2, <2>3
<1>2. CASE NodeExhausted BY <1>1, <1>2 DEF NodeExhausted
<1>3. ASSUME NEW n \in Node, EnterChild(n) PROVE <<Position', Position>> \in Later
  <2>1. pc = "node" /\ pc' = "node" BY <1>3 DEF EnterChild
  <2>2. Len(frames) \in Nat BY StackTypes
  <2>3. QED BY <1>3, <2>1, <2>2, EnterIs, NarrowedLater
<1>4. ASSUME NEW g \in Group, EnterGroup(g) PROVE <<Position', Position>> \in Later
  <2>1. pc = "node" /\ pc' = "candidate" BY <1>4 DEF EnterGroup
  <2>2. QED BY <1>4, <2>1, GroupIs, NarrowedLater
<1>5. CASE WalkError
  <2>1. pc # "returned" /\ pc' = "returned" BY <1>5 DEF WalkError
  <2>2. QED BY <2>1, AtReturn
<1>6. CASE MemberExhausted
  <2>1. CASE NodeFails BY <1>1, <1>6, <2>1 DEF MemberExhausted
  <2>2. CASE ~NodeFails
    <3>1. pc = "candidate" /\ pc' = "node" /\ UNCHANGED frames
      BY <1>6, <2>2 DEF MemberExhausted, walkVars
    <3>2. MemberPosition' < MemberPosition BY <3>1, RoutesFinite DEF MemberPosition
    <3>3. QED BY <3>1, <3>2, AtMember
  <2>3. QED BY <2>1, <2>2
<1>7. ASSUME NEW c \in Candidate, SkipCandidate(c) PROVE <<Position', Position>> \in Later
  <2>1. pc = "candidate" /\ pc' = "candidate" /\ UNCHANGED frames /\ c \in routes /\ routes' = routes \ {c}
    BY <1>7 DEF SkipCandidate
  <2>2. Cardinality(routes') = Cardinality(routes) - 1 /\ Cardinality(routes) \in Nat
    BY <2>1, RoutesFinite, FS_RemoveElement
  <2>3. MemberPosition' < MemberPosition BY <2>1, <2>2 DEF MemberPosition
  <2>4. QED BY <2>1, <2>3, AtMember
<1>8. ASSUME NEW c \in Candidate, Admit(c) PROVE <<Position', Position>> \in Later
  <2>1. pc = "candidate" /\ pc' = "credential" /\ UNCHANGED frames /\ c \in routes /\ routes' = routes \ {c}
    BY <1>8 DEF Admit
  <2>2. Cardinality(routes') = Cardinality(routes) - 1 /\ Cardinality(routes) \in Nat
    BY <2>1, RoutesFinite, FS_RemoveElement
  <2>3. MemberPosition' < MemberPosition BY <2>1, <2>2 DEF MemberPosition
  <2>4. QED BY <2>1, <2>3, AtMember
<1>9. QED BY <1>2, <1>3, <1>4, <1>5, <1>6, <1>7, <1>8 DEF Walk

\* The life of an attempt moves on.
LEMMA AttemptAdvances ==
  ASSUME TypeOK, RunInv, CountInv, PositionOK, PositionOK', Attempt
  PROVE  <<Position', Position>> \in Later
<1> USE DEF walkVars, attemptVars, Return, TryNext
<1>1. pc \notin {"node", "candidate", "returned"} /\ UNCHANGED <<frames, routes>>
  BY DEF Attempt, AcquireCredential, CredentialUnavailable, BorrowFails,
     DispatchRefused, PrepareFails, Prepare, Dispatch, TransportError, TransportGivesUp,
     ReplayWithKey, ErrorAnswer, ContinuityReset, ReplayAnswer, RefreshCredential, AnswerFails,
     Accepted, Commit, RenderDone, RenderFails
<1>2. CASE pc' = "returned" BY <1>1, <1>2, AtReturn
<1>3. CASE pc' = "candidate"
  <2>1. MemberPosition' < MemberPosition BY <1>1, <1>3, RoutesFinite DEF MemberPosition
  <2>2. QED BY <1>1, <1>3, <2>1, AtMember
<1>4. ASSUME pc' \notin {"node", "candidate", "returned"} PROVE MemberPosition' = MemberPosition
  BY <1>1, <1>4 DEF MemberPosition
<1>5. ASSUME pc' = "prepare", ~Continued, Continued' PROVE <<Position', Position>> \in Later
  BY <1>1, <1>4, <1>5, AtContinuation
<1>6. ASSUME pc' \notin {"node", "candidate", "returned"}, Continued' = Continued,
             DispatchPosition' < DispatchPosition
      PROVE  <<Position', Position>> \in Later
  BY <1>1, <1>4, <1>6, AtDispatch
<1>7. ASSUME KeyedReplay, ReplayWithKey, pc \in Sent PROVE <<Position', Position>> \in Later
  <2>1. ~Continued BY <1>7 DEF KeyedReplay, CountInv, Continued, Sent, Holding
  <2>2. pc' = "prepare" /\ Continued' BY <1>7 DEF ReplayWithKey, Continued
  <2>3. QED BY <1>5, <2>1, <2>2
<1>8. CASE AcquireCredential \/ Prepare \/ Dispatch
  BY <1>6, <1>8 DEF AcquireCredential, Prepare, Dispatch, Continued, DispatchPosition
<1>9. CASE CredentialUnavailable \/ BorrowFails \/ DispatchRefused \/ PrepareFails
  BY <1>2, <1>3, <1>9 DEF CredentialUnavailable, BorrowFails, DispatchRefused, PrepareFails
<1>10. CASE TransportError
  <2>1. CASE ReplayWithKey /\ KeyedReplay BY <1>7, <1>10, <2>1 DEF TransportError, Sent
  <2>2. CASE ~(ReplayWithKey /\ KeyedReplay)
    BY <1>2, <1>10, <2>2 DEF TransportError, TransportGivesUp
  <2>3. QED BY <2>1, <2>2
<1>11. CASE (\E a \in Answer : ErrorAnswer(a)) \/ Accepted \/ Commit
  BY <1>6, <1>11 DEF ErrorAnswer, Accepted, Commit, Continued, DispatchPosition
<1>12. CASE ContinuityReset \/ RenderDone \/ (\E origin \in Origin : RenderFails(origin))
  BY <1>2, <1>12 DEF ContinuityReset, RenderDone, RenderFails
<1>13. CASE ReplayAnswer
  BY <1>7, <1>13 DEF ReplayAnswer, RetryAnswer, Sent
<1>14. CASE RefreshCredential
  <2>1. ~refreshed /\ ~retried
    BY <1>14 DEF RefreshCredential, CanRefresh, CanReplayAfterDispatch, KeyedReplay, RunInv
  <2>2. pc' = "prepare" /\ refreshed' BY <1>14 DEF RefreshCredential
  <2>3. QED BY <1>5, <2>1, <2>2 DEF Continued
<1>15. CASE AnswerFails
  BY <1>2, <1>3, <1>15 DEF AnswerFails
<1>16. QED
  BY <1>8, <1>9, <1>10, <1>11, <1>12, <1>13, <1>14, <1>15 DEF Attempt

\* The environment moves nothing.
LEMMA Waits ==
  ASSUME (\E how \in {"cancelled", "deadline"} : Interrupt(how)) \/ Tick \/ UNCHANGED vars
  PROVE  Position' = Position
<1>1. UNCHANGED <<pc, frames, routes, retried, refreshed, committed>>
  BY DEF Interrupt, Tick, vars, walkVars, attemptVars, resourceVars, envVars, historyVars
<1>2. QED
  BY <1>1, DepthStays
  DEF Position, FramePosition, MemberPosition, DispatchPosition, Continued

\* Each step of the call moves its position down, and nothing that the client,
\* the deadline or the clock do moves it up again.
Advances ==
  IF Walk \/ Attempt THEN <<Position', Position>> \in Later ELSE Position' = Position

\* The safety half of termination (executeNode): whatever its environment does,
\* the call cannot take a step twice from the same position, nor go back to one.
THEOREM EveryStepAdvances == Spec => [][Advances]_vars
<1>1. TypeOK => PositionOK
  BY PositionType DEF PositionOK
<1>2. (TypeOK => PositionOK)'
  BY <1>1, PTL
<1>3. IInv /\ IInv' /\ StackInv /\ CountInv /\ [Next]_vars => [Advances]_vars
  <2>1. SUFFICES ASSUME IInv, IInv', StackInv, CountInv, Next PROVE Advances
    BY DEF vars
  <2>2. PositionOK /\ PositionOK' BY <1>1, <1>2, <2>1 DEF IInv
  <2>3. CASE Walk \/ Attempt
    BY <2>1, <2>2, <2>3, WalkAdvances, AttemptAdvances DEF IInv, Advances
  <2>4. CASE ~(Walk \/ Attempt)
    BY <2>1, <2>4, Waits DEF Next, Advances
  <2>5. QED BY <2>3, <2>4
<1>4. QED BY <1>3, ExecutionInvariant, PathCorrect, CountCorrect, PTL DEF Spec
====
