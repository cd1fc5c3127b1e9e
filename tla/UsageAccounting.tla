---- MODULE UsageAccounting ----
(***************************************************************************)
(* Usage events (kernel/usage_attempt.go, EmitUsage and Close of           *)
(* kernel/kernel.go, usage/worker.go): every dispatched attempt reports    *)
(* one event to a bounded queue, and one consumer persists it until the    *)
(* queue is closed and empty.                                              *)
(*                                                                         *)
(* An event is the request whose attempt reports it; the contents, with    *)
(* their limits and enrichment, are left out. An event is settled when it  *)
(* is in one of the counters of usage.Status (persisted, failed, abandoned *)
(* or dropped), and refused when the kernel is closed, which no counter    *)
(* shows.                                                                  *)
(***************************************************************************)
EXTENDS Integers, Sequences

CONSTANTS Attempt, Buffer

ASSUME UsageAssumption == Buffer \in Nat \ {0}

VARIABLES
  attempt,     \* [Attempt -> "none", "open", "final", or "over" after a restart]
  closed,      \* the kernel
  events,      \* the queue
  hand,        \* the event the consumer is saving, if any
  consumer,    \* the goroutine of Worker.Run
  persisting,  \* the consumer's context: "live" or "cancelled"
  tally        \* [Attempt -> what its events were counted as]

usageVars == <<attempt, closed, events, hand, consumer, persisting, tally>>

Fates == {"settled", "refused"}

Count(a, fate) == tally' = [tally EXCEPT ![a] = Append(@, fate)]

\* newUsageAttempt, when the request is dispatched.
Open(a) ==
  /\ attempt[a] = "none"
  /\ attempt' = [attempt EXCEPT ![a] = "open"]
  /\ UNCHANGED <<closed, events, hand, consumer, persisting, tally>>

\* Mutant: an attempt that was reported reports again.
ReportsAgain(a) == attempt[a] \in {"open", "final"}

\* finishLocked and EmitUsage; further calls for a final attempt, like the
\* deferred one, do nothing.
Reports(a) == attempt[a] = "open"

Finish(a) ==
  /\ Reports(a)
  /\ attempt' = [attempt EXCEPT ![a] = "final"]
  /\ IF ~closed /\ Len(events) < Buffer
     THEN events' = Append(events, a) /\ UNCHANGED tally
     ELSE Count(a, IF closed THEN "refused" ELSE "settled") /\ UNCHANGED events
  /\ UNCHANGED <<closed, hand, consumer, persisting>>

CloseEvents ==
  /\ closed' = TRUE
  /\ UNCHANGED <<attempt, events, hand, consumer, persisting, tally>>

(***************************************************************************)
(* Worker.Run.                                                             *)
(***************************************************************************)
Receive ==
  /\ consumer = "running" /\ hand = {} /\ events # <<>>
  /\ events' = Tail(events)
  /\ IF persisting = "cancelled"
     THEN Count(Head(events), "settled") /\ UNCHANGED hand
     ELSE hand' = {Head(events)} /\ UNCHANGED tally
  /\ UNCHANGED <<attempt, closed, consumer, persisting>>

\* The repository answers, in a cancelled context at the latest.
SaveUsageEvent ==
  \E a \in hand :
    /\ hand' = {}
    /\ Count(a, "settled")
    /\ UNCHANGED <<attempt, closed, events, consumer, persisting>>

ConsumerExits ==
  /\ consumer = "running" /\ hand = {} /\ closed /\ events = <<>>
  /\ consumer' = "exited"
  /\ UNCHANGED <<attempt, closed, events, hand, persisting, tally>>

CancelPersistence ==
  /\ persisting = "live"
  /\ persisting' = "cancelled"
  /\ UNCHANGED <<attempt, closed, events, hand, consumer, tally>>

\* A new process; attempts of the old one are gone.
NewAccounting ==
  /\ attempt' = [a \in Attempt |-> IF attempt[a] = "none" THEN "none" ELSE "over"]
  /\ tally' = [a \in Attempt |-> <<>>]
  /\ closed' = FALSE /\ events' = <<>> /\ hand' = {}
  /\ consumer' = "running" /\ persisting' = "live"

UsageInit ==
  /\ attempt = [a \in Attempt |-> "none"] /\ tally = [a \in Attempt |-> <<>>]
  /\ closed = FALSE /\ events = <<>> /\ hand = {}
  /\ consumer = "running" /\ persisting = "live"
====
