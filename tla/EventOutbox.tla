----------------------------- MODULE EventOutbox ----------------------------
(***************************************************************************)
(* The event_outbox table and CoreWorker.publish_outbox: the life of a row *)
(* is that of a durable task (claim_outbox_events, complete_outbox_event   *)
(* and fail_outbox_event of migration 0005 have the conditions of their    *)
(* counterparts), and its handler hands the event to a transport.  A Task  *)
(* is an outbox event here.  A transport that raises may or may not have   *)
(* delivered the event before.                                             *)
(***************************************************************************)
EXTENDS DurableTasks

VARIABLE delivered   \* deliveries per event

outboxVars == <<vars, delivered>>

OutboxInit == Init /\ delivered = [t \in Task |-> 0]

record_event(t) == Enqueue(t) /\ UNCHANGED delivered

claim_outbox_events(w, S) == RunTasks(w, S) /\ UNCHANGED delivered

\* Mutant: the row is completed on the promise of a delivery.
DeliverLater(w, t) == CallHandler(w, t) /\ UNCHANGED delivered

deliver(w, t) ==
    /\ CallHandler(w, t)
    /\ \/ delivered' = [delivered EXCEPT ![t] = @ + 1]
       \/ pc'[w] = "raised" /\ UNCHANGED delivered

complete_outbox_event(w) == Complete(w) /\ UNCHANGED delivered

\* The row, the dead letter and the exception OUTBOX_DELIVERY_TERMINAL.
fail_outbox_event(w) == Fail(w) /\ UNCHANGED delivered

PublisherDies(w) == Crash(w) /\ UNCHANGED delivered

TimePasses(t) == (LeaseLapses(t) \/ BackoffElapses(t)) /\ UNCHANGED delivered

OutboxNext ==
    \/ \E t \in Task : record_event(t) \/ TimePasses(t)
    \/ \E w \in Worker :
          \/ \E S \in SUBSET Task : claim_outbox_events(w, S)
          \/ \E t \in Task : deliver(w, t)
          \/ complete_outbox_event(w)
          \/ fail_outbox_event(w)
          \/ PublisherDies(w)

OutboxSpec == OutboxInit /\ [][OutboxNext]_outboxVars

\* The same process runs publish_outbox and run_tasks, in turn.
FairOutboxSpec == OutboxSpec /\ Fairness

----------------------------------------------------------------------------

\* At-least-once delivery with a bound: an event counts as published only after
\* a delivery, and no event reaches the transport more often than it may be
\* attempted, whatever publishers die, lapse or fail after the fact.
AtLeastOnce ==
    \A t \in Task : /\ status[t] = "succeeded" => delivered[t] > 0
                    /\ delivered[t] <= MaxAttempts

=============================================================================
