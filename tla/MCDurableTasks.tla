--------------------------- MODULE MCDurableTasks ---------------------------
(* Small instances of DurableTasks for TLC, with the deliveries of its twin, *)
(* the outbox, next to the rows.                                             *)
EXTENDS EventOutbox, TLC

=============================================================================
