---------------------------- MODULE TaskContract ----------------------------
(***************************************************************************)
(* What the durable queue of zippy promises about one piece of work,       *)
(* leaving out workers, leases, batches, timers and crashes: a submitted   *)
(* task is tried at most MaxAttempts times, succeeds only after a try, is  *)
(* given up only when every try is spent, and once settled stays settled.  *)
(* DurableTasks.tla (order tasks) and EventOutbox.tla (outbox rows) are    *)
(* shown to implement this specification.                                  *)
(***************************************************************************)
EXTENDS Naturals

CONSTANTS Task,         \* the pieces of work
          MaxAttempts   \* the max_attempts column

VARIABLES phase,   \* [Task -> {"absent", "open", "succeeded", "dead_lettered"}]
          tries    \* [Task -> 0..MaxAttempts]

contractVars == <<phase, tries>>

ContractInit ==
    /\ phase = [t \in Task |-> "absent"]
    /\ tries = [t \in Task |-> 0]

Submit(t) ==
    /\ phase[t] = "absent"
    /\ phase' = [phase EXCEPT ![t] = "open"]
    /\ UNCHANGED tries

Settle(t) ==
    /\ phase[t] = "open"
    /\ tries[t] > 0
    /\ \/ phase' = [phase EXCEPT ![t] = "succeeded"]
       \/ /\ tries[t] = MaxAttempts
          /\ phase' = [phase EXCEPT ![t] = "dead_lettered"]
    /\ UNCHANGED tries

\* One claim transaction starts a try of every task of the batch S at once.
Try(S) ==
    /\ \A t \in S : phase[t] = "open" /\ tries[t] < MaxAttempts
    /\ tries' = [t \in Task |-> IF t \in S THEN tries[t] + 1 ELSE tries[t]]
    /\ UNCHANGED phase

ContractNext ==
    \/ \E t \in Task : Submit(t) \/ Settle(t)
    \/ \E S \in SUBSET Task : Try(S)

ContractSpec == ContractInit /\ [][ContractNext]_contractVars

=============================================================================
