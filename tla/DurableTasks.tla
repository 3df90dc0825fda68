---------------------------- MODULE DurableTasks ----------------------------
(***************************************************************************)
(* The durable_tasks table of zippy and the workers that drain it:         *)
(* claim_durable_tasks and fail_durable_task (migration 0005) and          *)
(* CoreWorker.run_tasks (api/worker.py).  FinanceWorker.run_tasks is the   *)
(* same loop over other task types.                                        *)
(*                                                                         *)
(* One action is one database transaction or one step of a worker between  *)
(* two transactions, so that leases may lapse, other workers may claim and *)
(* the process may die between any two of them.  Wall-clock time is        *)
(* abstracted to its two thresholds: a backoff that has elapsed (due) and  *)
(* a lease that has lapsed (lapsed).                                       *)
(***************************************************************************)
EXTENDS Naturals, FiniteSets

CONSTANTS Task,         \* durable_task_id values
          Worker,       \* worker_id values (lease_owner)
          None,         \* SQL NULL
          MaxAttempts,  \* the max_attempts column
          ClaimLimit,   \* requested_limit of a claim
          MaxCrashes    \* bound on worker deaths

ASSUME MaxAttemptsAssumption == MaxAttempts \in Nat \ {0}
ASSUME NoneAssumption == None \notin Task /\ None \notin Worker
ASSUME FiniteAssumption == IsFiniteSet(Task) /\ IsFiniteSet(Worker)
ASSUME BoundsAssumption == ClaimLimit \in Nat \ {0} /\ MaxCrashes \in Nat

VARIABLES
    status,         \* row: processing_status, "absent" before the INSERT
    attempt_count,  \* row: claims so far
    lease_owner,    \* row: holder of the lease, or None
    lapsed,         \* row: lease_expires_at <= clock_timestamp()
    due,            \* row: next_attempt_at <= clock_timestamp()
    dead_letters,   \* tasks with a dead_letter_records row
    exceptions,     \* number of TASK_TERMINAL_FAILURE rows per task
    todo,           \* worker: claimed tasks whose handler was not called yet
    current,        \* worker: the task of this loop iteration, or None
    pc,             \* worker: "idle", "loop", "handled" or "raised"
    runs,           \* history: handler calls per task
    crashes         \* number of worker deaths so far

rowVars    == <<status, attempt_count, lease_owner, lapsed, due>>
recordVars == <<dead_letters, exceptions>>
workerVars == <<todo, current, pc>>
vars == <<rowVars, recordVars, workerVars, runs, crashes>>

Status == {"absent", "pending", "processing", "failed", "succeeded", "dead_lettered"}
Settled == {"succeeded", "dead_lettered"}

TypeOK ==
    /\ status \in [Task -> Status]
    /\ attempt_count \in [Task -> 0..MaxAttempts]
    /\ lease_owner \in [Task -> Worker \cup {None}]
    /\ lapsed \in [Task -> BOOLEAN]
    /\ due \in [Task -> BOOLEAN]
    /\ dead_letters \in SUBSET Task
    /\ exceptions \in [Task -> Nat]
    /\ todo \in [Worker -> SUBSET Task]
    /\ current \in [Worker -> Task \cup {None}]
    /\ pc \in [Worker -> {"idle", "loop", "handled", "raised"}]
    /\ runs \in [Task -> Nat]
    /\ crashes \in Nat

Init ==
    /\ status = [t \in Task |-> "absent"]
    /\ attempt_count = [t \in Task |-> 0]
    /\ lease_owner = [t \in Task |-> None]
    /\ lapsed = [t \in Task |-> FALSE]
    /\ due = [t \in Task |-> TRUE]
    /\ dead_letters = {}
    /\ exceptions = [t \in Task |-> 0]
    /\ todo = [w \in Worker |-> {}]
    /\ current = [w \in Worker |-> None]
    /\ pc = [w \in Worker |-> "idle"]
    /\ runs = [t \in Task |-> 0]
    /\ crashes = 0

----------------------------------------------------------------------------
(* The database functions.                                                 *)

\* Rows are inserted by the transaction of the business operation.
Enqueue(t) ==
    /\ status[t] = "absent"
    /\ status' = [status EXCEPT ![t] = "pending"]
    /\ UNCHANGED <<attempt_count, lease_owner, lapsed, due, recordVars,
                   workerVars, runs, crashes>>

\* Mutants of Claimable: no attempt limit; no recovery of lapsed leases.
ClaimableWithoutLimit(t) ==
    due[t] /\ (status[t] \in {"pending", "failed"} \/ (status[t] = "processing" /\ lapsed[t]))
ClaimableNeverStale(t) ==
    attempt_count[t] < MaxAttempts /\ due[t] /\ status[t] \in {"pending", "failed"}
Claimable(t) ==
    /\ attempt_count[t] < MaxAttempts
    /\ due[t]
    /\ \/ status[t] \in {"pending", "failed"}
       \/ status[t] = "processing" /\ lapsed[t]

\* Mutant: the recovery of a stale lease is not counted as an attempt.
ClaimStaleForFree(w, S) ==
    /\ S # {} /\ Cardinality(S) <= ClaimLimit
    /\ \A t \in S : Claimable(t)
    /\ status' = [t \in Task |-> IF t \in S THEN "processing" ELSE status[t]]
    /\ attempt_count' = [t \in Task |->
          IF t \in S /\ status[t] # "processing" THEN attempt_count[t] + 1 ELSE attempt_count[t]]
    /\ lease_owner' = [t \in Task |-> IF t \in S THEN w ELSE lease_owner[t]]
    /\ lapsed' = [t \in Task |-> IF t \in S THEN FALSE ELSE lapsed[t]]
    /\ UNCHANGED due

\* SKIP LOCKED leaves out the rows that a concurrent claim holds, so that any
\* part of the claimable rows may be returned.
claim_durable_tasks(w, S) ==
    /\ S # {} /\ Cardinality(S) <= ClaimLimit
    /\ \A t \in S : Claimable(t)
    /\ status' = [t \in Task |-> IF t \in S THEN "processing" ELSE status[t]]
    /\ attempt_count' = [t \in Task |-> IF t \in S THEN attempt_count[t] + 1
                                                   ELSE attempt_count[t]]
    /\ lease_owner' = [t \in Task |-> IF t \in S THEN w ELSE lease_owner[t]]
    /\ lapsed' = [t \in Task |-> IF t \in S THEN FALSE ELSE lapsed[t]]
    /\ UNCHANGED due

\* Mutant: the row is matched by its status alone.
OwnsAnyLease(w, t) == status[t] = "processing"

\* Both UPDATEs match the row by status and lease owner, not by lease expiry.
OwnsLease(w, t) == status[t] = "processing" /\ lease_owner[t] = w

\* What fail_durable_task does once it decided whether the failure is terminal.
RecordFailure(t, terminal) ==
    /\ status' = [status EXCEPT ![t] = IF terminal THEN "dead_lettered" ELSE "failed"]
    /\ due' = [due EXCEPT ![t] = FALSE]
    /\ lease_owner' = [lease_owner EXCEPT ![t] = None]
    /\ lapsed' = [lapsed EXCEPT ![t] = FALSE]
    /\ dead_letters' = IF terminal THEN dead_letters \cup {t} ELSE dead_letters
    /\ UNCHANGED attempt_count

\* Mutant: the limit is compared one attempt too early.
FailOneEarly(t) == RecordFailure(t, attempt_count[t] + 1 >= MaxAttempts)

fail_durable_task(t) == RecordFailure(t, attempt_count[t] >= MaxAttempts)

----------------------------------------------------------------------------
(* CoreWorker.run_tasks.                                                   *)

RunTasks(w, S) ==
    /\ pc[w] = "idle"
    /\ claim_durable_tasks(w, S)
    /\ todo' = [todo EXCEPT ![w] = S]
    /\ pc' = [pc EXCEPT ![w] = "loop"]
    /\ UNCHANGED <<current, recordVars, runs, crashes>>

\* handler(task): the lease is not looked at before the handler is called.
CallHandler(w, t) ==
    /\ pc[w] = "loop"
    /\ t \in todo[w]
    /\ todo' = [todo EXCEPT ![w] = @ \ {t}]
    /\ current' = [current EXCEPT ![w] = t]
    /\ runs' = [runs EXCEPT ![t] = @ + 1]
    /\ \E outcome \in {"handled", "raised"} : pc' = [pc EXCEPT ![w] = outcome]
    /\ UNCHANGED <<rowVars, recordVars, crashes>>

NextIteration(w) ==
    /\ current' = [current EXCEPT ![w] = None]
    /\ pc' = [pc EXCEPT ![w] = IF todo[w] = {} THEN "idle" ELSE "loop"]
    /\ UNCHANGED todo

\* The UPDATE to 'succeeded'; no row matched raises "task lease was lost",
\* which the same except clause turns into a failure of the task.
Complete(w) ==
    LET t == current[w]
    IN  /\ pc[w] = "handled"
        /\ \/ /\ OwnsLease(w, t)
              /\ status' = [status EXCEPT ![t] = "succeeded"]
              /\ lease_owner' = [lease_owner EXCEPT ![t] = None]
              /\ lapsed' = [lapsed EXCEPT ![t] = FALSE]
              /\ NextIteration(w)
              /\ UNCHANGED <<attempt_count, due>>
           \/ /\ ~OwnsLease(w, t)
              /\ pc' = [pc EXCEPT ![w] = "raised"]
              /\ UNCHANGED <<rowVars, todo, current>>
        /\ UNCHANGED <<recordVars, runs, crashes>>

\* The exception leaves run_tasks: the rest of the batch is dropped and its
\* rows keep the status and the lease they have.
Abandon(w) ==
    /\ todo' = [todo EXCEPT ![w] = {}]
    /\ current' = [current EXCEPT ![w] = None]
    /\ pc' = [pc EXCEPT ![w] = "idle"]

\* The except clause: fail_durable_task, which raises 42501 when the caller
\* no longer owns the lease, then the exception row of a terminal failure.
Fail(w) ==
    LET t == current[w]
    IN  /\ pc[w] = "raised"
        /\ \/ /\ OwnsLease(w, t)
              /\ fail_durable_task(t)
              /\ exceptions' = [exceptions EXCEPT ![t] =
                                  IF attempt_count[t] >= MaxAttempts THEN @ + 1 ELSE @]
              /\ NextIteration(w)
           \/ /\ ~OwnsLease(w, t)
              /\ Abandon(w)
              /\ UNCHANGED <<rowVars, recordVars>>
        /\ UNCHANGED <<runs, crashes>>

\* The process dies (or loses its database) between two transactions; a
\* supervisor starts it again under the same worker_id.
Crash(w) ==
    /\ pc[w] # "idle"
    /\ crashes < MaxCrashes
    /\ crashes' = crashes + 1
    /\ Abandon(w)
    /\ UNCHANGED <<rowVars, recordVars, runs>>

----------------------------------------------------------------------------
(* The clock.                                                              *)

LeaseLapses(t) ==
    /\ status[t] = "processing" /\ ~lapsed[t]
    /\ lapsed' = [lapsed EXCEPT ![t] = TRUE]
    /\ UNCHANGED <<status, attempt_count, lease_owner, due, recordVars,
                   workerVars, runs, crashes>>

BackoffElapses(t) ==
    /\ ~due[t]
    /\ due' = [due EXCEPT ![t] = TRUE]
    /\ UNCHANGED <<status, attempt_count, lease_owner, lapsed, recordVars,
                   workerVars, runs, crashes>>

----------------------------------------------------------------------------

WorkerStep(w) ==
    \/ \E t \in Task : CallHandler(w, t)
    \/ Complete(w)
    \/ Fail(w)

Next ==
    \/ \E t \in Task : Enqueue(t) \/ LeaseLapses(t) \/ BackoffElapses(t)
    \/ \E w \in Worker, S \in SUBSET Task : RunTasks(w, S)
    \/ \E w \in Worker : WorkerStep(w) \/ Crash(w)

Spec == Init /\ [][Next]_vars

\* Time passes, a live worker finishes the step it is in (handlers return or
\* raise), and the scheduler keeps calling run_tasks.  Crashes and new tasks
\* are not owed to anybody.
Fairness ==
    /\ \A t \in Task : WF_vars(LeaseLapses(t)) /\ WF_vars(BackoffElapses(t))
    /\ \A w \in Worker :
          /\ WF_vars(WorkerStep(w))
          /\ WF_vars(\E S \in SUBSET Task : RunTasks(w, S))

FairSpec == Spec /\ Fairness

----------------------------------------------------------------------------
(* Properties.                                                             *)

\* The workers that will still call the handler of t from a claim they made.
Holders(t) == {w \in Worker : t \in todo[w]}

\* "Durable-task claims now consume attempts, including stale processing-lease
\* recovery": every handler call, also one made by a worker whose lease lapsed
\* long ago, is paid for by a claim of its own, so that a task is handled at
\* most MaxAttempts times whatever crashes, lapses and batches happen.
HandlerRunsBounded ==
    \A t \in Task : /\ runs[t] + Cardinality(Holders(t)) <= attempt_count[t]
                    /\ attempt_count[t] <= MaxAttempts

\* What a worker between two steps holds: nothing when it is idle, a task whose
\* handler was called when it is about to report.  Part of the inductive
\* invariant of DurableTasksProofs.tla.
WorkerOK ==
    \A w \in Worker :
        /\ pc[w] = "idle" => todo[w] = {}
        /\ pc[w] \in {"handled", "raised"} => current[w] \in Task /\ runs[current[w]] > 0

\* A terminal failure always leaves its evidence (one dead-letter record and
\* exactly one operational exception, after the last attempt), and nothing
\* else leaves any: a task that succeeded was handled and has neither.
TerminalEvidence ==
    \A t \in Task :
        /\ t \in dead_letters <=> status[t] = "dead_lettered"
        /\ exceptions[t] = IF status[t] = "dead_lettered" THEN 1 ELSE 0
        /\ status[t] = "dead_lettered" => attempt_count[t] = MaxAttempts
        /\ status[t] = "succeeded" => runs[t] > 0

\* Only the worker that holds the lease settles or fails a row, and only in
\* the iteration that works on it: a worker whose lease was taken over cannot
\* change the row under the new holder.
FencedSettlement ==
    [][\A t \in Task :
          status[t] = "processing" /\ status'[t] # "processing"
            => \E w \in Worker : lease_owner[t] = w /\ current[w] = t /\ current'[w] # t]_vars

\* A settled row never moves again, whatever a late worker still reports.
SettledForever ==
    [][\A t \in Task : status[t] \in Settled =>
          status'[t] = status[t] /\ attempt_count'[t] = attempt_count[t]
            /\ exceptions'[t] = exceptions[t]]_vars

\* A claimed task with attempts left never stays where a dead, slow or aborted
\* worker left it: it is settled, failed or claimed again.
StaleLeaseRecovered ==
    \A t \in Task, n \in 1..(MaxAttempts - 1) :
        (status[t] = "processing" /\ attempt_count[t] = n)
            ~> ~(status[t] = "processing" /\ attempt_count[t] = n)

\* Every enqueued task is eventually settled, by success or by a dead letter
\* ("terminal failures persist dead-letter evidence and an operational
\* exception for human handling").
EverySettles == \A t \in Task : status[t] # "absent" ~> status[t] \in Settled

----------------------------------------------------------------------------
(* The queue implements the contract of TaskContract.tla.                  *)

phaseOf ==
    [t \in Task |-> IF status[t] \in {"pending", "processing", "failed"} THEN "open"
                                                                         ELSE status[t]]

Contract == INSTANCE TaskContract WITH phase <- phaseOf, tries <- attempt_count

\* Whatever the workers do, the rows behave as the contract says.
ImplementsContract == Contract!ContractSpec

=============================================================================
