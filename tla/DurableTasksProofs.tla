------------------------- MODULE DurableTasksProofs -------------------------
(***************************************************************************)
(* Theorems about the durable task queue and the event outbox, for every   *)
(* number of tasks, workers, attempts, crashes and every batch size.       *)
(***************************************************************************)
EXTENDS EventOutbox, FiniteSetTheorems, TLAPS

USE DEF rowVars, recordVars, workerVars, vars

----------------------------------------------------------------------------
(* Type correctness.                                                       *)

LEMMA ClaimType ==
    ASSUME TypeOK, NEW w \in Worker, NEW S \in SUBSET Task, claim_durable_tasks(w, S)
    PROVE  /\ status' \in [Task -> Status]
           /\ attempt_count' \in [Task -> 0..MaxAttempts]
           /\ lease_owner' \in [Task -> Worker \cup {None}]
           /\ lapsed' \in [Task -> BOOLEAN]
           /\ due' \in [Task -> BOOLEAN]
  <1>1. status' \in [Task -> Status]
    BY DEF TypeOK, claim_durable_tasks, Status
  <1>2. \A t \in S : attempt_count[t] + 1 \in 0..MaxAttempts
    BY MaxAttemptsAssumption DEF TypeOK, claim_durable_tasks, Claimable
  <1>3. attempt_count' \in [Task -> 0..MaxAttempts]
    BY <1>2 DEF TypeOK, claim_durable_tasks
  <1>4. lease_owner' \in [Task -> Worker \cup {None}]
    BY DEF TypeOK, claim_durable_tasks
  <1>5. lapsed' \in [Task -> BOOLEAN]
    BY DEF TypeOK, claim_durable_tasks
  <1>6. due' \in [Task -> BOOLEAN]
    BY DEF TypeOK, claim_durable_tasks
  <1> QED BY <1>1, <1>3, <1>4, <1>5, <1>6


LEMMA TypeStep == TypeOK /\ WorkerOK /\ [Next]_vars => TypeOK'
  <1> SUFFICES ASSUME TypeOK, WorkerOK, [Next]_vars PROVE TypeOK'
    OBVIOUS
  <1>1. ASSUME NEW t \in Task, Enqueue(t) PROVE TypeOK'
    BY <1>1 DEF TypeOK, Enqueue, Status
  <1>2. ASSUME NEW t \in Task, LeaseLapses(t) PROVE TypeOK'
    BY <1>2 DEF TypeOK, LeaseLapses
  <1>3. ASSUME NEW t \in Task, BackoffElapses(t) PROVE TypeOK'
    BY <1>3 DEF TypeOK, BackoffElapses
  <1>4. ASSUME NEW w \in Worker, NEW S \in SUBSET Task, RunTasks(w, S) PROVE TypeOK'
    <2>1. claim_durable_tasks(w, S)
      BY <1>4 DEF RunTasks
    <2>2. /\ todo' \in [Worker -> SUBSET Task]
          /\ pc' \in [Worker -> {"idle", "loop", "handled", "raised"}]
      BY <1>4 DEF TypeOK, RunTasks
    <2> QED BY <1>4, <2>1, <2>2, ClaimType DEF TypeOK, RunTasks
  <1>5. ASSUME NEW w \in Worker, NEW t \in Task, CallHandler(w, t) PROVE TypeOK'
    BY <1>5 DEF TypeOK, CallHandler
  <1>6. ASSUME NEW w \in Worker, Complete(w) PROVE TypeOK'
    BY <1>6 DEF TypeOK, Complete, NextIteration, OwnsLease, Status
  <1>7. ASSUME NEW w \in Worker, Fail(w) PROVE TypeOK'
    <2>1. current[w] \in Task
      BY <1>7 DEF WorkerOK, Fail
    <2>2. CASE OwnsLease(w, current[w]) /\ fail_durable_task(current[w])
      BY <1>7, <2>1, <2>2
      DEF TypeOK, Fail, fail_durable_task, RecordFailure, NextIteration, Abandon, Status
    <2>3. CASE ~OwnsLease(w, current[w])
      BY <1>7, <2>3 DEF TypeOK, Fail, Abandon
    <2> QED BY <1>7, <2>2, <2>3 DEF Fail
  <1>8. ASSUME NEW w \in Worker, Crash(w) PROVE TypeOK'
    BY <1>8 DEF TypeOK, Crash, Abandon
  <1>9. CASE UNCHANGED vars
    BY <1>9 DEF TypeOK
  <1> QED
    BY <1>1, <1>2, <1>3, <1>4, <1>5, <1>6, <1>7, <1>8, <1>9 DEF Next, WorkerStep

LEMMA WorkerStepOK == TypeOK /\ WorkerOK /\ [Next]_vars => WorkerOK'
  <1> SUFFICES ASSUME TypeOK, WorkerOK, [Next]_vars PROVE WorkerOK'
    OBVIOUS
  <1>1. ASSUME NEW t \in Task, Enqueue(t) \/ LeaseLapses(t) \/ BackoffElapses(t)
        PROVE  WorkerOK'
    BY <1>1 DEF WorkerOK, Enqueue, LeaseLapses, BackoffElapses
  <1>2. ASSUME NEW w \in Worker, NEW S \in SUBSET Task, RunTasks(w, S) PROVE WorkerOK'
    BY <1>2 DEF TypeOK, WorkerOK, RunTasks
  <1>3. ASSUME NEW w \in Worker, NEW t \in Task, CallHandler(w, t) PROVE WorkerOK'
    <2>1. \A u \in Task : runs[u] > 0 => runs'[u] > 0
      BY <1>3 DEF TypeOK, CallHandler
    <2>2. runs'[t] > 0
      BY <1>3 DEF TypeOK, CallHandler
    <2> SUFFICES ASSUME NEW v \in Worker
                 PROVE  /\ pc'[v] = "idle" => todo'[v] = {}
                        /\ pc'[v] \in {"handled", "raised"}
                             => current'[v] \in Task /\ runs'[current'[v]] > 0
      BY DEF WorkerOK
    <2>3. CASE v = w
      BY <1>3, <2>2, <2>3 DEF TypeOK, CallHandler
    <2>4. CASE v # w
      <3>1. pc'[v] = pc[v] /\ todo'[v] = todo[v] /\ current'[v] = current[v]
        BY <1>3, <2>4 DEF TypeOK, CallHandler
      <3> QED BY <2>1, <3>1 DEF WorkerOK
    <2> QED BY <2>3, <2>4
  <1>4. ASSUME NEW w \in Worker, Complete(w) PROVE WorkerOK'
    BY <1>4 DEF TypeOK, WorkerOK, Complete, NextIteration
  <1>5. ASSUME NEW w \in Worker, Fail(w) PROVE WorkerOK'
    BY <1>5 DEF TypeOK, WorkerOK, Fail, NextIteration, Abandon
  <1>6. ASSUME NEW w \in Worker, Crash(w) PROVE WorkerOK'
    BY <1>6 DEF TypeOK, WorkerOK, Crash, Abandon
  <1>7. CASE UNCHANGED vars
    BY <1>7 DEF WorkerOK
  <1> QED
    BY <1>1, <1>2, <1>3, <1>4, <1>5, <1>6, <1>7 DEF Next, WorkerStep

LEMMA InitOK == Init => TypeOK /\ WorkerOK
  BY MaxAttemptsAssumption DEF Init, TypeOK, WorkerOK, Status

\* Every reachable state is well typed (in particular attempt_count never
\* passes MaxAttempts) and every worker is in one of the states run_tasks has.
THEOREM TypeCorrect == Spec => [](TypeOK /\ WorkerOK)
  BY InitOK, TypeStep, WorkerStepOK, PTL DEF Spec

----------------------------------------------------------------------------
(* Handler calls are bounded by claims.                                    *)

LEMMA HoldersFinite ==
    ASSUME NEW t \in Task
    PROVE  IsFiniteSet(Holders(t)) /\ Cardinality(Holders(t)) \in Nat
  <1>1. Holders(t) \subseteq Worker
    BY DEF Holders
  <1> QED BY <1>1, FiniteAssumption, FS_Subset, FS_CardinalityType

\* A step that leaves the rows and the runs of t alone and makes nobody a new
\* holder of t keeps the bound for t.
LEMMA BoundKept ==
    ASSUME TypeOK, HandlerRunsBounded, TypeOK', NEW t \in Task,
           runs'[t] = runs[t], attempt_count'[t] = attempt_count[t],
           \A v \in Worker : t \in todo'[v] => t \in todo[v]
    PROVE  runs'[t] + Cardinality(Holders(t)') <= attempt_count'[t]
  <1>1. Holders(t)' \subseteq Holders(t)
    BY DEF Holders
  <1>2. Cardinality(Holders(t)') <= Cardinality(Holders(t)) /\ Cardinality(Holders(t)') \in Nat
    BY <1>1, HoldersFinite, FS_Subset, FS_CardinalityType
  <1> QED BY <1>2, HoldersFinite DEF HandlerRunsBounded, TypeOK

LEMMA RunsStep ==
    TypeOK /\ WorkerOK /\ HandlerRunsBounded /\ [Next]_vars => HandlerRunsBounded'
  <1> SUFFICES ASSUME TypeOK, WorkerOK, HandlerRunsBounded, [Next]_vars
               PROVE  HandlerRunsBounded'
    OBVIOUS
  <1>0. TypeOK'
    BY TypeStep
  <1> SUFFICES ASSUME NEW t \in Task
               PROVE  runs'[t] + Cardinality(Holders(t)') <= attempt_count'[t]
    BY <1>0 DEF TypeOK, HandlerRunsBounded
  <1> DEFINE Kept == runs'[t] + Cardinality(Holders(t)') <= attempt_count'[t]
  <1>1. ASSUME NEW u \in Task, Enqueue(u) \/ LeaseLapses(u) \/ BackoffElapses(u) PROVE Kept
    BY <1>0, <1>1, BoundKept DEF Enqueue, LeaseLapses, BackoffElapses
  <1>2. ASSUME NEW w \in Worker, NEW S \in SUBSET Task, RunTasks(w, S) PROVE Kept
    <2>1. CASE t \notin S
      <3>1. \A v \in Worker : t \in todo'[v] => t \in todo[v]
        BY <1>2, <2>1 DEF TypeOK, RunTasks
      <3>2. runs'[t] = runs[t] /\ attempt_count'[t] = attempt_count[t]
        BY <1>2, <2>1 DEF TypeOK, RunTasks, claim_durable_tasks
      <3> QED BY <1>0, <3>1, <3>2, BoundKept
    <2>2. CASE t \in S
      <3>1. Holders(t)' = Holders(t) \cup {w}
        BY <1>2, <2>2 DEF TypeOK, RunTasks, Holders
      <3>2. w \notin Holders(t)
        BY <1>2 DEF WorkerOK, RunTasks, Holders
      <3>3. Cardinality(Holders(t)') = Cardinality(Holders(t)) + 1
        BY <3>1, <3>2, HoldersFinite, FS_AddElement
      <3>4. runs'[t] = runs[t] /\ attempt_count'[t] = attempt_count[t] + 1
        BY <1>2, <2>2 DEF TypeOK, RunTasks, claim_durable_tasks
      <3> QED BY <3>3, <3>4, HoldersFinite DEF TypeOK, HandlerRunsBounded
    <2> QED BY <2>1, <2>2
  <1>3. ASSUME NEW w \in Worker, NEW u \in Task, CallHandler(w, u) PROVE Kept
    <2>1. CASE u # t
      <3>1. \A v \in Worker : t \in todo'[v] => t \in todo[v]
        BY <1>3, <2>1 DEF TypeOK, CallHandler
      <3>2. runs'[t] = runs[t] /\ attempt_count'[t] = attempt_count[t]
        BY <1>3, <2>1 DEF TypeOK, CallHandler
      <3> QED BY <1>0, <3>1, <3>2, BoundKept
    <2>2. CASE u = t
      <3>1. Holders(t)' = Holders(t) \ {w} /\ w \in Holders(t)
        BY <1>3, <2>2 DEF TypeOK, CallHandler, Holders
      <3>2. Cardinality(Holders(t)') = Cardinality(Holders(t)) - 1
        BY <3>1, HoldersFinite, FS_RemoveElement
      <3>3. runs'[t] = runs[t] + 1 /\ attempt_count'[t] = attempt_count[t]
        BY <1>3, <2>2 DEF TypeOK, CallHandler
      <3> QED BY <3>2, <3>3, HoldersFinite DEF TypeOK, HandlerRunsBounded
    <2> QED BY <2>1, <2>2
  <1>4. ASSUME NEW w \in Worker, Complete(w) PROVE Kept
    BY <1>0, <1>4, BoundKept DEF Complete, NextIteration
  <1>5. ASSUME NEW w \in Worker, Fail(w) PROVE Kept
    <2>1. \A v \in Worker : t \in todo'[v] => t \in todo[v]
      BY <1>5 DEF TypeOK, Fail, NextIteration, Abandon
    <2>2. runs'[t] = runs[t] /\ attempt_count'[t] = attempt_count[t]
      BY <1>5 DEF Fail, fail_durable_task, RecordFailure
    <2> QED BY <1>0, <2>1, <2>2, BoundKept
  <1>6. ASSUME NEW w \in Worker, Crash(w) PROVE Kept
    <2>1. \A v \in Worker : t \in todo'[v] => t \in todo[v]
      BY <1>6 DEF TypeOK, Crash, Abandon
    <2> QED BY <1>0, <1>6, <2>1, BoundKept DEF Crash
  <1>7. CASE UNCHANGED vars
    BY <1>0, <1>7, BoundKept
  <1> QED
    BY <1>1, <1>2, <1>3, <1>4, <1>5, <1>6, <1>7 DEF Next, WorkerStep

LEMMA InitRuns == Init => HandlerRunsBounded
  <1> SUFFICES ASSUME Init, NEW t \in Task
               PROVE  /\ runs[t] + Cardinality(Holders(t)) <= attempt_count[t]
                      /\ attempt_count[t] <= MaxAttempts
    BY DEF HandlerRunsBounded
  <1>1. Holders(t) = {}
    BY DEF Init, Holders
  <1> QED BY <1>1, FS_EmptySet, MaxAttemptsAssumption DEF Init

\* Every handler call is paid for by a claim, for any number of tasks, workers,
\* crashes and any batch size.  The invariant needs WorkerOK: a worker that
\* claims holds nothing from an earlier batch.
THEOREM HandlerRunsAreBounded == Spec => []HandlerRunsBounded
  BY TypeCorrect, InitRuns, RunsStep, PTL DEF Spec

----------------------------------------------------------------------------
(* Evidence of terminal failures.                                          *)

LEMMA EvidenceStep ==
    TypeOK /\ WorkerOK /\ TerminalEvidence /\ [Next]_vars => TerminalEvidence'
  <1> SUFFICES ASSUME TypeOK, WorkerOK, TerminalEvidence, [Next]_vars
               PROVE  TerminalEvidence'
    OBVIOUS
  <1>1. ASSUME NEW t \in Task, Enqueue(t) PROVE TerminalEvidence'
    BY <1>1 DEF TypeOK, TerminalEvidence, Enqueue
  <1>2. ASSUME NEW t \in Task, LeaseLapses(t) \/ BackoffElapses(t) PROVE TerminalEvidence'
    BY <1>2 DEF TerminalEvidence, LeaseLapses, BackoffElapses
  <1>3. ASSUME NEW w \in Worker, NEW S \in SUBSET Task, RunTasks(w, S) PROVE TerminalEvidence'
    BY <1>3 DEF TypeOK, TerminalEvidence, RunTasks, claim_durable_tasks, Claimable
  <1>4. ASSUME NEW w \in Worker, NEW t \in Task, CallHandler(w, t) PROVE TerminalEvidence'
    <2>1. \A u \in Task : runs[u] > 0 => runs'[u] > 0
      BY <1>4 DEF TypeOK, CallHandler
    <2> QED BY <1>4, <2>1 DEF TerminalEvidence, CallHandler
  <1>5. ASSUME NEW w \in Worker, Complete(w) PROVE TerminalEvidence'
    BY <1>5 DEF TypeOK, WorkerOK, TerminalEvidence, Complete, OwnsLease
  <1>6. ASSUME NEW w \in Worker, Fail(w) PROVE TerminalEvidence'
    <2>1. CASE OwnsLease(w, current[w]) /\ fail_durable_task(current[w])
      BY <1>6, <2>1, MaxAttemptsAssumption
      DEF TypeOK, WorkerOK, TerminalEvidence, Fail, OwnsLease, fail_durable_task, RecordFailure
    <2>2. CASE UNCHANGED <<rowVars, recordVars>>
      BY <1>6, <2>2 DEF TerminalEvidence, Fail
    <2> QED BY <1>6, <2>1, <2>2 DEF Fail
  <1>7. ASSUME NEW w \in Worker, Crash(w) PROVE TerminalEvidence'
    BY <1>7 DEF TerminalEvidence, Crash
  <1>8. CASE UNCHANGED vars
    BY <1>8 DEF TerminalEvidence
  <1> QED
    BY <1>1, <1>2, <1>3, <1>4, <1>5, <1>6, <1>7, <1>8 DEF Next, WorkerStep

\* Dead-letter evidence exists exactly for the tasks that were given up, once
\* each and only after the last attempt.
THEOREM EvidenceIsExact == Spec => []TerminalEvidence
  <1>1. Init => TerminalEvidence
    BY DEF Init, TerminalEvidence
  <1> QED BY <1>1, TypeCorrect, EvidenceStep, PTL DEF Spec

----------------------------------------------------------------------------
(* What a step may never do.                                               *)

\* A row leaves 'processing' only by the hand of the worker that owns its
\* lease, in the iteration that works on it.
THEOREM SettlementIsFenced == Spec => FencedSettlement
  <1>1. ASSUME TypeOK, WorkerOK, [Next]_vars, NEW t \in Task,
               status[t] = "processing", status'[t] # "processing"
        PROVE  \E w \in Worker : lease_owner[t] = w /\ current[w] = t /\ current'[w] # t
    <2>1. PICK w \in Worker : Complete(w) \/ Fail(w)
      BY ZenonT(30), <1>1 DEF TypeOK, Next, WorkerStep, Enqueue, LeaseLapses, BackoffElapses, RunTasks,
                  claim_durable_tasks, CallHandler, Crash
    <2>2. OwnsLease(w, current[w]) /\ NextIteration(w) /\ current[w] = t
      BY <1>1, <2>1 DEF TypeOK, WorkerOK, Complete, Fail, fail_durable_task, RecordFailure
    <2> QED BY <1>1, <2>2, NoneAssumption DEF TypeOK, OwnsLease, NextIteration
  <1>2. TypeOK /\ WorkerOK /\ [Next]_vars =>
          [\A t \in Task : status[t] = "processing" /\ status'[t] # "processing"
             => \E w \in Worker : lease_owner[t] = w /\ current[w] = t /\ current'[w] # t]_vars
    BY <1>1
  <1> QED BY <1>2, TypeCorrect, PTL DEF Spec, FencedSettlement

\* Success and dead letter are final.
THEOREM SettledIsForever == Spec => SettledForever
  <1>1. ASSUME TypeOK, WorkerOK, [Next]_vars, NEW t \in Task, status[t] \in Settled
        PROVE  /\ status'[t] = status[t] /\ attempt_count'[t] = attempt_count[t]
               /\ exceptions'[t] = exceptions[t]
    <2>1. ASSUME NEW u \in Task, Enqueue(u) \/ LeaseLapses(u) \/ BackoffElapses(u)
          PROVE  status'[t] = status[t] /\ UNCHANGED <<attempt_count, exceptions>>
      BY <1>1, <2>1 DEF TypeOK, Settled, Enqueue, LeaseLapses, BackoffElapses
    <2>2. ASSUME NEW w \in Worker, NEW S \in SUBSET Task, RunTasks(w, S)
          PROVE  /\ status'[t] = status[t] /\ attempt_count'[t] = attempt_count[t]
                 /\ UNCHANGED exceptions
      BY <1>1, <2>2 DEF TypeOK, Settled, RunTasks, claim_durable_tasks, Claimable
    <2>3. ASSUME NEW w \in Worker, Complete(w)
          PROVE  status'[t] = status[t] /\ UNCHANGED <<attempt_count, exceptions>>
      BY <1>1, <2>3 DEF TypeOK, Settled, Complete, OwnsLease
    <2>4. ASSUME NEW w \in Worker, Fail(w)
          PROVE  /\ status'[t] = status[t] /\ UNCHANGED attempt_count
                 /\ exceptions'[t] = exceptions[t]
      BY <1>1, <2>4 DEF TypeOK, Settled, Fail, OwnsLease, fail_durable_task, RecordFailure
    <2> QED
      BY <1>1, <2>1, <2>2, <2>3, <2>4 DEF Next, WorkerStep, CallHandler, Crash
  <1>2. TypeOK /\ WorkerOK /\ [Next]_vars =>
          [\A t \in Task : status[t] \in Settled =>
              status'[t] = status[t] /\ attempt_count'[t] = attempt_count[t]
                /\ exceptions'[t] = exceptions[t]]_vars
    BY <1>1
  <1> QED BY <1>2, TypeCorrect, PTL DEF Spec, SettledForever

----------------------------------------------------------------------------
(* The queue implements TaskContract.                                      *)

\* The database part of a step: what happens to the rows.
LEMMA ContractStep ==
    ASSUME TypeOK, WorkerOK, TerminalEvidence, HandlerRunsBounded, [Next]_vars
    PROVE  [Contract!ContractNext]_(Contract!contractVars)
  <1> USE DEF Contract!contractVars
  <1>1. ASSUME NEW t \in Task, Enqueue(t) PROVE Contract!Submit(t)
    BY <1>1 DEF TypeOK, Enqueue, phaseOf, Contract!Submit
  <1>2. ASSUME NEW t \in Task, LeaseLapses(t) \/ BackoffElapses(t)
        PROVE  UNCHANGED Contract!contractVars
    BY <1>2 DEF LeaseLapses, BackoffElapses, phaseOf
  <1>3. ASSUME NEW w \in Worker, NEW S \in SUBSET Task, RunTasks(w, S) PROVE Contract!Try(S)
    <2>1. \A t \in S : phaseOf[t] = "open" /\ attempt_count[t] < MaxAttempts
      BY <1>3 DEF RunTasks, claim_durable_tasks, Claimable, phaseOf
    <2>2. phaseOf' = phaseOf
      BY <1>3 DEF TypeOK, RunTasks, claim_durable_tasks, Claimable, phaseOf
    <2> QED BY <1>3, <2>1, <2>2 DEF RunTasks, claim_durable_tasks, Contract!Try
  <1>4. ASSUME NEW w \in Worker, Complete(w)
        PROVE  Contract!Settle(current[w]) \/ UNCHANGED Contract!contractVars
    <2>1. CASE ~OwnsLease(w, current[w])
      BY <1>4, <2>1 DEF Complete, phaseOf
    <2>2. CASE OwnsLease(w, current[w])
      <3>1. current[w] \in Task /\ attempt_count[current[w]] > 0
        <4>1. current[w] \in Task /\ runs[current[w]] > 0
          BY <1>4 DEF WorkerOK, Complete
        <4> QED BY <4>1, HoldersFinite DEF TypeOK, HandlerRunsBounded
      <3>2. phaseOf' = [phaseOf EXCEPT ![current[w]] = "succeeded"]
        BY <1>4, <2>2, <3>1 DEF TypeOK, Complete, phaseOf
      <3>3. phaseOf[current[w]] = "open"
        BY <2>2, <3>1 DEF OwnsLease, phaseOf
      <3> QED BY <1>4, <2>2, <3>1, <3>2, <3>3 DEF Complete, Contract!Settle
    <2> QED BY <2>1, <2>2
  <1>5. ASSUME NEW w \in Worker, Fail(w)
        PROVE  Contract!Settle(current[w]) \/ UNCHANGED Contract!contractVars
    <2>1. CASE ~OwnsLease(w, current[w])
      BY <1>5, <2>1 DEF Fail, phaseOf
    <2>2. CASE OwnsLease(w, current[w])
      <3> DEFINE t == current[w]
      <3>1. t \in Task /\ attempt_count[t] > 0
        <4>1. current[w] \in Task /\ runs[current[w]] > 0
          BY <1>5 DEF WorkerOK, Fail
        <4> QED BY <4>1, HoldersFinite DEF TypeOK, HandlerRunsBounded
      <3>2. phaseOf[t] = "open"
        BY <2>2, <3>1 DEF OwnsLease, phaseOf
      <3>3. CASE attempt_count[t] >= MaxAttempts
        <4>1. phaseOf' = [phaseOf EXCEPT ![t] = "dead_lettered"]
          BY <1>5, <2>2, <3>1, <3>3 DEF TypeOK, Fail, fail_durable_task, RecordFailure, phaseOf
        <4>2. attempt_count[t] = MaxAttempts
          BY SMTT(30), <3>1, <3>3, MaxAttemptsAssumption DEF TypeOK
        <4> QED
          BY <1>5, <2>2, <3>1, <3>2, <4>1, <4>2
          DEF Fail, fail_durable_task, RecordFailure, Contract!Settle
      <3>4. CASE ~(attempt_count[t] >= MaxAttempts)
        <4>1. phaseOf' = phaseOf
          BY <1>5, <2>2, <3>1, <3>4
          DEF TypeOK, Fail, OwnsLease, fail_durable_task, RecordFailure, phaseOf
        <4> QED BY <1>5, <2>2, <4>1 DEF Fail, fail_durable_task, RecordFailure
      <3> QED BY <3>3, <3>4
    <2> QED BY <2>1, <2>2
  <1>6. ASSUME NEW w \in Worker,
               Crash(w) \/ \E t \in Task : CallHandler(w, t)
        PROVE  UNCHANGED Contract!contractVars
    BY <1>6 DEF Crash, CallHandler, phaseOf
  <1>7. CASE UNCHANGED vars
    BY <1>7 DEF phaseOf
  <1>8. ASSUME NEW w \in Worker, Complete(w) \/ Fail(w) PROVE current[w] \in Task
    BY <1>8 DEF WorkerOK, Complete, Fail
  <1> QED
    BY <1>1, <1>2, <1>3, <1>4, <1>5, <1>6, <1>7, <1>8
    DEF Next, WorkerStep, Contract!ContractNext

\* Refinement: with phaseOf as the phase and attempt_count as the tries, every
\* behaviour of the queue is one the contract allows.
THEOREM QueueImplementsContract == Spec => ImplementsContract
  <1>1. Init => Contract!ContractInit
    BY DEF Init, phaseOf, Contract!ContractInit
  <1> QED
    BY <1>1, ContractStep, TypeCorrect, EvidenceIsExact, HandlerRunsAreBounded, PTL
    DEF Spec, ImplementsContract, Contract!ContractSpec

----------------------------------------------------------------------------
(* The outbox is the queue with deliveries beside it.                      *)

\* A delivery is one of the handler calls, and a publisher that is about to
\* complete an event has delivered it.
OutboxInv ==
  /\ delivered \in [Task -> Nat]
  /\ \A t \in Task : /\ delivered[t] <= runs[t]
                     /\ status[t] = "succeeded" => delivered[t] > 0
  /\ \A w \in Worker : pc[w] = "handled" => delivered[current[w]] > 0

\* What the outbox does to the rows is what the queue does to them.
LEMMA OutboxIsQueue == OutboxSpec => Spec
  <1>1. OutboxInit => Init
    BY DEF OutboxInit
  <1>2. [OutboxNext]_outboxVars => [Next]_vars
    BY DEF OutboxNext, outboxVars, record_event, TimePasses, claim_outbox_events, deliver,
           complete_outbox_event, fail_outbox_event, PublisherDies, Next, WorkerStep
  <1> QED BY <1>1, <1>2, PTL DEF OutboxSpec, Spec

\* So the outbox keeps the contract of the queue, too.
THEOREM OutboxImplementsContract == OutboxSpec => ImplementsContract
  BY OutboxIsQueue, QueueImplementsContract

\* A step that delivers nothing and starts or completes nothing undelivered.
LEMMA OutboxKept ==
    ASSUME OutboxInv, UNCHANGED <<delivered, runs>>,
           \A t \in Task : status'[t] = "succeeded" =>
              status[t] = "succeeded" \/ \E w \in Worker : pc[w] = "handled" /\ current[w] = t,
           \A w \in Worker : pc'[w] = "handled" => pc[w] = "handled" /\ current'[w] = current[w]
    PROVE  OutboxInv'
  BY DEF OutboxInv

\* Every step keeps it: only deliver calls the transport, once per handler call.
LEMMA OutboxStep ==
    TypeOK /\ WorkerOK /\ OutboxInv /\ [OutboxNext]_outboxVars => OutboxInv'
  <1> SUFFICES ASSUME TypeOK, WorkerOK, OutboxInv, [OutboxNext]_outboxVars PROVE OutboxInv'
    OBVIOUS
  <1>1. ASSUME NEW t \in Task, record_event(t) \/ TimePasses(t) PROVE OutboxInv'
    BY <1>1, OutboxKept DEF record_event, TimePasses, Enqueue, LeaseLapses, BackoffElapses, TypeOK
  <1>2. ASSUME NEW w \in Worker, NEW S \in SUBSET Task, claim_outbox_events(w, S)
        PROVE  OutboxInv'
    BY <1>2, OutboxKept DEF claim_outbox_events, RunTasks, claim_durable_tasks, TypeOK
  <1>3. ASSUME NEW w \in Worker, NEW t \in Task, deliver(w, t) PROVE OutboxInv'
    <2>1. /\ pc[w] = "loop" /\ current' = [current EXCEPT ![w] = t]
          /\ runs' = [runs EXCEPT ![t] = @ + 1] /\ UNCHANGED status
          /\ \/ delivered' = [delivered EXCEPT ![t] = @ + 1]
             \/ pc'[w] = "raised" /\ UNCHANGED delivered
          /\ \A v \in Worker \ {w} : pc'[v] = pc[v]
      BY <1>3 DEF deliver, CallHandler, TypeOK
    <2>2. /\ delivered' \in [Task -> Nat]
          /\ \A u \in Task : delivered'[u] >= delivered[u] /\ delivered'[u] <= runs'[u]
      BY <2>1 DEF OutboxInv, TypeOK
    <2>3. ASSUME NEW u \in Task, status'[u] = "succeeded" PROVE delivered'[u] > 0
      BY <2>1, <2>2, <2>3 DEF OutboxInv
    <2>4. ASSUME NEW v \in Worker, pc'[v] = "handled" PROVE delivered'[current'[v]] > 0
      <3>1. CASE v = w
        BY <2>1, <2>4, <3>1 DEF OutboxInv, TypeOK
      <3>2. CASE v # w
        <4>1. pc[v] = "handled" /\ current'[v] = current[v] /\ current[v] \in Task
          BY <2>1, <2>4, <3>2 DEF TypeOK, WorkerOK
        <4> QED BY <2>2, <4>1 DEF OutboxInv
      <3> QED BY <3>1, <3>2
    <2> QED BY <2>2, <2>3, <2>4 DEF OutboxInv
  <1>4. ASSUME NEW w \in Worker, complete_outbox_event(w) PROVE OutboxInv'
    BY <1>4, OutboxKept DEF complete_outbox_event, Complete, NextIteration, TypeOK
  <1>5. ASSUME NEW w \in Worker, fail_outbox_event(w) PROVE OutboxInv'
    <2>1. current[w] \in Task
      BY <1>5 DEF fail_outbox_event, Fail, WorkerOK
    <2> QED BY <1>5, <2>1, OutboxKept
        DEF fail_outbox_event, Fail, fail_durable_task, RecordFailure, NextIteration, Abandon, TypeOK
  <1>6. ASSUME NEW w \in Worker, PublisherDies(w) PROVE OutboxInv'
    BY <1>6, OutboxKept DEF PublisherDies, Crash, Abandon, TypeOK
  <1>7. CASE UNCHANGED outboxVars
    BY <1>7, OutboxKept DEF outboxVars
  <1> QED BY <1>1, <1>2, <1>3, <1>4, <1>5, <1>6, <1>7 DEF OutboxNext

\* Whatever publishers die, lapse or fail after the fact, an event counts as
\* published only after a delivery, and is delivered at most MaxAttempts times.
THEOREM DeliveredAtLeastOnce == OutboxSpec => []AtLeastOnce
  <1>1. OutboxInit => OutboxInv
    BY DEF OutboxInit, Init, OutboxInv
  <1>2. TypeOK /\ HandlerRunsBounded /\ OutboxInv => AtLeastOnce
    <2> SUFFICES ASSUME TypeOK, HandlerRunsBounded, OutboxInv, NEW t \in Task
                 PROVE  /\ status[t] = "succeeded" => delivered[t] > 0
                        /\ delivered[t] <= MaxAttempts
      BY DEF AtLeastOnce
    <2>1. Cardinality(Holders(t)) \in Nat
      BY HoldersFinite
    <2>2. runs[t] + Cardinality(Holders(t)) <= attempt_count[t] /\ attempt_count[t] <= MaxAttempts
      BY DEF HandlerRunsBounded
    <2>3. delivered[t] \in Nat /\ runs[t] \in Nat /\ attempt_count[t] \in Nat /\ MaxAttempts \in Nat
      BY MaxAttemptsAssumption DEF OutboxInv, TypeOK
    <2> QED BY <2>1, <2>2, <2>3 DEF OutboxInv
  <1> QED
    BY <1>1, <1>2, OutboxStep, OutboxIsQueue, TypeCorrect, HandlerRunsAreBounded, PTL DEF OutboxSpec

=============================================================================
