# Formal models of Zippy

TLA+ models of the transactional core of Zippy, a logistics marketplace: a
FastAPI service (`src/api`), a PostgreSQL schema whose functions and triggers
hold much of the control (`src/db/zippy/migrations`), and workers that drain the
tables the service fills (`src/api/worker.py`, `src/api/worker_finance.py`); of
Paperclip, the governance of agents beside it (`src/db/paperclip`); and of the
agent workers (`src/workers`): the kernel that claims and executes their tasks,
and the guarded call of an outside model with the reviews of what it recommends.
`PROJECT.json` ties every definition to the lines it models and every property
to a run and a mutant.

To check: `tlc -config X.cfg M` for the pairs in [Runs](#runs) and `tlapm M.tla`
for the modules in [Proofs](#proofs).

## Inventory

| Part | State it keeps | Operations | What is hard |
|---|---|---|---|
| Durable task queue (`0005_core_runtime.up.sql`, `worker.py`, `worker_finance.py`) | `durable_tasks`, `dead_letter_records`, `operational_exceptions` | enqueue (in the transaction of a business operation), `claim_durable_tasks`, handler, completion, `fail_durable_task` | leases that lapse under a live worker, crashes between transactions, batches, attempt limits |
| Event outbox (same files) | `event_outbox` | claim, `deliver`, complete, fail | delivery and bookkeeping are not atomic |
| Orders (`repositories.py`, `main.py`, `transition_order()` in `0004_controls.up.sql`) | `orders`, `order_state_transitions`, `idempotency_records`, `operational_events` | intake, transition | concurrent and repeated requests under READ COMMITTED, a look-up before the lock |
| Dispatch (`repositories_dispatch.py`, `validate_assignment()`) | `dispatch_offers`, `trips`, `trip_assignments` | offer, accept, decline, cancel, expire | eligibility read in one transaction and used in another; competing offers |
| Account control (`set_account_status()`) | `accounts` | block, unblock | a block that races an acceptance |
| Payment evidence (`gateway.py`, `repositories_finance.py`, `routes_finance.py`) | `webhook_receipts`, `gateway_events`, `payment_intents`, `payment_projections`, `financial_requests` | webhook, mapping, projection, sweep, re-drive | events late, repeated, in any order, before what they refer to |
| Refunds (same files) | `refund_requests`, `refund_decisions`, `refund_executions` | request, decide, execute, reconcile | separation of duties over several steps, one gateway id per request |
| POD and settlement (same files) | `pod_documents`, `settlement_projections` | submit, decide, evaluate, gate task | no unique index: only the row lock of the order keeps projections apart |
| POD lifecycle store (`api/pod_lifecycle.py`; no caller yet) | `orders.pod_status` | read, advance | a status read earlier, an answer that does not say whether a row matched |
| Paperclip governance (`src/db/paperclip`, `api/services/paperclip.py`) | proposals, invariant results, decision locks, decisions, grants, attempts, costs, heartbeats | propose, decide, issue, revoke, consume, record | one-time grants, loop guard, a synthetic executor in two transactions |
| Agent kernel (`kernel.py`, `executor.py`, `guardian.py`, Supabase functions) | `agent_registry`, `agent_tasks`, counters of a tick | claim, tick, complete, spend, fail, pause | no leases: a claim that is not reported stays; budget checked per tick, spent per task |
| Agent tools (`handlers.py`, `notify.py`, Supabase functions) | `orders`, `order_documents`, `notification_queue`, `notification_log` | the six default tools | a tool is several remote calls, each of which may raise after its effect, and is retried as a whole |
| Staging run and provider circuit (`run_oms_recommendation.py`, `staging_authorization.py`, `strict_provider_circuit.py`) | claim and marker files, a lock file | consume a grant, reserve, request, finish | deaths, failing system calls and machine crashes between file operations that are synchronized one by one |
| Reviews (`shadow_review.py`) | `_records`, `_creations`, `_submissions` | create, get, review | an await inside `create`, times that may go back |
| Others | | | stateless or superseded; see `components` in `PROJECT.json` |

The parts meet in the database. An order transition, an offer acceptance and a
POD decision each write their rows, their operational event, their outbox row
and the tasks they enqueue in one transaction. Workers claim tasks and outbox
rows in transactions of their own, run the handler or the transport outside any
transaction, and report in a third one. Dispatch calls `transition_order()`; the
settlement gate depends on the trip that an acceptance created; the finance
worker re-drives receipts through tasks that the sweep enqueued. Requests hold
row locks (`FOR UPDATE`) until they commit; where they read without a lock, the
read may be stale when it is used. The agent workers talk to a hosted database of
their own through single remote calls; a tool has no transaction around its calls.
The staging run keeps its state in files, shared by all invocations on a machine.

## Modules

| Module | Models | Depends on |
|---|---|---|
| `TaskContract` | what the queue promises about one task: at most `MaxAttempts` tries, settled for good | |
| `DurableTasks` | the task table and the workers | instantiates `TaskContract` |
| `EventOutbox` | outbox rows and publishers | extends `DurableTasks` |
| `OrderTables` | what intake and `transition_order()` do to the tables | |
| `OrderApi` | concurrent HTTP requests on the order tables | extends `OrderTables` |
| `DispatchContract` | what dispatch promises about offers, orders and bookings: one step per answer | |
| `Dispatch` | offers, acceptance, account blocks | extends `OrderTables`, instantiates `DispatchContract` |
| `GatewayFinance` | gateway events, mapping, sweep, re-drive, refunds | |
| `PodSettlement` | documents, decisions, settlement projections | |
| `Paperclip` | proposals, review, grants and the executor | |
| `AgentTools` | the default tools as sequences of remote calls, and their rows | |
| `AgentKernel` | agents, claims, the tick, the executor with its guardian | extends `AgentTools` |
| `Recommendations` | what `recommend_drivers()` makes of an answer | |
| `StagingRun` | grants, the circuit and the request in concurrent invocations | extends `Recommendations` |
| `Reviews` | the review store | extends `Recommendations` |
| `RecommendationService` | staging runs and review store side by side | extends `StagingRun`, instantiates `Reviews` |
| `PodLifecycle` | the POD lifecycle store | |
| `*Proofs` | the proofs about the module they are named after; `DurableTasksProofs` also about `EventOutbox`, `AgentKernelProofs` about `AgentTools`, `PodProofs` about `PodSettlement` and `PodLifecycle`, `RecommendationsProofs` about `StagingRun` and `Reviews` | extend or instantiate it |
| `MC*` | constants, situations and symmetry for TLC | |

### DurableTasks

A row is `status`, `attempt_count`, `lease_owner` and two booleans for its
timestamps: `lapsed` (the lease has expired) and `due` (the backoff is over).
Absolute times do not matter: the code only compares them with the clock.
A worker is a batch `todo`, the `current` task and a `pc`; it moves through
`RunTasks` (the claim transaction), `CallHandler`, `Complete` and `Fail`. The
handler raises or returns, as it likes. `OwnsLease` is what both UPDATEs check: the owner, not
the expiry, so that a worker whose lease lapsed may still complete the row
as long as nobody took it. If `fail_durable_task` refuses, its exception
leaves the loop (`Abandon`). `Crash` may happen in any step. `runs` counts handler
calls; it is a history variable. `FinanceWorker.run_tasks` is the same loop over
another task type.

### EventOutbox

The outbox functions have the conditions of the task functions, so the module
reuses them and adds `delivered`. A transport that raises may or may not have
delivered. In the code the terminal exception of an outbox row is written inside
`fail_outbox_event`, that of a task by the worker, both in the transaction of the
failure.

### OrderTables and OrderApi

`OrderTables` has the rows and the two operators that write them. In `OrderApi`
a transition request takes three steps (`LookUp`, `LockOrder`, `Apply`) since
other transactions can commit between the unlocked look-up, the row lock and the
commit. An intake is one step: `INSERT ... ON CONFLICT` waits for a concurrent
insert of the same key. `Resend` is a client that repeats a request, in flight or
answered. `Respond` is the end of a transaction, with its answer and the release
of its lock; `ConnectionLost` is the rollback. A request fingerprint is the
request itself.

### Dispatch

An offer is named by its idempotency key. Creating one takes two steps
(`ReadFacts`, `InsertOffer`) because the facts are read without a lock; accepting
takes the committed expiry transaction (`ExpireIfDue`), the checks under the
locks of order and offer (`AcceptChecks`) and the commit (`AcceptCommits`).
`MayAccept` collects the code's checks, the trigger `validate_assignment()`, the
unique indexes on unreleased assignments and the conditions of
`transition_order()`. The part of eligibility that no code of the system changes
is the constant relation `Suitable`. No code releases an assignment.
`DispatchContract` has none of these transactions: an offer is made for suitable
parties, answered once, and accepted in one step that finds the order confirmed,
books the parties and moves the order. It sees the order's status, the offers
(`expired` is another refusal), the assignments, and `Credited`, the offers under
whose own key an order stepped to `assigned`.

### GatewayFinance

Each method is one step: its conflicts are arbitrated by unique indexes or
locks on the rows it starts with. `Content` says what an event means; events
carry amounts in minor units, the tables hold `<<major, minor>>`, and the
conversions are modelled. `reprocess_receipt` rebuilds the event without its id
and its hash, as the code does. The sweep takes the oldest `SweepLimit` receipts
without a gateway event. Which receipts are old enough is any prefix of the
receipts. Signatures are verified before ingestion and assumed valid.

### PodSettlement

A transaction that ends in `_ensure_settlement_projection` takes a step for the
decision, the lock of the order, the reads and the insert with the commit. It
sees its own decision and what others committed. Repeating the gate task after
its commit models a worker that died before it completed the task.

### Paperclip

Each privileged SQL function is one action: it locks the row or the key it works
on first, and its denials change only audit and outbox rows. A proposal and its
grant are named by the idempotency key of the proposal; a content stands for
action, target, entity and payload. Time is a small clock because the code
compares three kinds of instants with each other. A proposal is `created` at the
start of its transaction (`now()`), which is earlier than its commit when it had
to wait for the advisory lock; the loop guard therefore sees rows that were
committed out of the order of their times. `envelope` is the signed grant
envelope that clients still hold. The route signs it for the agent and content of
a proposal envelope, and a repeated `create_proposal` yields such an envelope for
any content: the SQL function, not the signature, binds the grant.
`EnvelopeGone` is an envelope that expired or whose answer was lost.
`SyntheticExecutor` consumes the grant and records the completion in two
transactions; `executor` is what it carries between them and `ExecutorDies` its
death. `completions` is a history variable. Agents and the policy stay active: no
code of the system changes them. `evaluate_loop_guard` adds an event each time it
is called for a blocked proposal; `loop_guard_events` counts them. A recorded cost
is one step under the row lock of its agent. A heartbeat is deduplicated by its
run key alone, whichever agent sent it.

### AgentTools and AgentKernel

A tool is a sequence of remote calls, each a transaction of the hosted database;
`todo` of a worker is what its tool has still to call, and a call may put others
in its place (a match puts the assignment, a send puts the bookkeeping). `Plan`
says what each handler starts with. `ToolRaises` is a call that fails, with its
effect or without. A kernel's tick is `claim_agent_tasks`, then `Pick` for each
task of its `batch`, the calls, the answer, and the reports. `Pick` contains the
guardian: at most `MaxCalls` tools per tick, and no job more often than
`RepeatThreshold`; `seen` and `calls` are the guardian's counters and end with the
tick. `ToolAnswers` is a default tool: its `HandlerResult` cannot be converted by
`dict()`, so that its task fails. An injected tool, as the tests use, returns a
dictionary and `InjectedToolAnswers` completes and spends. `ClaimRefused` is the
exception for an exhausted budget; it rolls back the pause written in the claim,
and the kernel tries again to persist it. `TickAborts` is a death or an exception
outside a tool. `runs` and `said` are history variables. Job parameters are those
that lead to different calls.

### StagingRun and Reviews

Each system call of the script on its directory is one step: `dir` holds the
files, `disk` those of them that are synchronized. A crash keeps of the
unsynchronized changes any subset. The lock is a file lock that refuses rather
than waits (`TakeLock`) and that a death releases. `Raise` is where an exception
leads from the place where it is raised. The request is over after half of the
timeout, its client is closed in the other half; `Tick` cannot pass a deadline
that the code's timers enforce. The request has nine outcomes
(`AnswerOf` and the timeout of `recommend_drivers()`).
`Reviews` is the store between awaits: `create` runs up to `evaluate_shadow`,
`Created` from its answer, and other coroutines run between. Times are the
callers' and go back as they like within `_validate_time`.

### PodLifecycle

A client reads a status and sends a conditional PATCH later. The row moves only if
the filter matches; the answer is the same if it does not. The table is external:
no migration has the column `pod_status`.

## Runs

Deadlock checking is off in all of them: each system may stop when everything is
settled. Where a run has several situations, a variable `situation` is chosen
first and keeps apart behaviours of one specification that no property relates.

| Run | Module, cfg | Shows | Bounds |
|---|---|---|---|
| `task_queue` | `MCDurableTasks`, `MCDurableTasks.cfg` | types, bounded handler calls and deliveries, exact terminal evidence, nothing published undelivered, fenced settlement, recovery of claims, refinement of the contract | 2 tasks (or events), 2 workers, 2 attempts, batches of 2, 1 crash |
| `task_batch_abort` | `MCDurableTasks`, `TaskBatchAbort.cfg` | violation: a task of an aborted batch never settles | the same without a crash |
| `orders` | `MCOrderApi`, `MCOrderApi.cfg` | histories, idempotency, no lost update, true answers, whole intakes, every request answered | "requests": 1 order, 2 sessions, 2 keys, 2 target statuses; "intake": 2 orders, keys, accounts and bodies, 1 session |
| `dispatch` | `MCDispatch`, `MCDispatch.cfg` | types, no double booking, refinement of the dispatch contract (an acceptance acts as one step, answers are final) | 2 orders, 2 offers, 1 vehicle, 1 driver, 2 sessions |
| `dispatch_documents` | `MCDispatch`, `DispatchDocuments.cfg` | violation: documents lapse before the acceptance | 1 order, 1 offer |
| `gateway` | `MCGatewayFinance`, `MCGatewayFinance.cfg` | backed projections and reversals, one invoice request, separation of duties, no silent event, repair | "payments": 3 events, 2 references, 2 orders, 2 amounts; "refunds": 3 events, 2 requests of one order, 2 gateway ids, 2 execution keys, 2 accounts |
| `governance` | `MCPaperclip`, `MCPaperclip.cfg` | what is executed is what was approved, once; a grant changes once, before it expires; the loop guard holds in every window | "grants": 1 proposal, 2 agents, 2 contents, 2 executor sessions, instants 0-3; "limits": 5 proposals, limit 3, window 2, instants 0-4, waits of at most 1; "reports": budget 1, 2 agents, 2 run keys |
| `pod_settlement` | `MCPodSettlement`, `MCPodSettlement.cfg` | one projection exactly when accepted, no deadlock of locks | 2 orders, 2 documents, 3 sessions |
| `pod_lifecycle` | `PodLifecycle`, `PodLifecycle.cfg` | violation: a PATCH that moved nothing is reported as a success | 1 order, 2 clients |
| `agent_kernel` | `MCAgentKernel`, `MCAgentKernel.cfg` | no task in two ticks, counted attempts, bounded overspending, rows that tell the truth, exhausted agents are paused | 2 kernels with batches of 2 and 1, 2 attempts; six pairs of default tools that meet on one order or notification with 1 aborted tick, or 4 tasks of an injected tool and a budget of 1 |
| `agent_success` | `MCAgentKernel`, `AgentSuccess.cfg` | violation: a tool that answers with success has its task failed | 2 tasks, no aborted tick |
| `recommendations` | `MCRecommendations`, `MCRecommendations.cfg` | the circuit latches, one request per grant and inside its window, no decision lost | "staging": 3 invocations, 2 usable grants and one that is not registered, instants 0-4, 2 mishaps; "reviews": 2 coroutines, 2 reviews, 2 submission keys, instants 0-2 |

Why the bounds are enough. The properties are about pairs: two workers on a row,
two requests on an order, two offers for a driver, two events of a payment, two
ticks on a task, two invocations with one grant. With two attempts a lease is
recovered and handled by a second worker, in its last attempt; with batches of two
a batch can be aborted with a task left. `MaxCrashes` bounds worker deaths,
`MaxAborts` the ticks that end early, `MaxMishaps` the failed system calls, deaths
and crashes of the staging runs together (two, so that a clean-up is itself
interrupted), `MaxTime`, `Horizon` and `LastTime` the clocks, `MaxWait` the wait
for the advisory lock of Paperclip and `MaxBlocks` the events of one blocked
proposal; nothing else is capped: attempt counts, versions and histories are
bounded by the code itself.
In `orders` two targets with two keys give a race of two clients for the same
state, a second transition and the reuse of a key. In `gateway` the wrong amount
comes from an event or from the mapping, and `SweepLimit` is as large as the set
of receipts; see the divergences for what a full window does. In `governance` one
proposal is enough for grants since no property relates two proposals; the agents
and contents are there for envelopes that name others than the proposal, and the
instants for approvals and grants that run out. Five proposals at five instants,
each recorded up to one instant late, fill and leave a window of two more than
once. In `agent_kernel` the pairs of tools are those that write the same row; a
third kernel or a third task repeats one of the pairs. In `recommendations` three
invocations are needed: one that fails, one that cleans up or is refused, one that
must not be let through.
Symmetry is used only in runs without liveness properties. Every property has a
mutant of the code that violates it under the cfg of its run. The mutants stand
before the definitions they replace. `pod_settlement` checks no type invariant;
it is a part of what is proved about that module. `WellTyped` of `recommendations`
is the conjunction of the type invariants of its two parts.

## Fairness

- Tasks: the clock advances (leases lapse, backoffs elapse), a live worker takes
  its next step (handlers return or raise), and `run_tasks` is called again and
  again. Nothing in the repository schedules `run_tasks`: the deployment does.
  Crashes and enqueues are not owed.
- Requests and transactions: each takes its next step. Row locks are queued by
  PostgreSQL, so a waiter is not passed over for ever: strong fairness of
  `LockOrder`.
- Gateway: the sweep runs again and again with receipts old enough, and workers
  complete re-drive tasks. Events, mappings and refund decisions are not owed.
- Agent kernels: a kernel ticks again and again (`start_forever`) and a tick takes
  its next step. The call that persists a pause may fail often but not always:
  strong fairness of its success. Deaths, administrators and other parties are not
  owed.
- Paperclip, staging runs, reviews and the POD lifecycle: none. Nothing in them is
  owed: an executor or an invocation that died does not come back, an envelope
  that was lost is not signed again, and a review is read or decided when somebody
  does so.

## Proofs

Each theorem holds for all values of the constants that satisfy the assumptions
named in the module it is about. TLC evaluates these assumptions in every run.
Every safety property that a passing run checks is stated by a theorem, as it
stands or as the parts it is made of.

`DurableTasksProofs` proves, for all finite sets of tasks and workers, attempt
limits, batch sizes and numbers of crashes, from the assumptions declared in
`DurableTasks` (`MaxAttempts` and `ClaimLimit` are positive, `None` is neither a task
nor a worker, the sets are finite):

| Theorem | States |
|---|---|
| `TypeCorrect` | `TypeOK` always holds |
| `HandlerRunsAreBounded` | `HandlerRunsBounded`: handler calls are paid for by claims |
| `EvidenceIsExact` | `TerminalEvidence` |
| `SettlementIsFenced` | `FencedSettlement` |
| `SettledIsForever` | `SettledForever` |
| `QueueImplementsContract` | every behaviour satisfies `Contract!ContractSpec` |
| `DeliveredAtLeastOnce` | `AtLeastOnce`, of `EventOutbox` |
| `OutboxImplementsContract` | the same contract for the rows of `EventOutbox` |

The argument. `HandlerRunsBounded` is not about handler calls alone: it charges a
task with the calls made and with the workers that still hold it in `todo`, since
an old holder may call the handler at any later time. A claim adds one to the
attempt count and at most one holder; a call turns a holder into a run; a crash
or an abort only removes holders. `TerminalEvidence` needs that a worker about to
report has called the handler of its task (`WorkerOK`); otherwise a row could
succeed unhandled. The conjunction of these with `TypeOK` is inductive. The two
action properties follow from the guards of the actions under that invariant,
and the refinement maps a claim of a batch to one `Try` of all its tasks, a
completion or a terminal failure to `Settle`, and everything else to a stutter.
For the outbox, `OutboxIsQueue` shows that every behaviour of `OutboxSpec` is one of
the queue, so that the bound on handler calls holds there too; a delivery is one of
these calls, and a publisher about to complete an event has delivered it.

`PaperclipProofs` proves, for all sets of agents, contents and sessions, all
finite sets of keys, all limits, windows and lifetimes, from the assumptions
declared in `Paperclip` (`NumberAssumption`: numbers are natural, `LoopLimit` is
positive; `KeyAssumption`: keys are finite; `InputAssumption`: reported statuses
are statuses; `NoneAssumption`: `None` is not a grant):

| Theorem | States |
|---|---|
| `TypeCorrect` | `TypeOK` always holds |
| `ExecutionIsApproved` | `ExecutedAsApproved` |
| `ExecutionIsOnce` | `ExecutedOnce` |
| `GrantsAreUsedOnce` | `GrantsAreOneShot` |
| `GuardIsTight` | `LoopGuardHolds` |

The argument. `ExecutedAsApproved` speaks of an executor at work, but the checks
were made when its grant was issued; `GrantSound` carries them: every grant has
the agent and content of its proposal, which is approved and not blocked, and
neither a proposal nor a decision is ever changed. With the comparison in
`consume_grant` that is inductive, whatever the envelope says. `ExecutedOnce` is
inductive with `TypeOK`: only an open grant is consumed, it never opens again,
and a session that finishes or dies leaves nothing behind it. For
`LoopGuardHolds` take a window that ends at `t` and the proposal that was
committed last: it started no later than `t`, so the rows of the window committed
before it all lie after its own `started - LoopWindow`, and the guard has counted
them, even if they carry later times than its own. Had they been
`LoopLimit - 1`, it would have been blocked.

`OrderApiProofs` proves, for any number of orders, keys, accounts, bodies and
sessions, from `TargetAssumption` (targets are statuses), `NoneAssumption` (`None`
is not a session) and `KeyAssumption` (no client can use the outbox key of an
order to come, as order ids are minted at random by the server):

| Theorem | States |
|---|---|
| `TypesHold` | `TypeOK` always holds |
| `HistoryIsOnePath` | `HistoryIsPath` |
| `KeysExecuteOnce` | `KeyExecutesOnce` |
| `SuccessIsTrue` | `AnswersAreTrue` |
| `IntakeIsWhole` | `IntakeComplete` |
| `NoLostUpdate` | `ChangesWereDecidedOn` |

The argument. What a session looked up before it held the lock may be stale, and
the proof never uses it: `transition_order()` tests the key again. What it compared
under the lock is not: `Holds` says that a session about to write has the row lock
and that status and version are still what it compared, because every other writer
of the order would need that lock, and an intake only writes orders that are
absent. So the step appended continues the path (`WriteKeeps`), at the index that
the request expected; that is why the position of a request in the history is its
`expected_version`, why `Executed` never changes again, and why an idempotency
record, written in the same step, stands for an executed request (`Recorded`). A
replay answers from such a record. Events and outbox rows are counted by the
version; a row of an order can only be of its intake or of one of its steps.

`DispatchProofs` proves, for any number of orders, offers, vehicles, drivers and
sessions, from `SuitableAssumption`, `TargetAssumption` and `NoneAssumption` (`None`
is no offer, vehicle, driver or offer row):

| Theorem | States |
|---|---|
| `TypeCorrect` | `TypeOK` always holds |
| `NobodyIsBookedTwice` | `NoDoubleBooking` |
| `AcceptanceIsWhole` | `AcceptanceIsAtomic` |
| `DispatchImplementsContract` | `ImplementsContract` |

The argument. An acceptance is checked in one step and committed in a later one,
so the invariant is about what lies between: an acceptance that has passed its
checks shares no order, vehicle or driver with an assignment or with another such
acceptance (`Booked`), because it has waited for the row lock of the order and for
uncommitted assignments of the same vehicle or driver; and its offer is still
pending (`Atomic`). An assignment, an accepted offer and the step to `assigned`
under the offer's own key are written together, which is all that
`AcceptanceIsAtomic` says; the contract implies it, so that no run checks it on its
own. That the version of an order is bounded (`TypeOK`) follows from the depth of
its status in the transition rules. For the refinement, the commit must be a step
of the contract on facts read earlier, some without a lock. An offer being created
has read a confirmed or later order and suitable parties; orders only go on and
suitability does not change (`Insertable`), so that the insert is a `Make`. An
acceptance about to commit still finds its offer open, its order confirmed and its
parties free. Everything else about requests, keys and blocks is a stutter.

`PodProofs` proves `SettlementIsExact` (`SettlementIffAccepted`) from the
`NoneAssumption` of `PodSettlement`, for any number of orders, documents and
sessions. A projection is inserted on what was read before; the invariant says that
a session past its read holds the lock of its order, and that one about to insert decides a document
that is not yet decided, of an order without projection (`Transaction`). A decision
becomes visible only with its commit, when the projection is there, and a document
has one session that decides it (`OneDecision`). It also proves `LifecycleInOrder`:
for any number of clients of `PodLifecycle` acting on whatever they read earlier, a
stored status moves only to the next one of the lifecycle. The condition of the
PATCH alone makes it so; the lost answers do not matter.

`AgentKernelProofs` proves, for any finite numbers of kernels and tasks, any
batches, budget, guardian limits and number of aborted ticks, from
`KernelAssumption` and the assumptions of `AgentTools`:

| Theorem | States |
|---|---|
| `TypeCorrect` | `TypeOK` always holds |
| `TicksAreExclusive` | `OneTickPerTask` |
| `AttemptsCount` | `AttemptsAreCounted` |
| `RowsAreTrue` | `RowsTellTheTruth` |
| `OverspendingIsBounded` | `OvershootIsBounded` |
| `TasksKeepTheContract` | every step is a step of `TaskContract` on the tasks, or leaves them alone |

The argument. There is no lease to argue with: the invariant says that a held
task is claimed (`Standing`) and held once (`Apart`), and a claim takes only queued
tasks. A claimed task whose tool was not called yet has fewer calls than claims,
which is what the next call uses up. For the rows, what matters is what a tool has
still to do (`Ready`): a transition that puts an order on the road comes after the
assignment of its provider, and the bookkeeping of a send after its delivery.
`assign_order_provider` overwrites a provider but never takes one away, so that it
does not matter who else works on the order; only the first mark of a notification
as sent is followed by a log entry, so that interleaved senders log it once
(`LogsOnce`). For the budget, each tick owes the units of the tasks that it still
holds (`Owing`); what was spent and what all ticks owe was below the budget plus one
batch per kernel when the last of them claimed, and the two grow together no
further (`Affordable`). The sum over the kernels is a fold over a set. That it grows
with its terms would be an induction over the set; it is proved instead with a
smallest subset on which it fails (`SmallestSubset`, from the library's `WFMin`).
The tasks keep the contract of the durable queue, though their claims carry no
lease: a report is about a task that its tick has claimed and counted, and nothing
ever queues a settled task again.

`RecommendationsProofs` proves, for `StagingRun`, `TypeCorrect` (`TypeOK`),
`CircuitLatches` (`LatchHolds`) and `GrantsPayOnce` (`OneCallPerGrant`) from
`StagingAssumption`, for any number of invocations, grants and mishaps and any even
timeout. For the latch: an invocation that was let through and has not ended cleanly
has left a file of the circuit in `dir \cap disk`, which no crash can take away
(`CircuitInv`); every step that removes a file comes after the synchronization of
the one that replaces it. For the grant: the claim file is on disk before anything else happens (`GrantInv`), nobody removes
it, and the timers end the request in the half of the timeout that ends before the
grant does.

For `Reviews` it proves `DecisionsAreFinal` (`DecisionsStand`), and for both parts
`ServiceTypeCorrect` (`WellTyped`), from the `ReviewsAssumption` of
`RecommendationService`: `None` is no row of the store, and times are numbers. A
creation that returns from its await writes its record only if its id is still new, so
that it cannot undo a decision taken meanwhile (`CreatedStep`). A read may turn a
pending record into an expired one but no decided record into anything
(`ReadIsARecord`). `ReviewInv` ties each record to the creation it stems from, and each
submission key to the decision of the record it names.

`GatewayFinanceProofs` proves, for any number of events, references, orders,
amounts, refunds, gateway refunds and accounts, from the assumptions declared in
`GatewayFinance` (`ContentAssumption`: what an event can say; `AmountAssumption`:
amounts are positive; `AdminAssumption`, `SweepAssumption`; `NoneAssumption`: `None` is
no row):

| Theorem | States |
|---|---|
| `TypeCorrect` | `TypeOK` always holds |
| `MoneyHasEvidence` | `ProjectionsAreBacked` |
| `CapturesAreInvoicedOnce` | `OneInvoicePerCapture` |
| `RefundsNeedApproval` | `RefundsAreApproved` |
| `NoEventIsLost` | `NothingIsSilent` |

The argument. An event may come before the mapping it needs and be taken up again
by a re-drive at any later time, so no step can be judged by what was known when
the event arrived. The invariant says what the tables prove at present
(`EvidenceHolds`): a gateway event or projection stands for an event whose content
agrees with the mapping or the executed refund that it names (`Proves`). It is
inductive because evidence never goes away: a mapping is never changed once written
and no order has two (`MappingsAreUnique`), and a refund goes from requested through
approved to executed with its approver, its amount and its gateway id fixed
(`ApprovalsHold`). What an event proves is unique (`ProofIsUnique`), and the
conversion to major units and back loses nothing, so that a captured order has one
amount to be invoiced. `NothingIsSilent` holds with it because each way out of the
handler that records no gateway event records an exception, and the event of a
re-drive is one that has a receipt (`TasksHaveReceipts`).

Only model-checked: the liveness properties (`StaleLeaseRecovered`,
`EveryRequestAnswered`, `LateMappingRepaired`, `EveryTransactionEnds`,
`ExhaustedIsPaused`). They rest on fairness, which is beyond this prover, as is
`ENABLED`. `TasksKeepTheContract`, `SettledIsForever`, `AcceptanceIsWhole` and
`LifecycleInOrder` are proved without a run of their own.

## Where the code and its documents disagree

Checked by a run (see `findings`):

- A lost lease aborts the worker's batch; a task in its last attempt is then
  stuck, without dead letter or exception (`task_batch_abort`). A worker that
  dies in the last attempt leaves the same state: `claim_durable_tasks` requires
  `attempt_count < max_attempts`, and only the lease holder can fail a row.
- Documents are not checked again at acceptance (`dispatch_documents`).
- `advance_status` of the POD lifecycle reports success for every PATCH that was
  accepted, also when another client had moved the row before and none matched
  (`pod_lifecycle`): with `return=minimal` the answer is 204 in both cases, and the
  branch that would look at the rows is never reached (`pod_lifecycle.py:121`).
- Every task of a default tool fails: the executor calls `dict()` on a
  `HandlerResult` (`agent_success`, `executor.py:74`). The effects of the tool
  have happened, and are repeated with each attempt.

Seen while modelling, visible in the models, without a run of their own:

- A replayed transition is answered with the present state of the order, not with
  the original response: the look-up joins the record with `orders`
  (`repositories.py:375`; `docs/API-RELIABILITY-SECURITY.md:62`).
- A block that commits while an acceptance is in flight raises no exception for
  the new trip: the two lock no common row (`0004_controls.up.sql:277`;
  `docs/DECISIONS.md:557`).
- Of two identical transition requests in flight, the second one is refused with a
  conflict although the request took effect: the idempotency record is not read
  again under the lock (`repositories.py:379-399`).
- Receipts that never get a gateway event keep their place among the 100 oldest
  that the sweep selects; when there are 100 of them, younger ones are never
  enqueued (`repositories_finance.py:521-538`).
- All re-driven receipts share the outbox key `outbox:razorpay:`; only the first
  one gets its outbox row (`repositories_finance.py:498`). Their evidence hash is
  a constant (`:506`).
- The key of an `order_intake` task is unique per platform, that of the intake
  record per account: a key shared by two accounts is answered with 500
  (`repositories.py:272`).
- Approval, budget, locks and invariants are checked when a grant is issued and not
  again when it is consumed, up to five minutes later
  (`0001_governance.up.sql:400`; compare `docs/DECISIONS.md:681`).
- An attempt reported under the payload hash before the consumption makes the
  consumption fail for ever: it inserts the same key
  (`0001_governance.up.sql:414`).
- A lost grant envelope is never signed again: the second request for it is denied
  (`routes_paperclip.py:279`), so the approved action cannot be executed.
- The refunds of one order are not added up against what was captured
  (`repositories_finance.py:751`), and a second upload with a known object key
  answers with the existing document, whatever its order (`:608`).
- Younger outbox events of an order are published before an older one that backs
  off (`0005_core_runtime.up.sql:123`).
- A replayed intake answers with the original pending order (`repositories.py`),
  however far the order has come.
- An agent that is paused or runs out of budget during a tick finishes its batch.
  Nothing gives back the tasks of a kernel that died.
- `assign_order_provider` overwrites a provider whatever state the order is in, and
  `match_nearby_drivers` calls a PostGIS function that does not exist.
- Tasks for `razorpay_<event>` types have no tool and end as dead. A captured
  payment only moves its order to `inventory_confirmed`.
- `APPROVED_STAGING_GRANTS` is empty at this commit, so that every staging run is
  denied; the model has grants for when there are some. The circuit's lock refuses
  instead of waiting: an invocation that is itself about to be denied holds it for
  a moment, and a clean run that finishes at that moment fails and blocks the
  circuit.
- `requires_paperclip` of a POD transition is enforced nowhere, and a missing or
  unknown `pod_status` is read as `POD_UPLOADED`.
- Each evaluation of the loop guard for a blocked proposal adds one more event.

## Not modelled

- Stateless code: authentication, redaction, configuration, request parsing,
  signature checks. Their outcomes appear as guards (`member`) or are assumed.
- Tenancy: every statement is scoped to one platform; the models are one platform.
- Expiry of idempotency records: no code deletes or ignores expired ones.
- References of the removed Odoo sync (`lock_financial_request`,
  `record_partner_reference`, `record_move_reference`).
- In Paperclip: the audit and outbox rows, which no decision reads.
- In the agent workers: OCR, telemetry and the Odoo client, which change no row of
  the models, and the HTTP and JSON layer of the provider request, which is one
  outcome out of nine.
- Eligibility details of dispatch, pricing, portals, the rest of the Supabase
  schema (nothing in the repository drives it), the Xano prototype and scripts.

## Plan

1. Core (done): queue, outbox, orders, dispatch, payments, refunds, POD.
2. Paperclip governance (done): proposals, locks, decisions, one-time grants and
   the executor's two transactions, budgets, heartbeats and the loop guard.
3. Agent workers (done): the kernel with its tools, the staging run with the
   provider circuit, the reviews; the POD lifecycle store.
4. Proofs (done): every safety property of the passing runs, and the refinements of
   the queue's and of the dispatch contract.
5. Left: the operational event log, whose aggregate versions are computed without
   a lock, for all writers at once; POD decisions composed with the task queue.
6. Left: contracts for payments and refunds and for the grants of Paperclip, of the
   kind that the queue and dispatch have.
