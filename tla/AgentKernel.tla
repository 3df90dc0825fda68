----------------------------- MODULE AgentKernel ----------------------------
(***************************************************************************)
(* Heartbeat ticks of the agent workers: agent_registry and agent_tasks,   *)
(* run_one_tick() of several kernels that serve one agent, the executor    *)
(* and its LoopGuardian, which lives for one tick.  Every remote call may  *)
(* raise, with or without its effect; inside a tool the executor turns     *)
(* that into a failed task, elsewhere it ends the tick and the rest of the *)
(* batch stays claimed.                                                    *)
(***************************************************************************)
EXTENDS AgentTools, Functions

CONSTANTS Task,             \* numbered in the order of priority and created_at
          Worker,
          MaxAttempts,      \* agent_tasks.max_attempts
          ClaimLimit,       \* claim_batch_size of each worker
          Budget,           \* daily_budget_usd_cents
          MaxCalls,         \* max_tool_calls_per_tick
          RepeatThreshold,  \* LoopGuardian.max_repeat_threshold
          MaxAborts         \* bound: ticks that end early

ASSUME KernelAssumption ==
    /\ {MaxAttempts, Budget, MaxCalls, RepeatThreshold} \subseteq Nat \ {0}
    /\ Task \subseteq Nat /\ None \notin Task /\ IsFiniteSet(Task) /\ IsFiniteSet(Worker)
    /\ ClaimLimit \in [Worker -> Nat \ {0}]
    /\ MaxAborts \in Nat

VARIABLES
    job,       \* what each task asks for; never changes
    wiring,    \* the tools: "default" or "injected"; never changes
    registry,  \* agent_registry row: status and budget_spent_cents
    task,      \* agent_tasks: status and attempts
    pc,        \* worker: "idle", "pick", "tool", "complete", "fail", "spend", "pause"
    batch,     \* worker: claimed tasks it has not yet taken up
    cur,       \* worker: the task in work, or None
    todo,      \* worker: the calls its tool has left
    calls,     \* worker: tool calls of this tick
    seen,      \* worker: tasks admitted or refused in this tick, per job
    said,      \* worker: the tool has answered that it succeeded
    runs,      \* task: how often its tool was called
    aborts

tickVars == <<pc, batch, cur, todo, calls, seen, said>>
vars == <<toolVars, job, wiring, registry, task, tickVars, runs, aborts>>

Init ==
    /\ ToolsInit
    /\ job \in [Task -> Job]
    /\ wiring \in {"default", "injected"}
    /\ registry = [status |-> "running", spent |-> 0]
    /\ \E ts \in SUBSET Task :  \* the other tasks are behind us
          task = [t \in Task |-> IF t \in ts THEN [status |-> "queued", attempts |-> 0]
                                ELSE [status |-> "done", attempts |-> 1]]
    /\ pc = [w \in Worker |-> "idle"]
    /\ batch = [w \in Worker |-> {}]
    /\ cur = [w \in Worker |-> None]
    /\ todo = [w \in Worker |-> << >>]
    /\ calls = [w \in Worker |-> 0]
    /\ seen = [w \in Worker |-> {}]
    /\ said = [w \in Worker |-> FALSE]
    /\ runs = [t \in Task |-> 0]
    /\ aborts = 0

Goto(w, l) == pc' = [pc EXCEPT ![w] = l]

----------------------------------------------------------------------------
(* Claiming.                                                               *)

\* Mutant: a claim also takes tasks that are claimed already.
ClaimableOrClaimed == {t \in Task : task[t].status \in {"queued", "claimed"}}
Claimable == {t \in Task : task[t].status = "queued"}

\* Mutant: the comparison lets an agent start that has spent its budget.
FundedToTheCent == registry.spent <= Budget
Funded == registry.spent < Budget

\* Mutant: a task that is claimed again is not counted again.
CountedOnce(t) == IF task[t].attempts = 0 THEN 1 ELSE task[t].attempts
Counted(t) == task[t].attempts + 1

\* claim_agent_tasks: a running, funded agent gets the first ClaimLimit queued
\* tasks; the guardian of the tick is new.
claim_agent_tasks(w) ==
    /\ pc[w] = "idle" /\ registry.status = "running" /\ Funded
    /\ \E ts \in SUBSET Claimable :
          /\ ts # {} /\ Cardinality(ts) <= ClaimLimit[w]
          /\ ts = Claimable \/ Cardinality(ts) = ClaimLimit[w]
          /\ \A t \in ts, u \in Claimable \ ts : t < u
          /\ task' = [t \in Task |-> IF t \in ts THEN [status |-> "claimed", attempts |-> Counted(t)]
                                    ELSE task[t]]
          /\ batch' = [batch EXCEPT ![w] = ts]
    /\ Goto(w, "pick")
    /\ UNCHANGED <<toolVars, job, wiring, registry, cur, todo, calls, seen, said, runs, aborts>>

\* AGENT_BUDGET_EXHAUSTED: the pause that the claim itself has written is
\* rolled back by the exception, and the kernel has to repeat it.
ClaimRefused(w) ==
    /\ pc[w] = "idle" /\ registry.status = "running" /\ ~Funded
    /\ Goto(w, "pause")
    /\ UNCHANGED <<toolVars, job, wiring, registry, task, batch, cur, todo, calls, seen, said,
                   runs, aborts>>

\* Mutant: the kernel relies on the pause inside the claim.
PauseRolledBack(w) ==
    /\ pc[w] = "pause"
    /\ Goto(w, "idle")
    /\ UNCHANGED registry

PersistPause(w) ==
    /\ pc[w] = "pause"
    /\ Goto(w, "idle")
    /\ registry' = [registry EXCEPT !.status = "paused"]

\* set_status raises; the exception is dropped.
PauseIsLost(w) ==
    /\ pc[w] = "pause"
    /\ Goto(w, "idle")
    /\ UNCHANGED registry

\* An administrator pauses, blocks or resumes the agent.
set_agent_status(s) ==
    /\ registry.status # s
    /\ registry' = [registry EXCEPT !.status = s]
    /\ UNCHANGED <<toolVars, job, wiring, task, tickVars, runs, aborts>>

----------------------------------------------------------------------------
(* One task of the batch.                                                  *)

SeenBefore(w, t) == Cardinality({u \in seen[w] : job[u] = job[t]})

\* LoopGuardian.admit, as the executor calls it.
Admitted(w, t) ==
    /\ calls[w] < MaxCalls
    /\ SeenBefore(w, t) + 1 <= RepeatThreshold

\* A task without a tool fails as no_handler; one that the guardian refuses
\* fails as FAILED or BLOCKED.  Only the repetition counter notes a refusal.
Pick(w, t) ==
    LET known == wiring = "injected" \/ job[t].tool \in DefaultTools
    IN  /\ pc[w] = "pick" /\ t \in batch[w]
        /\ batch' = [batch EXCEPT ![w] = @ \ {t}]
        /\ cur' = [cur EXCEPT ![w] = t]
        /\ \/ /\ known /\ Admitted(w, t)
              /\ Goto(w, "tool")
              /\ calls' = [calls EXCEPT ![w] = @ + 1]
              /\ todo' = [todo EXCEPT ![w] = IF wiring = "default" THEN Plan(job[t]) ELSE << >>]
              /\ runs' = [runs EXCEPT ![t] = @ + 1]
           \/ /\ ~(known /\ Admitted(w, t))
              /\ Goto(w, "fail")
              /\ UNCHANGED <<calls, todo, runs>>
        /\ seen' = [seen EXCEPT ![w] = IF known /\ calls[w] < MaxCalls THEN @ \cup {t} ELSE @]
        /\ UNCHANGED <<toolVars, job, wiring, registry, task, said, aborts>>

\* What a tool may have left to do after a call.
Left(w) ==
    {Tail(todo[w]), << >>, <<Decline>>}
      \cup UNION {{<<MarkSent(n), Log(n)>>, <<MarkFailed(n), Decline>>} : n \in Notification}
      \cup {AssignThenAdvance(o, d) : o \in Order, d \in Driver}

Calling(w) == pc[w] = "tool" /\ todo[w] # << >> /\ Head(todo[w]) # Decline

\* A call of a default tool is answered.
ToolCall(w) ==
    /\ Calling(w)
    /\ \E left \in Left(w) : /\ Answered(Head(todo[w]), Tail(todo[w]), left)
                            /\ todo' = [todo EXCEPT ![w] = left]
    /\ UNCHANGED <<job, wiring, registry, task, pc, batch, cur, calls, seen, said, runs, aborts>>

\* A call raises: refused by the database, lost on the way there, or answered
\* too late although it took effect.
ToolRaises(w) ==
    /\ Calling(w)
    /\ \/ UNCHANGED toolVars
       \/ \E left \in Left(w) : Answered(Head(todo[w]), Tail(todo[w]), left)
    /\ todo' = [todo EXCEPT ![w] = << >>]
    /\ Goto(w, "fail")
    /\ UNCHANGED <<job, wiring, registry, task, batch, cur, calls, seen, said, runs, aborts>>

\* A default tool answers with a HandlerResult, which dict() cannot convert:
\* the TypeError makes the task FAILED, whatever the tool has done.
ToolAnswers(w) ==
    /\ pc[w] = "tool" /\ todo[w] \in {<< >>, <<Decline>>} /\ wiring = "default"
    /\ said' = [said EXCEPT ![w] = todo[w] = << >>]
    /\ todo' = [todo EXCEPT ![w] = << >>]
    /\ Goto(w, "fail")
    /\ UNCHANGED <<toolVars, job, wiring, registry, task, batch, cur, calls, seen, runs, aborts>>

\* An injected tool returns a mapping that is clean or not, or raises.
InjectedToolAnswers(w) ==
    /\ pc[w] = "tool" /\ wiring = "injected"
    /\ \E clean \in BOOLEAN :
          /\ Goto(w, IF clean THEN "complete" ELSE "fail")
          /\ said' = [said EXCEPT ![w] = clean]
    /\ UNCHANGED <<toolVars, job, wiring, registry, task, batch, cur, todo, calls, seen, runs, aborts>>

\* The next task, or, with the last one, the heartbeat and the end of the tick,
\* whose guardian is dropped.
NextTask(w) ==
    LET over == batch[w] = {}
    IN  /\ Goto(w, IF over THEN "idle" ELSE "pick")
        /\ cur' = [cur EXCEPT ![w] = None]
        /\ said' = [said EXCEPT ![w] = FALSE]
        /\ calls' = [calls EXCEPT ![w] = IF over THEN 0 ELSE @]
        /\ seen' = [seen EXCEPT ![w] = IF over THEN {} ELSE @]

complete_agent_task(w) ==
    /\ pc[w] = "complete" /\ task[cur[w]].status = "claimed"
    /\ task' = [task EXCEPT ![cur[w]].status = "done"]
    /\ Goto(w, "spend")
    /\ UNCHANGED <<toolVars, job, wiring, registry, batch, cur, todo, calls, seen, said, runs, aborts>>

record_agent_spend(w) ==
    /\ pc[w] = "spend"
    /\ registry' = [registry EXCEPT !.spent = @ + 1]
    /\ NextTask(w)
    /\ UNCHANGED <<toolVars, job, wiring, task, batch, todo, runs, aborts>>

\* Mutant: one attempt more than the limit.
ExhaustedLate(t) == task[t].attempts > MaxAttempts
Exhausted(t) == task[t].attempts >= MaxAttempts

fail_agent_task(w) ==
    /\ pc[w] = "fail" /\ task[cur[w]].status = "claimed"
    /\ task' = [task EXCEPT ![cur[w]].status = IF Exhausted(cur[w]) THEN "dead" ELSE "queued"]
    /\ NextTask(w)
    /\ UNCHANGED <<toolVars, job, wiring, registry, batch, todo, runs, aborts>>

\* The worker dies, or a call of the kernel raises before its effect or after
\* it (the next step was still to come): nothing gives the tasks back.
TickAborts(w) ==
    /\ pc[w] # "idle" /\ aborts < MaxAborts
    /\ aborts' = aborts + 1
    /\ Goto(w, "idle")
    /\ batch' = [batch EXCEPT ![w] = {}]
    /\ cur' = [cur EXCEPT ![w] = None]
    /\ todo' = [todo EXCEPT ![w] = << >>]
    /\ calls' = [calls EXCEPT ![w] = 0]
    /\ seen' = [seen EXCEPT ![w] = {}]
    /\ said' = [said EXCEPT ![w] = FALSE]
    /\ UNCHANGED <<toolVars, job, wiring, registry, task, runs>>

----------------------------------------------------------------------------

Pausing(w) ==
    /\ PersistPause(w) \/ PauseIsLost(w)
    /\ UNCHANGED <<toolVars, job, wiring, task, batch, cur, todo, calls, seen, said, runs, aborts>>

Tick(w) ==
    \/ claim_agent_tasks(w) \/ ClaimRefused(w)
    \/ \E t \in Task : Pick(w, t)
    \/ ToolCall(w) \/ ToolRaises(w) \/ ToolAnswers(w) \/ InjectedToolAnswers(w)
    \/ complete_agent_task(w) \/ record_agent_spend(w) \/ fail_agent_task(w)

Next ==
    \/ \E w \in Worker : Tick(w) \/ Pausing(w) \/ TickAborts(w)
    \/ \E s \in {"running", "paused", "blocked"} : set_agent_status(s)
    \/ /\ Environment
       /\ UNCHANGED <<job, wiring, registry, task, tickVars, runs, aborts>>

Spec == Init /\ [][Next]_vars

\* start_forever ticks again and again; set_status may fail often, not always.
Pauses(w) ==
    /\ PersistPause(w)
    /\ UNCHANGED <<toolVars, job, wiring, task, batch, cur, todo, calls, seen, said, runs, aborts>>
Fairness == \A w \in Worker : WF_vars(Tick(w)) /\ SF_vars(Pauses(w)) /\ WF_vars(Pausing(w))

FairSpec == Spec /\ Fairness

----------------------------------------------------------------------------
(* Properties.                                                             *)

Held(w) == batch[w] \cup ({cur[w]} \ {None})

TypeOK ==
    /\ ToolsTypeOK
    /\ job \in [Task -> Job] /\ wiring \in {"default", "injected"}
    /\ registry \in [status : {"running", "paused", "blocked"}, spent : Nat]
    /\ task \in [Task -> [status : {"queued", "claimed", "done", "dead"},
                          attempts : 0..MaxAttempts]]
    /\ pc \in [Worker -> {"idle", "pick", "tool", "complete", "fail", "spend", "pause"}]
    /\ batch \in [Worker -> SUBSET Task]
    /\ cur \in [Worker -> Task \cup {None}]
    /\ calls \in [Worker -> 0..MaxCalls]
    /\ seen \in [Worker -> SUBSET Task]
    /\ said \in [Worker -> BOOLEAN]
    /\ runs \in [Task -> 0..MaxAttempts]
    /\ aborts \in 0..MaxAborts

\* Without leases: no two ticks ever have the same task, and a task that a
\* tick will still report on is claimed, so that reporting never raises.
OneTickPerTask ==
    /\ \A v, w \in Worker : v # w => Held(v) \cap Held(w) = {}
    /\ \A w \in Worker : \A t \in Held(w) :
          task[t].status = "claimed" \/ (t = cur[w] /\ pc[w] = "spend")

\* A tool is never called for a task more often than the task was claimed, and
\* no task is offered again, or given up, before or after its last attempt.
AttemptsAreCounted ==
    \A t \in Task :
        /\ runs[t] <= task[t].attempts
        /\ task[t].status = "queued" => task[t].attempts < MaxAttempts
        /\ task[t].status = "dead" => task[t].attempts = MaxAttempts

\* The budget is checked once per tick and spent once per task: it can be
\* exceeded, but by less than one batch of every kernel.
OvershootIsBounded ==
    registry.spent < Budget + FoldFunction(+, 0, ClaimLimit)

\* An agent that has used up its budget is paused in the registry, although
\* the claim cannot write that and set_status may fail.
ExhaustedIsPaused == ~Funded ~> registry.status # "running"

\* What the handlers document: "we treat 'payment_succeeded already' as
\* success".  A tool that has answered so is not reported as failed.
SuccessCompletes == \A w \in Worker : said[w] => pc[w] # "fail"

=============================================================================
