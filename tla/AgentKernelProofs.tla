-------------------------- MODULE AgentKernelProofs -------------------------
(***************************************************************************)
(* Proofs about AgentKernel and AgentTools: without leases, for any number *)
(* of kernels, no task is in two ticks, attempts count the calls of its    *)
(* tool, the rows that tools write never claim more than happened, and the *)
(* budget is exceeded by less than one batch of each kernel.               *)
(***************************************************************************)
EXTENDS AgentKernel, SequenceTheorems, FiniteSetTheorems, TLAPS

Types ==
    /\ task \in [Task -> [status : {"queued", "claimed", "done", "dead"},
                          attempts : 0..MaxAttempts]]
    /\ pc \in [Worker -> {"idle", "pick", "tool", "complete", "fail", "spend", "pause"}]
    /\ batch \in [Worker -> SUBSET Task]
    /\ cur \in [Worker -> Task \cup {None}]
    /\ runs \in [Task -> Nat]

InHand == {"tool", "complete", "fail", "spend"}

\* Where a kernel stands tells what it holds and what became of that.
Standing(w) ==
    /\ cur[w] # None <=> pc[w] \in InHand
    /\ pc[w] \in {"idle", "pause"} => batch[w] = {}
    /\ cur[w] \notin batch[w]
    /\ \A t \in batch[w] : task[t].status = "claimed" /\ runs[t] < task[t].attempts
    /\ cur[w] # None =>
          task[cur[w]].status = IF pc[w] = "spend" THEN "done" ELSE "claimed"

\* Two kernels share no task.
Apart ==
    \A v, w \in Worker : v # w =>
        /\ batch[v] \cap batch[w] = {}
        /\ cur[v] \notin batch[w]
        /\ cur[v] = cur[w] => cur[v] = None

KernelInv == Types /\ (\A w \in Worker : Standing(w)) /\ Apart /\ AttemptsAreCounted

\* A step of one kernel that keeps or drops what it holds, and neither a task
\* nor a count of another one.
LEMMA OwnStep ==
    ASSUME KernelInv, NEW w \in Worker, Types', Standing(w)', AttemptsAreCounted',
           batch'[w] \subseteq batch[w],
           cur'[w] \in {cur[w], None} \cup batch[w],
           \A v \in Worker \ {w} : UNCHANGED <<pc[v], batch[v], cur[v]>>,
           \A t \in Task : t \notin batch[w] /\ t # cur[w] => UNCHANGED <<task[t], runs[t]>>
    PROVE  KernelInv'
<1>1. ASSUME NEW v \in Worker \ {w} PROVE Standing(v)'
    <2>1. \A t \in batch[v] : t \notin batch[w] /\ t # cur[w] /\ t \in Task
        BY DEF KernelInv, Apart, Types
    <2>2. cur[v] # None => cur[v] \notin batch[w] /\ cur[v] # cur[w] /\ cur[v] \in Task
        BY DEF KernelInv, Apart, Types
    <2>. QED BY <2>1, <2>2 DEF KernelInv, Standing
<1>2. ASSUME NEW v \in Worker, NEW u \in Worker, v # u
      PROVE  /\ batch'[v] \cap batch'[u] = {}
             /\ cur'[v] \notin batch'[u]
             /\ cur'[v] = cur'[u] => cur'[v] = None
    <2>1. /\ batch'[v] \subseteq batch[v] /\ cur'[v] \in {cur[v], None} \cup batch[v]
          /\ batch'[u] \subseteq batch[u] /\ cur'[u] \in {cur[u], None} \cup batch[u]
        OBVIOUS
    <2>2. /\ batch[v] \cap batch[u] = {} /\ cur[v] \notin batch[u] /\ cur[u] \notin batch[v]
          /\ cur[v] = cur[u] => cur[v] = None
        BY <1>2 DEF KernelInv, Apart
    <2>3. None \notin batch[u]
        BY KernelAssumption DEF KernelInv, Types
    <2>. QED BY <2>1, <2>2, <2>3
<1>. QED BY <1>1, <1>2 DEF KernelInv, Apart

LEMMA KernelStep == ASSUME KernelInv, [Next]_vars PROVE KernelInv'
<1>. USE KernelAssumption DEF Goto, InHand
<1>1. CASE UNCHANGED <<task, pc, batch, cur, runs>>
    BY <1>1 DEF KernelInv, Types, Standing, Apart, AttemptsAreCounted
<1>2. ASSUME NEW w \in Worker, claim_agent_tasks(w) PROVE KernelInv'
    <2>1. PICK ts \in SUBSET Claimable :
              /\ task' = [t \in Task |-> IF t \in ts
                                         THEN [status |-> "claimed", attempts |-> Counted(t)]
                                         ELSE task[t]]
              /\ batch' = [batch EXCEPT ![w] = ts]
        BY <1>2 DEF claim_agent_tasks
    <2>2. UNCHANGED <<cur, runs>> /\ pc[w] = "idle" /\ pc' = [pc EXCEPT ![w] = "pick"]
        BY <1>2 DEF claim_agent_tasks
    <2>3. \A t \in ts : /\ t \in Task /\ task[t].status = "queued"
                        /\ Counted(t) \in 1..MaxAttempts /\ runs[t] < Counted(t)
        BY DEF Claimable, Counted, KernelInv, Types, AttemptsAreCounted
    <2>4. Types'
        BY <2>1, <2>2, <2>3 DEF KernelInv, Types
    <2>5. AttemptsAreCounted'
        BY <2>1, <2>2, <2>3 DEF KernelInv, Types, AttemptsAreCounted
    <2>6. \A t \in Task : task[t].status # "queued" => task'[t] = task[t] /\ t \notin ts
        BY <2>1, <2>3
    <2>7. ASSUME NEW v \in Worker PROVE Standing(v)'
        <3>1. CASE v = w
            BY <2>1, <2>2, <2>3, <3>1 DEF KernelInv, Types, Standing
        <3>2. CASE v # w
            <4>1. UNCHANGED <<pc[v], batch[v], cur[v]>>
                BY <2>1, <2>2, <3>2 DEF KernelInv, Types
            <4>2. \A t \in batch[v] : t \in Task /\ task[t].status = "claimed"
                BY DEF KernelInv, Types, Standing
            <4>3. cur[v] # None => cur[v] \in Task /\ task[cur[v]].status # "queued"
                BY DEF KernelInv, Types, Standing
            <4>. QED BY <2>2, <2>6, <4>1, <4>2, <4>3 DEF KernelInv, Standing
        <3>. QED BY <3>1, <3>2
    <2>8. Apart'
        <3>1. ASSUME NEW v \in Worker PROVE batch[v] \cap ts = {} /\ cur[v] \notin ts
            <4>1. \A t \in batch[v] : task[t].status = "claimed"
                BY DEF KernelInv, Standing
            <4>2. cur[v] # None => task[cur[v]].status # "queued"
                BY DEF KernelInv, Standing
            <4>. QED BY <2>3, <4>1, <4>2
        <3>2. \A v \in Worker : v # w => batch'[v] = batch[v]
            BY <2>1 DEF KernelInv, Types
        <3>3. batch'[w] = ts /\ cur' = cur
            BY <2>1, <2>2 DEF KernelInv, Types
        <3>. QED BY <3>1, <3>2, <3>3 DEF KernelInv, Apart
    <2>. QED BY <2>4, <2>5, <2>7, <2>8 DEF KernelInv
<1>3. ASSUME NEW w \in Worker, ClaimRefused(w) \/ Pausing(w) PROVE KernelInv'
    BY <1>3
    DEF ClaimRefused, Pausing, PersistPause, PauseIsLost, KernelInv, Types, Standing, Apart,
        AttemptsAreCounted
<1>4. ASSUME NEW w \in Worker, NEW t \in Task, Pick(w, t) PROVE KernelInv'
    <2>1. /\ pc[w] = "pick" /\ t \in batch[w] /\ task' = task
          /\ batch' = [batch EXCEPT ![w] = @ \ {t}] /\ cur' = [cur EXCEPT ![w] = t]
          /\ pc' \in {[pc EXCEPT ![w] = "tool"], [pc EXCEPT ![w] = "fail"]}
          /\ runs' \in {runs, [runs EXCEPT ![t] = @ + 1]}
        BY <1>4 DEF Pick
    <2>2. Types'
        <3>1. task' \in [Task -> [status : {"queued", "claimed", "done", "dead"},
                                  attempts : 0..MaxAttempts]]
            BY <2>1 DEF KernelInv, Types
        <3>2. pc' \in [Worker -> {"idle", "pick", "tool", "complete", "fail", "spend", "pause"}]
            BY <2>1 DEF KernelInv, Types
        <3>3. batch' \in [Worker -> SUBSET Task] /\ cur' \in [Worker -> Task \cup {None}]
            BY <2>1 DEF KernelInv, Types
        <3>4. runs' \in [Task -> Nat]
            BY <2>1 DEF KernelInv, Types
        <3>. QED BY <3>1, <3>2, <3>3, <3>4 DEF Types
    <2>3. AttemptsAreCounted'
        BY <2>1 DEF KernelInv, Types, Standing, AttemptsAreCounted
    <2>4. Standing(w)'
        BY <2>1 DEF KernelInv, Types, Standing
    <2>5. /\ batch'[w] \subseteq batch[w] /\ cur'[w] \in batch[w]
          /\ \A v \in Worker \ {w} : UNCHANGED <<pc[v], batch[v], cur[v]>>
          /\ \A u \in Task : u \notin batch[w] /\ u # cur[w] => UNCHANGED <<task[u], runs[u]>>
        BY <2>1 DEF KernelInv, Types
    <2>. QED BY <2>2, <2>3, <2>4, <2>5, OwnStep
<1>5. ASSUME NEW w \in Worker, ToolCall(w) PROVE KernelInv'
    BY <1>1, <1>5 DEF ToolCall
<1>6. ASSUME NEW w \in Worker, ToolRaises(w) \/ ToolAnswers(w) \/ InjectedToolAnswers(w)
      PROVE  KernelInv'
    <2>1. /\ pc[w] = "tool" /\ UNCHANGED <<task, batch, cur, runs>>
          /\ pc' \in {[pc EXCEPT ![w] = "complete"], [pc EXCEPT ![w] = "fail"]}
        BY <1>6 DEF ToolRaises, Calling, ToolAnswers, InjectedToolAnswers
    <2>. QED BY <2>1 DEF KernelInv, Types, Standing, Apart, AttemptsAreCounted
<1>7. ASSUME NEW w \in Worker, complete_agent_task(w) PROVE KernelInv'
    <2>1. /\ pc[w] = "complete" /\ UNCHANGED <<batch, cur, runs>>
          /\ task[cur[w]].status = "claimed"
          /\ task' = [task EXCEPT ![cur[w]].status = "done"]
          /\ pc' = [pc EXCEPT ![w] = "spend"]
        BY <1>7 DEF complete_agent_task
    <2>2. cur[w] \in Task /\ cur[w] \notin batch[w]
        BY <2>1 DEF KernelInv, Types, Standing
    <2>3. Types'
        BY <2>1, <2>2 DEF KernelInv, Types
    <2>4. AttemptsAreCounted'
        BY <2>1, <2>2 DEF KernelInv, Types, AttemptsAreCounted
    <2>5. Standing(w)'
        BY <2>1, <2>2 DEF KernelInv, Types, Standing
    <2>6. /\ \A v \in Worker \ {w} : UNCHANGED <<pc[v], batch[v], cur[v]>>
          /\ \A u \in Task : u # cur[w] => UNCHANGED <<task[u], runs[u]>>
        BY <2>1, <2>2 DEF KernelInv, Types
    <2>. QED BY <2>1, <2>3, <2>4, <2>5, <2>6, OwnStep
<1>8. ASSUME NEW w \in Worker, record_agent_spend(w) PROVE KernelInv'
    <2>1. /\ pc[w] = "spend" /\ UNCHANGED <<task, batch, runs>>
          /\ pc' = [pc EXCEPT ![w] = IF batch[w] = {} THEN "idle" ELSE "pick"]
          /\ cur' = [cur EXCEPT ![w] = None]
        BY <1>8 DEF record_agent_spend, NextTask
    <2>. QED BY <2>1 DEF KernelInv, Types, Standing, Apart, AttemptsAreCounted
<1>9. ASSUME NEW w \in Worker, fail_agent_task(w) PROVE KernelInv'
    <2>1. /\ pc[w] = "fail" /\ UNCHANGED <<batch, runs>>
          /\ task[cur[w]].status = "claimed"
          /\ task' = [task EXCEPT ![cur[w]].status = IF Exhausted(cur[w]) THEN "dead" ELSE "queued"]
          /\ pc' = [pc EXCEPT ![w] = IF batch[w] = {} THEN "idle" ELSE "pick"]
          /\ cur' = [cur EXCEPT ![w] = None]
        BY <1>9 DEF fail_agent_task, NextTask
    <2>2. cur[w] \in Task /\ cur[w] \notin batch[w]
        BY <2>1 DEF KernelInv, Types, Standing
    <2>3. Types'
        BY <2>1, <2>2 DEF KernelInv, Types
    <2>4. AttemptsAreCounted'
        <3>1. ASSUME NEW t \in Task PROVE task'[t].attempts = task[t].attempts
            BY <2>1, <2>2 DEF KernelInv, Types
        <3>2. task[cur[w]].attempts \in 0..MaxAttempts /\ MaxAttempts \in Nat
            BY <2>2 DEF KernelInv, Types
        <3>3. /\ task'[cur[w]].status = "dead" => task[cur[w]].attempts = MaxAttempts
              /\ task'[cur[w]].status = "queued" => task[cur[w]].attempts < MaxAttempts
            <4>1. task'[cur[w]].status = IF Exhausted(cur[w]) THEN "dead" ELSE "queued"
                BY <2>1, <2>2 DEF KernelInv, Types
            <4>. QED BY <3>2, <4>1 DEF Exhausted
        <3>4. \A t \in Task : t # cur[w] => task'[t] = task[t]
            BY <2>1, <2>2 DEF KernelInv, Types
        <3>. QED BY <2>1, <3>1, <3>3, <3>4 DEF KernelInv, AttemptsAreCounted
    <2>5. Standing(w)'
        BY <2>1, <2>2 DEF KernelInv, Types, Standing
    <2>6. /\ \A v \in Worker \ {w} : UNCHANGED <<pc[v], batch[v], cur[v]>>
          /\ \A u \in Task : u # cur[w] => UNCHANGED <<task[u], runs[u]>>
          /\ batch'[w] = batch[w] /\ cur'[w] = None
        BY <2>1, <2>2 DEF KernelInv, Types
    <2>. QED BY <2>3, <2>4, <2>5, <2>6, OwnStep
<1>10. ASSUME NEW w \in Worker, TickAborts(w) PROVE KernelInv'
    <2>1. /\ UNCHANGED <<task, runs>>
          /\ pc' = [pc EXCEPT ![w] = "idle"]
          /\ batch' = [batch EXCEPT ![w] = {}] /\ cur' = [cur EXCEPT ![w] = None]
        BY <1>10 DEF TickAborts
    <2>. QED BY <2>1 DEF KernelInv, Types, Standing, Apart, AttemptsAreCounted
<1>11. CASE \/ \E s \in {"running", "paused", "blocked"} : set_agent_status(s)
            \/ Environment /\ UNCHANGED <<job, wiring, registry, task, tickVars, runs, aborts>>
            \/ UNCHANGED vars
    BY <1>1, <1>11 DEF set_agent_status, tickVars, vars
<1>. QED
    BY <1>2, <1>3, <1>4, <1>5, <1>6, <1>7, <1>8, <1>9, <1>10, <1>11 DEF Next, Tick

LEMMA KernelInvariant == Spec => []KernelInv
<1>1. Init => KernelInv
    BY KernelAssumption
    DEF Init, KernelInv, Types, Standing, Apart, AttemptsAreCounted, InHand
<1>. QED BY <1>1, KernelStep, PTL DEF Spec

\* A claimed task has no lease and needs none: for any number of kernels and
\* aborted ticks, no two ticks have it, and what a tick reports on is claimed.
THEOREM TicksAreExclusive == Spec => []OneTickPerTask
<1>1. KernelInv => OneTickPerTask
    BY KernelAssumption DEF KernelInv, Types, Standing, Apart, OneTickPerTask, Held, InHand
<1>. QED BY <1>1, KernelInvariant, PTL

\* A tool is called at most once per claim, a task is claimed at most
\* MaxAttempts times, and it is given up exactly then.
THEOREM AttemptsCount == Spec => []AttemptsAreCounted
<1>1. KernelInv => AttemptsAreCounted
    BY DEF KernelInv
<1>. QED BY <1>1, KernelInvariant, PTL

----------------------------------------------------------------------------
(* The tools and their rows: what a tool may have left to call.            *)

\* What a todo consists of, and what its first call can rely on.
Advances(s) ==
    \E o \in Order, to \in OrderState :
        /\ s = <<Transition(o, to)>>
        /\ to = "driver_assigned" => provider[o] # None
Quotes(s) ==
    \E o \in Order : \/ s = <<Quote(o), CheckPlan, Transition(o, "pending")>>
                     \/ s = <<CheckPlan, Transition(o, "pending")>>
Assigns(s) ==
    \E o \in Order : s = <<Match(o)>> \/ \E d \in Driver : s = AssignThenAdvance(o, d)
Uploads(s) ==
    \E o \in Order, d \in DocumentType :
        s = <<Upsert(o, d)>> \/ s = <<Upsert(o, d), Transition(o, "delivered")>>
Notifies(s) ==
    \E n \in Notification :
        \/ s = <<Send(n)>>
        \/ s = <<MarkSent(n), Log(n)>> /\ delivered[n] > 0
        \/ s = <<Log(n)>> /\ notice[n].status = "sent" /\ logged[n] = 0
        \/ s = <<MarkFailed(n), Decline>>
Ready(s) ==
    \/ s \in {<< >>, <<Decline>>} \/ Advances(s) \/ Quotes(s) \/ Assigns(s)
    \/ Uploads(s) \/ Notifies(s)

\* The call that logs a notification is the last one of a single tool.
LogsNext(s, n) == s # << >> /\ Head(s) = Log(n)
LogsOnce ==
    \A v, w \in Worker, n \in Notification :
        v # w => ~(LogsNext(todo[v], n) /\ LogsNext(todo[w], n))

ToolInv ==
    /\ ToolsTypeOK /\ RowsTellTheTruth /\ LogsOnce
    /\ job \in [Task -> Job] /\ wiring \in {"default", "injected"}
    /\ todo = [w \in Worker |-> todo[w]] /\ \A w \in Worker : Ready(todo[w])

\* Two calls in a row, as concatenation makes them.
LEMMA PairIsConcat == ASSUME NEW a, NEW b PROVE <<a>> \o <<b>> = <<a, b>>
<1> DEFINE S == {a, b}
           s == <<a>> \o <<b>>
<1>1. <<a>> \in Seq(S) /\ <<b>> \in Seq(S) /\ <<a, b>> \in Seq(S)
    OBVIOUS
<1>. HIDE DEF S
<1>2. s \in Seq(S) /\ Len(s) = 2 /\ s[1] = a /\ s[2] = b
    BY <1>1
<1>. HIDE DEF s
<1>3. Len(<<a, b>>) = 2 /\ <<a, b>>[1] = a /\ <<a, b>>[2] = b
    OBVIOUS
<1>4. \A i \in 1..Len(s) : s[i] = <<a, b>>[i]
    BY <1>2, <1>3
<1>. QED BY <1>1, <1>2, <1>3, <1>4, SeqEqual DEF s

\* The states of an order, by name.
LEMMA ChainStates ==
    OrderState = {"pending", "inventory_confirmed", "payment_succeeded", "driver_assigned",
                  "in_transit", "delivered", "payment_settled", "cancelled"}
<1>1. DOMAIN Chain = 1..7
    BY DEF Chain
<1>2. /\ Chain[1] = "pending" /\ Chain[2] = "inventory_confirmed"
      /\ Chain[3] = "payment_succeeded" /\ Chain[4] = "driver_assigned"
      /\ Chain[5] = "in_transit" /\ Chain[6] = "delivered" /\ Chain[7] = "payment_settled"
    BY DEF Chain
<1>3. \A i : i \in 1..7 <=> i \in {1, 2, 3, 4, 5, 6, 7}
    OBVIOUS
<1>. QED BY <1>1, <1>2, <1>3 DEF OrderState

\* What may come before the states on the road.
LEMMA RoadStates ==
    /\ \A s : <<s, "in_transit">> \in MayFollow => s = "driver_assigned"
    /\ \A s : <<s, "delivered">> \in MayFollow => s = "in_transit"
<1>1. /\ Len(Chain) - 1 = 6
      /\ Chain[1] = "pending" /\ Chain[2] = "inventory_confirmed"
      /\ Chain[3] = "payment_succeeded" /\ Chain[4] = "driver_assigned"
      /\ Chain[5] = "in_transit" /\ Chain[6] = "delivered" /\ Chain[7] = "payment_settled"
    BY DEF Chain
<1>2. ASSUME NEW s, NEW u, <<s, u>> \in MayFollow, u # "cancelled"
      PROVE  \E i \in 1..6 : s = Chain[i] /\ u = Chain[i + 1]
    BY <1>1, <1>2 DEF MayFollow
<1>3. \A i \in 1..6 : i = 1 \/ i = 2 \/ i = 3 \/ i = 4 \/ i = 5 \/ i = 6
    OBVIOUS
<1>4. ASSUME NEW s, NEW u, <<s, u>> \in MayFollow, u # "cancelled"
      PROVE  \/ s = Chain[1] /\ u = Chain[2]
             \/ s = Chain[2] /\ u = Chain[3]
             \/ s = Chain[3] /\ u = Chain[4]
             \/ s = Chain[4] /\ u = Chain[5]
             \/ s = Chain[5] /\ u = Chain[6]
             \/ s = Chain[6] /\ u = Chain[7]
    <2>1. PICK i \in 1..6 : s = Chain[i] /\ u = Chain[i + 1]
        BY <1>2, <1>4
    <2>. QED BY <1>3, <2>1
<1>. QED BY <1>1, <1>4

\* Every tool starts with calls that rely on nothing.
LEMMA PlanIsReady ==
    ASSUME NEW j \in Job, j.tool \in DefaultTools
    PROVE  Ready(Plan(j)) /\ \A n \in Notification : ~LogsNext(Plan(j), n)
<1>1. CASE j.tool = "process_payment_event"
    <2>1. j.order \in Order /\ Plan(j) \in {<< >>, <<Transition(j.order, "inventory_confirmed")>>}
        BY <1>1 DEF Plan, process_payment_event, Job
    <2>. QED BY <2>1, ChainStates DEF Ready, Advances, Transition, Log, LogsNext
<1>2. CASE j.tool = "process_document_upload"
    <2>1. j.order \in Order /\ j.type \in DocumentType
        BY <1>2 DEF Job
    <2>2. Plan(j) = process_document_upload(j)
        BY <1>2 DEF Plan
    <2>3. Plan(j) \in {<<Upsert(j.order, j.type)>>,
                       <<Upsert(j.order, j.type), Transition(j.order, "delivered")>>}
        <3>1. CASE j.type = "pod"
            BY <2>2, <3>1, PairIsConcat DEF process_document_upload
        <3>2. CASE j.type # "pod"
            BY <2>2, <3>2 DEF process_document_upload
        <3>. QED BY <3>1, <3>2
    <2>. QED BY <2>1, <2>3 DEF Ready, Uploads, Upsert, Log, LogsNext
<1>3. CASE j.tool = "process_notification_job"
    <2>1. j.notice \in Notification /\ Plan(j) = <<Send(j.notice)>>
        BY <1>3 DEF Job, Plan, process_notification_job
    <2>. QED BY <2>1 DEF Ready, Notifies, Send, Log, LogsNext
<1>4. CASE j.tool = "place_order"
    <2>1. /\ j.order \in Order
          /\ Plan(j) = <<Quote(j.order), CheckPlan, Transition(j.order, "pending")>>
        BY <1>4 DEF Job, Plan, place_order
    <2>. QED BY <2>1 DEF Ready, Quotes, Quote, Log, LogsNext
<1>5. CASE j.tool = "assign_driver"
    <2>1. j.order \in Order /\ Plan(j) = <<Match(j.order)>>
        BY <1>5 DEF Job, Plan, assign_driver
    <2>. QED BY <2>1 DEF Ready, Assigns, Match, Log, LogsNext
<1>6. CASE j.tool = "update_delivery_status"
    <2>1. /\ j.order \in Order
          /\ Plan(j) \in {<<Transition(j.order, "delivered")>>,
                         <<Transition(j.order, "in_transit")>>}
        BY <1>6 DEF Job, Plan, update_delivery_status
    <2>. QED BY <2>1, ChainStates DEF Ready, Advances, Transition, Log, LogsNext
<1>. QED BY <1>1, <1>2, <1>3, <1>4, <1>5, <1>6 DEF DefaultTools

\* The call at hand and what it leaves, by the kind of todo.
LEMMA Pending ==
    ASSUME NEW s, Ready(s), s # << >>, Head(s) # Decline
    PROVE  \/ \E o \in Order, to \in OrderState :
                 /\ Head(s) = Transition(o, to) /\ Tail(s) = << >>
                 /\ to = "driver_assigned" => provider[o] # None
           \/ \E o \in Order :
                 Head(s) = Quote(o) /\ Tail(s) = <<CheckPlan, Transition(o, "pending")>>
           \/ \E o \in Order : Head(s) = CheckPlan /\ Tail(s) = <<Transition(o, "pending")>>
           \/ \E o \in Order : Head(s) = Match(o) /\ Tail(s) = << >>
           \/ \E o \in Order, d \in Driver :
                 Head(s) = Assign(o, d) /\ Tail(s) = <<Transition(o, "driver_assigned")>>
           \/ \E o \in Order, d \in DocumentType :
                 /\ Head(s) = Upsert(o, d)
                 /\ Tail(s) = << >> \/ Tail(s) = <<Transition(o, "delivered")>>
           \/ \E n \in Notification :
                 \/ Head(s) = Send(n) /\ Tail(s) = << >>
                 \/ Head(s) = MarkSent(n) /\ Tail(s) = <<Log(n)>> /\ delivered[n] > 0
                 \/ /\ Head(s) = Log(n) /\ Tail(s) = << >>
                    /\ notice[n].status = "sent" /\ logged[n] = 0
                 \/ Head(s) = MarkFailed(n) /\ Tail(s) = <<Decline>>
<1>1. CASE s \in {<< >>, <<Decline>>}
    <2>1. s = <<Decline>>
        BY <1>1
    <2>. QED BY <2>1
<1>2. CASE Advances(s)
    BY <1>2 DEF Advances
<1>3. CASE Quotes(s)
    <2>1. PICK o \in Order : \/ s = <<Quote(o), CheckPlan, Transition(o, "pending")>>
                             \/ s = <<CheckPlan, Transition(o, "pending")>>
        BY <1>3 DEF Quotes
    <2>2. CASE s = <<Quote(o), CheckPlan, Transition(o, "pending")>>
        <3>1. Head(s) = Quote(o) /\ Tail(s) = <<CheckPlan, Transition(o, "pending")>>
            BY <2>2
        <3>. QED BY <3>1
    <2>3. CASE s = <<CheckPlan, Transition(o, "pending")>>
        <3>1. Head(s) = CheckPlan /\ Tail(s) = <<Transition(o, "pending")>>
            BY <2>3
        <3>. QED BY <3>1
    <2>. QED BY <2>1, <2>2, <2>3
<1>4. CASE Assigns(s)
    <2>1. PICK o \in Order : s = <<Match(o)>> \/ \E d \in Driver : s = AssignThenAdvance(o, d)
        BY <1>4 DEF Assigns
    <2>2. CASE s = <<Match(o)>>
        <3>1. Head(s) = Match(o) /\ Tail(s) = << >>
            BY <2>2
        <3>. QED BY <3>1
    <2>3. ASSUME NEW d \in Driver, s = AssignThenAdvance(o, d)
          PROVE  Head(s) = Assign(o, d) /\ Tail(s) = <<Transition(o, "driver_assigned")>>
        BY <2>3 DEF AssignThenAdvance
    <2>. QED BY <2>1, <2>2, <2>3
<1>5. CASE Uploads(s)
    <2>1. PICK o \in Order, d \in DocumentType :
              s = <<Upsert(o, d)>> \/ s = <<Upsert(o, d), Transition(o, "delivered")>>
        BY <1>5 DEF Uploads
    <2>2. CASE s = <<Upsert(o, d)>>
        <3>1. Head(s) = Upsert(o, d) /\ Tail(s) = << >>
            BY <2>2
        <3>. QED BY <3>1
    <2>3. CASE s = <<Upsert(o, d), Transition(o, "delivered")>>
        <3>1. Head(s) = Upsert(o, d) /\ Tail(s) = <<Transition(o, "delivered")>>
            BY <2>3
        <3>. QED BY <3>1
    <2>. QED BY <2>1, <2>2, <2>3
<1>6. CASE Notifies(s)
    <2>1. PICK n \in Notification :
              \/ s = <<Send(n)>>
              \/ s = <<MarkSent(n), Log(n)>> /\ delivered[n] > 0
              \/ s = <<Log(n)>> /\ notice[n].status = "sent" /\ logged[n] = 0
              \/ s = <<MarkFailed(n), Decline>>
        BY <1>6 DEF Notifies
    <2>2. CASE s = <<Send(n)>>
        <3>1. Head(s) = Send(n) /\ Tail(s) = << >>
            BY <2>2
        <3>. QED BY <3>1
    <2>3. CASE s = <<MarkSent(n), Log(n)>> /\ delivered[n] > 0
        <3>1. Head(s) = MarkSent(n) /\ Tail(s) = <<Log(n)>>
            BY <2>3
        <3>. QED BY <2>3, <3>1
    <2>4. CASE s = <<Log(n)>> /\ notice[n].status = "sent" /\ logged[n] = 0
        <3>1. Head(s) = Log(n) /\ Tail(s) = << >>
            BY <2>4
        <3>. QED BY <2>4, <3>1
    <2>5. CASE s = <<MarkFailed(n), Decline>>
        <3>1. Head(s) = MarkFailed(n) /\ Tail(s) = <<Decline>>
            BY <2>5
        <3>. QED BY <3>1
    <2>. QED BY <2>1, <2>2, <2>3, <2>4, <2>5
<1>. QED BY <1>1, <1>2, <1>3, <1>4, <1>5, <1>6 DEF Ready

\* What a call does to the rows, and the todo it leaves.
Keeps(c) ==
    /\ \A o \in Order : provider[o] # None => provider'[o] # None
    /\ \A n \in Notification :
          /\ delivered[n] > 0 => delivered'[n] > 0
          /\ notice[n].status = "sent" => notice'[n].status = "sent"
          /\ logged'[n] # logged[n] => c = Log(n)
Effect(c, left) ==
    /\ ToolsTypeOK' /\ RowsTellTheTruth' /\ Ready(left)' /\ Keeps(c)
    /\ \A n \in Notification : LogsNext(left, n) => notice[n].status # "sent"

\* A step of the state machine of an order.
LEMMA TransitionEffect ==
    ASSUME ToolInv, NEW o \in Order, NEW to \in OrderState, NEW left, NEW rest \in {<< >>},
           to = "driver_assigned" => provider[o] # None,
           Answered(Transition(o, to), rest, left)
    PROVE  Effect(Transition(o, to), left)
<1>1. /\ transition_order(Transition(o, to), rest, left)
    BY DEF Answered, Transition, transition_order, generate_order_quote, validate_payment_plan,
           match_nearby_drivers, assign_order_provider, upsert_order_document, send,
           mark_notification_sent, log_notification, mark_notification_failed
<1>2. /\ left = << >> /\ UNCHANGED <<quoted, provider, documents, notice, delivered, logged>>
      /\ order' = IF <<order[o], to>> \in MayFollow THEN [order EXCEPT ![o] = to] ELSE order
    BY <1>1 DEF transition_order, Transition
<1>3. ToolsTypeOK'
    BY <1>2 DEF ToolInv, ToolsTypeOK
<1>4. RowsTellTheTruth'
    <2>1. ASSUME NEW p \in Order, order'[p] \in {"driver_assigned", "in_transit", "delivered"}
          PROVE  provider[p] # None
        <3>1. CASE order'[p] = order[p]
            BY <2>1, <3>1 DEF ToolInv, RowsTellTheTruth
        <3>2. CASE order'[p] # order[p]
            <4>1. p = o /\ order'[p] = to /\ <<order[p], to>> \in MayFollow
                BY <1>2, <3>2 DEF ToolInv, ToolsTypeOK
            <4>. QED BY <2>1, <4>1, RoadStates DEF ToolInv, RowsTellTheTruth
        <3>. QED BY <3>1, <3>2
    <2>. QED BY <1>2, <2>1 DEF ToolInv, RowsTellTheTruth
<1>. QED BY <1>2, <1>3, <1>4 DEF Effect, Keeps, Ready, LogsNext

\* Calls that change no row the truth is told about.
LEMMA HarmlessEffect ==
    ASSUME ToolInv, NEW c, NEW left, Ready(left),
           \A n \in Notification : ~LogsNext(left, n),
           UNCHANGED <<order, provider, notice, delivered, logged>>,
           quoted' \subseteq Order, documents' \in [Order -> [DocumentType -> Nat]]
    PROVE  Effect(c, left)
<1>1. ToolsTypeOK' /\ RowsTellTheTruth'
    BY DEF ToolInv, ToolsTypeOK, RowsTellTheTruth
<1>2. Ready(left)'
    BY DEF Ready, Advances, Quotes, Assigns, Uploads, Notifies
<1>. QED BY <1>1, <1>2 DEF Effect, Keeps

\* generate_quote and validate_payment_plan.
LEMMA QuoteEffect ==
    ASSUME ToolInv, NEW o \in Order, NEW left,
           \/ Answered(Quote(o), <<CheckPlan, Transition(o, "pending")>>, left)
           \/ Answered(CheckPlan, <<Transition(o, "pending")>>, left)
    PROVE  Effect(Quote(o), left) /\ Effect(CheckPlan, left)
<1>1. /\ UNCHANGED <<order, provider, notice, delivered, logged, documents>>
      /\ quoted' \subseteq Order
      /\ \/ left = <<CheckPlan, Transition(o, "pending")>>
         \/ left = <<Transition(o, "pending")>>
         \/ left = <<Decline>>
    BY DEF ToolInv, ToolsTypeOK, Quote, CheckPlan, toolVars, Answered, transition_order,
           generate_order_quote, validate_payment_plan,
           match_nearby_drivers, assign_order_provider, upsert_order_document, send,
           mark_notification_sent, log_notification, mark_notification_failed
<1>2. Ready(left)
    BY <1>1, ChainStates DEF Ready, Quotes, Advances
<1>3. \A n \in Notification : ~LogsNext(left, n)
    BY <1>1 DEF LogsNext, CheckPlan, Transition, Decline, Log
<1>. QED BY <1>1, <1>2, <1>3, HarmlessEffect DEF ToolInv, ToolsTypeOK

\* match_drivers: the provider is written before the order advances.
LEMMA MatchEffect ==
    ASSUME ToolInv, NEW o \in Order, NEW left, Answered(Match(o), << >>, left)
    PROVE  Effect(Match(o), left)
<1>1. /\ UNCHANGED toolVars
      /\ left \in {<< >>} \cup {AssignThenAdvance(o, d) : d \in Driver}
    BY DEF Match, Answered, transition_order, generate_order_quote, validate_payment_plan,
           match_nearby_drivers, assign_order_provider, upsert_order_document, send,
           mark_notification_sent, log_notification, mark_notification_failed
<1>2. Ready(left)
    BY <1>1 DEF Ready, Assigns
<1>3. \A n \in Notification : ~LogsNext(left, n)
    BY <1>1 DEF LogsNext, AssignThenAdvance, Assign, Log
<1>. QED BY <1>1, <1>2, <1>3, HarmlessEffect DEF ToolInv, ToolsTypeOK, toolVars

\* assign_provider: from now on the order has a provider.
LEMMA AssignEffect ==
    ASSUME ToolInv, NEW o \in Order, NEW d \in Driver, NEW left,
           Answered(Assign(o, d), <<Transition(o, "driver_assigned")>>, left)
    PROVE  Effect(Assign(o, d), left)
<1>1. /\ left = <<Transition(o, "driver_assigned")>>
      /\ provider' = [provider EXCEPT ![o] = d]
      /\ UNCHANGED <<order, quoted, documents, notice, delivered, logged>>
    BY DEF Assign, Answered, transition_order, generate_order_quote, validate_payment_plan,
           match_nearby_drivers, assign_order_provider, upsert_order_document, send,
           mark_notification_sent, log_notification, mark_notification_failed
<1>2. ToolsTypeOK'
    BY <1>1 DEF ToolInv, ToolsTypeOK
<1>3. /\ provider'[o] # None
      /\ \A p \in Order : provider[p] # None => provider'[p] # None
    BY <1>1, ToolsAssumption DEF ToolInv, ToolsTypeOK
<1>4. RowsTellTheTruth'
    BY <1>1, <1>3 DEF ToolInv, RowsTellTheTruth
<1>5. Ready(left)'
    BY <1>1, <1>3, ChainStates DEF Ready, Advances
<1>6. \A n \in Notification : ~LogsNext(left, n)
    BY <1>1 DEF LogsNext, Transition, Log
<1>. QED BY <1>1, <1>2, <1>3, <1>4, <1>5, <1>6 DEF Effect, Keeps

\* upsert_document, with the delivery of a POD to come or without.
LEMMA UploadEffect ==
    ASSUME ToolInv, NEW o \in Order, NEW d \in DocumentType, NEW left,
           NEW rest, rest = << >> \/ rest = <<Transition(o, "delivered")>>,
           Answered(Upsert(o, d), rest, left)
    PROVE  Effect(Upsert(o, d), left)
<1>1. /\ left = rest
      /\ documents' = [documents EXCEPT ![o][d] = @ + 1]
      /\ UNCHANGED <<order, quoted, provider, notice, delivered, logged>>
    BY DEF Upsert, Answered, transition_order, generate_order_quote, validate_payment_plan,
           match_nearby_drivers, assign_order_provider, upsert_order_document, send,
           mark_notification_sent, log_notification, mark_notification_failed
<1>2. documents' \in [Order -> [DocumentType -> Nat]]
    BY <1>1 DEF ToolInv, ToolsTypeOK
<1>3. Ready(left)
    BY <1>1, ChainStates DEF Ready, Advances
<1>4. \A n \in Notification : ~LogsNext(left, n)
    BY <1>1 DEF LogsNext, Transition, Log
<1>. QED BY <1>1, <1>2, <1>3, <1>4, HarmlessEffect DEF ToolInv, ToolsTypeOK

\* The sender has delivered the message, or it has not.
LEMMA SendEffect ==
    ASSUME ToolInv, NEW n \in Notification, NEW left, Answered(Send(n), << >>, left)
    PROVE  Effect(Send(n), left)
<1>1. /\ UNCHANGED <<order, quoted, provider, documents, notice, logged>>
      /\ \/ delivered' = [delivered EXCEPT ![n] = @ + 1] /\ left = <<MarkSent(n), Log(n)>>
         \/ delivered' = delivered /\ left = <<MarkFailed(n), Decline>>
    BY DEF Send, Answered, transition_order, generate_order_quote, validate_payment_plan,
           match_nearby_drivers, assign_order_provider, upsert_order_document, send,
           mark_notification_sent, log_notification, mark_notification_failed
<1>2. ToolsTypeOK'
    <2>1. delivered' \in [Notification -> Nat]
        <3>1. CASE delivered' = [delivered EXCEPT ![n] = @ + 1]
            BY <3>1 DEF ToolInv, ToolsTypeOK
        <3>. QED BY <1>1, <3>1 DEF ToolInv, ToolsTypeOK
    <2>. QED BY <1>1, <2>1 DEF ToolInv, ToolsTypeOK
<1>3. \A m \in Notification : delivered[m] > 0 => delivered'[m] > 0
    <2>1. CASE delivered' = [delivered EXCEPT ![n] = @ + 1]
        BY <2>1 DEF ToolInv, ToolsTypeOK
    <2>. QED BY <1>1, <2>1
<1>4. RowsTellTheTruth'
    <2>1. \A m \in Notification : delivered[m] > 0 => delivered'[m] > 0
        BY <1>3
    <2>. QED BY <1>1, <2>1 DEF ToolInv, RowsTellTheTruth
<1>5. Ready(left)'
    <2>1. CASE delivered' = [delivered EXCEPT ![n] = @ + 1] /\ left = <<MarkSent(n), Log(n)>>
        <3>1. delivered'[n] > 0
            BY <2>1 DEF ToolInv, ToolsTypeOK
        <3>. QED BY <2>1, <3>1 DEF Ready, Notifies
    <2>2. CASE left = <<MarkFailed(n), Decline>>
        BY <2>2 DEF Ready, Notifies
    <2>. QED BY <1>1, <2>1, <2>2
<1>6. \A m \in Notification : ~LogsNext(left, m)
    BY <1>1 DEF LogsNext, MarkSent, MarkFailed, Log
<1>. QED BY <1>1, <1>2, <1>3, <1>4, <1>5, <1>6 DEF Effect, Keeps

\* Only the first one to mark a notification as sent gets to log it.
LEMMA MarkSentEffect ==
    ASSUME ToolInv, NEW n \in Notification, NEW left, delivered[n] > 0,
           Answered(MarkSent(n), <<Log(n)>>, left)
    PROVE  Effect(MarkSent(n), left)
<1>1. /\ notice[n].status = "processing" /\ left = <<Log(n)>>
      /\ notice' = [notice EXCEPT ![n].status = "sent"]
      /\ UNCHANGED <<order, quoted, provider, documents, delivered, logged>>
    BY DEF MarkSent, Answered, transition_order, generate_order_quote, validate_payment_plan,
           match_nearby_drivers, assign_order_provider, upsert_order_document, send,
           mark_notification_sent, log_notification, mark_notification_failed
<1>2. ToolsTypeOK'
    BY <1>1 DEF ToolInv, ToolsTypeOK
<1>3. /\ notice'[n].status = "sent" /\ logged[n] = 0
      /\ \A m \in Notification : m # n => notice'[m] = notice[m]
    BY <1>1 DEF ToolInv, ToolsTypeOK, RowsTellTheTruth
<1>4. RowsTellTheTruth'
    BY <1>1, <1>3 DEF ToolInv, RowsTellTheTruth
<1>5. Ready(left)'
    BY <1>1, <1>3 DEF Ready, Notifies
<1>6. \A m \in Notification : LogsNext(left, m) => m = n
    BY <1>1 DEF LogsNext, Log
<1>. QED BY <1>1, <1>2, <1>3, <1>4, <1>5, <1>6 DEF Effect, Keeps

\* The log row of a notification that was sent and not logged yet.
LEMMA LogEffect ==
    ASSUME ToolInv, NEW n \in Notification, NEW left, notice[n].status = "sent", logged[n] = 0,
           Answered(Log(n), << >>, left)
    PROVE  Effect(Log(n), left)
<1>1. /\ left = << >> /\ logged' = [logged EXCEPT ![n] = @ + 1]
      /\ UNCHANGED <<order, quoted, provider, documents, delivered, notice>>
    BY DEF Log, Answered, transition_order, generate_order_quote, validate_payment_plan,
           match_nearby_drivers, assign_order_provider, upsert_order_document, send,
           mark_notification_sent, log_notification, mark_notification_failed
<1>2. ToolsTypeOK'
    BY <1>1 DEF ToolInv, ToolsTypeOK
<1>3. logged'[n] = 1 /\ \A m \in Notification : m # n => logged'[m] = logged[m]
    BY <1>1 DEF ToolInv, ToolsTypeOK
<1>4. RowsTellTheTruth'
    BY <1>1, <1>3 DEF ToolInv, RowsTellTheTruth
<1>. QED BY <1>1, <1>2, <1>3, <1>4 DEF Effect, Keeps, Ready, LogsNext

\* A notification that failed is due again later, or given up.
LEMMA MarkFailedEffect ==
    ASSUME ToolInv, NEW n \in Notification, NEW left, Answered(MarkFailed(n), <<Decline>>, left)
    PROVE  Effect(MarkFailed(n), left)
<1>1. /\ notice[n].status = "processing" /\ left = <<Decline>>
      /\ notice' = [notice EXCEPT ![n] =
                       IF notice[n].attempts >= MaxSends THEN [notice[n] EXCEPT !.status = "failed"]
                       ELSE [notice[n] EXCEPT !.status = "queued", !.due = FALSE]]
      /\ UNCHANGED <<order, quoted, provider, documents, delivered, logged>>
    BY DEF MarkFailed, Answered, transition_order, generate_order_quote, validate_payment_plan,
           match_nearby_drivers, assign_order_provider, upsert_order_document, send,
           mark_notification_sent, log_notification, mark_notification_failed
<1>2. ToolsTypeOK'
    BY <1>1 DEF ToolInv, ToolsTypeOK
<1>3. /\ notice'[n].status # "sent"
      /\ \A m \in Notification : m # n => notice'[m] = notice[m]
    BY <1>1 DEF ToolInv, ToolsTypeOK
<1>4. RowsTellTheTruth'
    BY <1>1, <1>3 DEF ToolInv, RowsTellTheTruth
<1>5. \A m \in Notification : ~LogsNext(left, m)
    BY <1>1 DEF LogsNext, Decline, Log
<1>. QED BY <1>1, <1>2, <1>3, <1>4, <1>5 DEF Effect, Keeps, Ready

\* The answer to the call at hand, whichever it is.
LEMMA CallEffect ==
    ASSUME ToolInv, NEW w \in Worker, NEW left, Calling(w),
           Answered(Head(todo[w]), Tail(todo[w]), left)
    PROVE  Effect(Head(todo[w]), left)
<1>1. Ready(todo[w]) /\ todo[w] # << >> /\ Head(todo[w]) # Decline
    BY DEF ToolInv, Calling
<1>2. ASSUME NEW o \in Order, NEW to \in OrderState, Head(todo[w]) = Transition(o, to),
             Tail(todo[w]) = << >>, to = "driver_assigned" => provider[o] # None
      PROVE  Effect(Head(todo[w]), left)
    BY <1>2, TransitionEffect
<1>3. ASSUME NEW o \in Order,
             \/ Head(todo[w]) = Quote(o) /\ Tail(todo[w]) = <<CheckPlan, Transition(o, "pending")>>
             \/ Head(todo[w]) = CheckPlan /\ Tail(todo[w]) = <<Transition(o, "pending")>>
      PROVE  Effect(Head(todo[w]), left)
    BY <1>3, QuoteEffect
<1>4. ASSUME NEW o \in Order, Head(todo[w]) = Match(o), Tail(todo[w]) = << >>
      PROVE  Effect(Head(todo[w]), left)
    BY <1>4, MatchEffect
<1>5. ASSUME NEW o \in Order, NEW d \in Driver, Head(todo[w]) = Assign(o, d),
             Tail(todo[w]) = <<Transition(o, "driver_assigned")>>
      PROVE  Effect(Head(todo[w]), left)
    BY <1>5, AssignEffect
<1>6. ASSUME NEW o \in Order, NEW d \in DocumentType, Head(todo[w]) = Upsert(o, d),
             Tail(todo[w]) = << >> \/ Tail(todo[w]) = <<Transition(o, "delivered")>>
      PROVE  Effect(Head(todo[w]), left)
    BY <1>6, UploadEffect
<1>7. ASSUME NEW n \in Notification,
             \/ Head(todo[w]) = Send(n) /\ Tail(todo[w]) = << >>
             \/ Head(todo[w]) = MarkSent(n) /\ Tail(todo[w]) = <<Log(n)>> /\ delivered[n] > 0
             \/ /\ Head(todo[w]) = Log(n) /\ Tail(todo[w]) = << >>
                /\ notice[n].status = "sent" /\ logged[n] = 0
             \/ Head(todo[w]) = MarkFailed(n) /\ Tail(todo[w]) = <<Decline>>
      PROVE  Effect(Head(todo[w]), left)
    BY <1>7, SendEffect, MarkSentEffect, LogEffect, MarkFailedEffect
<1>8. \/ \E o \in Order, to \in OrderState :
            /\ Head(todo[w]) = Transition(o, to) /\ Tail(todo[w]) = << >>
            /\ to = "driver_assigned" => provider[o] # None
      \/ \E o \in Order :
            Head(todo[w]) = Quote(o) /\ Tail(todo[w]) = <<CheckPlan, Transition(o, "pending")>>
      \/ \E o \in Order : Head(todo[w]) = CheckPlan /\ Tail(todo[w]) = <<Transition(o, "pending")>>
      \/ \E o \in Order : Head(todo[w]) = Match(o) /\ Tail(todo[w]) = << >>
      \/ \E o \in Order, d \in Driver :
            Head(todo[w]) = Assign(o, d) /\ Tail(todo[w]) = <<Transition(o, "driver_assigned")>>
      \/ \E o \in Order, d \in DocumentType :
            /\ Head(todo[w]) = Upsert(o, d)
            /\ Tail(todo[w]) = << >> \/ Tail(todo[w]) = <<Transition(o, "delivered")>>
      \/ \E n \in Notification :
            \/ Head(todo[w]) = Send(n) /\ Tail(todo[w]) = << >>
            \/ Head(todo[w]) = MarkSent(n) /\ Tail(todo[w]) = <<Log(n)>> /\ delivered[n] > 0
            \/ /\ Head(todo[w]) = Log(n) /\ Tail(todo[w]) = << >>
               /\ notice[n].status = "sent" /\ logged[n] = 0
            \/ Head(todo[w]) = MarkFailed(n) /\ Tail(todo[w]) = <<Decline>>
    BY <1>1, Pending
<1>. QED BY <1>2, <1>3, <1>4, <1>5, <1>6, <1>7, <1>8

\* A todo that was ready stays ready when its worker is not the one that calls.
LEMMA OthersStayReady ==
    ASSUME NEW s, NEW c, Ready(s), Keeps(c), \A n \in Notification : LogsNext(s, n) => c # Log(n)
    PROVE  Ready(s)'
<1>1. CASE s \in {<< >>, <<Decline>>}
    BY <1>1 DEF Ready
<1>2. CASE Advances(s)
    BY <1>2 DEF Advances, Ready, Keeps
<1>3. CASE Quotes(s) \/ Assigns(s) \/ Uploads(s)
    BY <1>3 DEF Quotes, Assigns, Uploads, Ready
<1>4. CASE Notifies(s)
    <2>1. PICK n \in Notification :
              \/ s = <<Send(n)>> \/ s = <<MarkFailed(n), Decline>>
              \/ s = <<MarkSent(n), Log(n)>> /\ delivered[n] > 0
              \/ s = <<Log(n)>> /\ notice[n].status = "sent" /\ logged[n] = 0
        BY <1>4 DEF Notifies
    <2>2. s = <<Log(n)>> => logged'[n] = logged[n]
        BY DEF Keeps, LogsNext
    <2>. QED BY <2>1, <2>2 DEF Ready, Notifies, Keeps
<1>. QED BY <1>1, <1>2, <1>3, <1>4 DEF Ready

\* A step that leaves the rows alone and no worker a call, or what it had.
LEMMA QuietStep ==
    ASSUME ToolInv, UNCHANGED <<toolVars, job, wiring>>, NEW w \in Worker,
           todo' = todo \/ todo' = [todo EXCEPT ![w] = << >>]
    PROVE  ToolInv'
<1>1. ToolsTypeOK' /\ RowsTellTheTruth'
    BY DEF ToolInv, ToolsTypeOK, RowsTellTheTruth, toolVars
<1>2. \A v \in Worker : todo'[v] = todo[v] \/ todo'[v] = << >>
    BY DEF ToolInv
<1>3. \A s : Ready(s) => Ready(s)'
    BY DEF Ready, Advances, Quotes, Assigns, Uploads, Notifies, toolVars
<1>4. Ready(<< >>)'
    BY DEF Ready
<1>5. todo' = [v \in Worker |-> todo'[v]]
    BY DEF ToolInv
<1>. QED BY <1>1, <1>2, <1>3, <1>4, <1>5 DEF ToolInv, LogsOnce, LogsNext

\* The guardian has admitted a task and its tool is called.
LEMMA PickStep ==
    ASSUME ToolInv, NEW w \in Worker, NEW t \in Task, Pick(w, t) PROVE ToolInv'
<1>1. UNCHANGED <<toolVars, job, wiring>>
    BY DEF Pick
<1>2. CASE todo' = todo \/ todo' = [todo EXCEPT ![w] = << >>]
    BY <1>1, <1>2, QuietStep
<1>3. CASE wiring = "default" /\ job[t].tool \in DefaultTools
           /\ todo' = [todo EXCEPT ![w] = Plan(job[t])]
    <2>1. Ready(Plan(job[t])) /\ \A n \in Notification : ~LogsNext(Plan(job[t]), n)
        BY <1>3, PlanIsReady DEF ToolInv
    <2>2. \A s : Ready(s) => Ready(s)'
        BY <1>1 DEF Ready, Advances, Quotes, Assigns, Uploads, Notifies, toolVars
    <2>3. /\ todo'[w] = Plan(job[t]) /\ todo' = [v \in Worker |-> todo'[v]]
          /\ \A v \in Worker : v # w => todo'[v] = todo[v]
        BY <1>3 DEF ToolInv
    <2>4. ToolsTypeOK' /\ RowsTellTheTruth'
        BY <1>1 DEF ToolInv, ToolsTypeOK, RowsTellTheTruth, toolVars
    <2>. QED BY <1>1, <2>1, <2>2, <2>3, <2>4 DEF ToolInv, LogsOnce
<1>. QED BY <1>2, <1>3 DEF Pick, ToolInv

\* A call took effect, whether its worker hears of it or not.
LEMMA CallStep ==
    ASSUME ToolInv, UNCHANGED <<job, wiring>>, NEW w \in Worker, NEW left, Calling(w),
           Answered(Head(todo[w]), Tail(todo[w]), left),
           todo' = [todo EXCEPT ![w] = left] \/ todo' = [todo EXCEPT ![w] = << >>]
    PROVE  ToolInv'
<1>1. Effect(Head(todo[w]), left)
    BY CallEffect
<1>2. /\ todo'[w] = left \/ todo'[w] = << >>
      /\ todo' = [v \in Worker |-> todo'[v]]
      /\ \A v \in Worker : v # w => todo'[v] = todo[v]
    BY DEF ToolInv
<1>3. ASSUME NEW v \in Worker, v # w PROVE Ready(todo[v])'
    <2>1. \A n \in Notification : LogsNext(todo[v], n) => Head(todo[w]) # Log(n)
        BY <1>3 DEF ToolInv, LogsOnce, LogsNext, Calling
    <2>2. Ready(todo[v]) /\ todo'[v] = todo[v] /\ Keeps(Head(todo[w]))
        BY <1>1, <1>2, <1>3 DEF Effect, ToolInv
    <2>3. ASSUME NEW s, s = todo[v] PROVE Ready(s)'
        BY <2>1, <2>2, <2>3, OthersStayReady
    <2>. QED BY <2>2, <2>3
<1>4. ASSUME NEW v \in Worker, v # w, NEW n \in Notification, LogsNext(todo[v], n)
      PROVE  ~LogsNext(todo'[w], n)
    <2>1. notice[n].status = "sent"
        <3>1. todo[v] # << >> /\ Head(todo[v]) = Log(n) /\ Ready(todo[v])
            BY <1>4 DEF LogsNext, ToolInv
        <3>2. Head(todo[v]) # Decline
            BY <3>1 DEF Log, Decline
        <3>3. ASSUME NEW s, s = todo[v] PROVE notice[n].status = "sent"
            <4>1. Ready(s) /\ s # << >> /\ Head(s) # Decline /\ Head(s) = Log(n)
                BY <3>1, <3>2, <3>3
            <4>2. PICK m \in Notification : Head(s) = Log(m) /\ notice[m].status = "sent"
                BY <4>1, Pending
                DEF Log, Transition, Quote, CheckPlan, Match, Assign, Upsert, Send, MarkSent,
                    MarkFailed
            <4>. QED BY <4>1, <4>2 DEF Log
        <3>. QED BY <3>3
    <2>. QED BY <1>1, <1>2, <2>1 DEF Effect, LogsNext
<1>5. Ready(todo[w])'
    BY <1>1, <1>2 DEF Effect, Ready
<1>6. LogsOnce'
    BY <1>2, <1>4 DEF ToolInv, LogsOnce
<1>. QED BY <1>1, <1>2, <1>3, <1>5, <1>6 DEF ToolInv, Effect

\* Other parties take up notifications, confirm payments and cancel orders.
LEMMA EnvironmentStep ==
    ASSUME ToolInv, Environment, UNCHANGED <<job, wiring, todo>> PROVE ToolInv'
<1>1. ASSUME NEW n \in Notification, grab_notification_jobs(n) \/ RetryIsDue(n)
      PROVE  ToolsTypeOK' /\ RowsTellTheTruth' /\ Keeps(Decline)
    <2>1. /\ UNCHANGED <<order, quoted, provider, documents, delivered, logged>>
          /\ notice' \in [Notification -> [status : {"queued", "processing", "sent", "failed"},
                                           attempts : 0..MaxSends, due : BOOLEAN]]
        <3>1. CASE grab_notification_jobs(n)
            <4>1. notice[n].attempts + 1 \in 0..MaxSends
                BY <3>1, ToolsAssumption DEF grab_notification_jobs, ToolInv, ToolsTypeOK
            <4>. QED BY <3>1, <4>1 DEF grab_notification_jobs, ToolInv, ToolsTypeOK
        <3>2. CASE RetryIsDue(n)
            BY <3>2 DEF RetryIsDue, ToolInv, ToolsTypeOK
        <3>. QED BY <1>1, <3>1, <3>2
    <2>2. \A m \in Notification : notice'[m].status = "sent" <=> notice[m].status = "sent"
        <3>1. CASE grab_notification_jobs(n)
            BY <3>1 DEF grab_notification_jobs, ToolInv, ToolsTypeOK
        <3>2. CASE RetryIsDue(n)
            BY <3>2 DEF RetryIsDue, ToolInv, ToolsTypeOK
        <3>. QED BY <1>1, <3>1, <3>2
    <2>3. ToolsTypeOK'
        BY <2>1 DEF ToolInv, ToolsTypeOK
    <2>4. RowsTellTheTruth'
        BY <2>1, <2>2 DEF ToolInv, RowsTellTheTruth
    <2>. QED BY <2>1, <2>2, <2>3, <2>4 DEF Keeps
<1>2. ASSUME NEW o \in Order, NEW s \in OrderState, OthersTransition(o, s)
      PROVE  ToolsTypeOK' /\ RowsTellTheTruth' /\ Keeps(Decline)
    <2>1. /\ s \in {"payment_succeeded", "cancelled"} /\ order' = [order EXCEPT ![o] = s]
          /\ UNCHANGED <<quoted, provider, documents, notice, delivered, logged>>
        BY <1>2 DEF OthersTransition
    <2>2. ToolsTypeOK'
        BY <2>1 DEF ToolInv, ToolsTypeOK
    <2>3. RowsTellTheTruth'
        BY <2>1 DEF ToolInv, ToolsTypeOK, RowsTellTheTruth
    <2>. QED BY <2>1, <2>2, <2>3 DEF Keeps
<1>3. ToolsTypeOK' /\ RowsTellTheTruth' /\ Keeps(Decline)
    BY <1>1, <1>2 DEF Environment
<1>4. ASSUME NEW s, Ready(s) PROVE Ready(s)'
    <2>1. \A n \in Notification : Decline # Log(n)
        BY DEF Decline, Log
    <2>. QED BY <1>3, <1>4, <2>1, OthersStayReady
<1>. QED BY <1>3, <1>4 DEF ToolInv, LogsOnce, LogsNext

\* Every step keeps the rows true and every todo ready.
LEMMA ToolStep == ASSUME ToolInv, [Next]_vars PROVE ToolInv'
<1>1. ASSUME NEW w \in Worker, NEW t \in Task, Pick(w, t) PROVE ToolInv'
    BY <1>1, PickStep
<1>2. ASSUME NEW w \in Worker, ToolCall(w) PROVE ToolInv'
    BY <1>2, CallStep DEF ToolCall
<1>3. ASSUME NEW w \in Worker, ToolRaises(w) PROVE ToolInv'
    <2>1. CASE UNCHANGED toolVars
        BY <1>3, <2>1, QuietStep DEF ToolRaises
    <2>2. CASE ~UNCHANGED toolVars
        <3>1. PICK left \in Left(w) : Answered(Head(todo[w]), Tail(todo[w]), left)
            BY <1>3, <2>2 DEF ToolRaises
        <3>. QED BY <1>3, <3>1, CallStep DEF ToolRaises
    <2>. QED BY <2>1, <2>2
<1>4. ASSUME NEW w \in Worker,
             \/ claim_agent_tasks(w) \/ ClaimRefused(w) \/ ToolAnswers(w) \/ InjectedToolAnswers(w)
             \/ complete_agent_task(w) \/ record_agent_spend(w) \/ fail_agent_task(w)
             \/ Pausing(w) \/ TickAborts(w)
      PROVE  ToolInv'
    BY <1>4, QuietStep
    DEF claim_agent_tasks, ClaimRefused, ToolAnswers, InjectedToolAnswers, complete_agent_task,
        record_agent_spend, fail_agent_task, Pausing, TickAborts
<1>5. CASE Environment /\ UNCHANGED <<job, wiring, registry, task, tickVars, runs, aborts>>
    BY <1>5, EnvironmentStep DEF tickVars
<1>6. CASE UNCHANGED <<toolVars, job, wiring, todo>>
    <2>1. \A s : Ready(s) => Ready(s)'
        BY <1>6 DEF Ready, Advances, Quotes, Assigns, Uploads, Notifies, toolVars
    <2>. QED
        BY <1>6, <2>1
        DEF ToolInv, ToolsTypeOK, RowsTellTheTruth, LogsOnce, LogsNext, toolVars
<1>7. ASSUME NEW s \in {"running", "paused", "blocked"}, set_agent_status(s) PROVE ToolInv'
    BY <1>6, <1>7 DEF set_agent_status, tickVars
<1>8. CASE UNCHANGED vars
    BY <1>6, <1>8 DEF vars, tickVars
<1>. QED BY <1>1, <1>2, <1>3, <1>4, <1>5, <1>7, <1>8 DEF Next, Tick

\* At the start no tool is called, and orders on the road have providers.
LEMMA ToolInvariant == Spec => []ToolInv
<1>1. Init => ToolInv
    <2>1. ASSUME Init PROVE ToolsTypeOK
        <3>1. order \in [Order -> OrderState] /\ provider \in [Order -> Driver \cup {None}]
            BY <2>1, ChainStates DEF Init, ToolsInit
        <3>2. documents \in [Order -> [DocumentType -> Nat]]
            BY <2>1 DEF Init, ToolsInit
        <3>3. notice \in [Notification -> [status : {"queued", "processing", "sent", "failed"},
                                           attempts : 0..MaxSends, due : BOOLEAN]]
            BY <2>1, ToolsAssumption DEF Init, ToolsInit
        <3>. QED BY <2>1, <3>1, <3>2, <3>3 DEF Init, ToolsInit, ToolsTypeOK
    <2>2. ASSUME Init PROVE RowsTellTheTruth
        <3>1. \A o \in Order : order[o] \in {"pending", "payment_succeeded", "in_transit"}
            BY <2>2 DEF Init, ToolsInit
        <3>2. \A o \in Order : provider[o] = None <=> order[o] # "in_transit"
            BY <2>2 DEF Init, ToolsInit
        <3>3. \A n \in Notification : notice[n].status = "queued" /\ logged[n] = 0
            BY <2>2 DEF Init, ToolsInit
        <3>. QED BY <3>1, <3>2, <3>3 DEF RowsTellTheTruth
    <2>3. ASSUME Init
          PROVE  todo = [w \in Worker |-> todo[w]] /\ \A w \in Worker : todo[w] = << >>
        BY <2>3 DEF Init
    <2>4. Ready(<< >>)
        BY DEF Ready
    <2>5. ASSUME Init PROVE LogsOnce /\ \A w \in Worker : Ready(todo[w])
        BY <2>3, <2>4, <2>5 DEF LogsOnce, LogsNext
    <2>6. ASSUME Init PROVE job \in [Task -> Job] /\ wiring \in {"default", "injected"}
        BY <2>6 DEF Init
    <2>. QED BY <2>1, <2>2, <2>3, <2>5, <2>6 DEF ToolInv
<1>. QED BY <1>1, ToolStep, PTL DEF Spec

----------------------------------------------------------------------------
(* The registry, the guardian and the counters.                            *)

Counters ==
    /\ registry \in [status : {"running", "paused", "blocked"}, spent : Nat]
    /\ calls \in [Worker -> 0..MaxCalls]
    /\ seen \in [Worker -> SUBSET Task]
    /\ said \in [Worker -> BOOLEAN]
    /\ aborts \in 0..MaxAborts

\* The guardian admits MaxCalls calls in a tick, and a tick starts from zero.
LEMMA CounterStep == ASSUME Counters, [Next]_vars PROVE Counters'
<1>. USE KernelAssumption
<1>1. ASSUME NEW w \in Worker, NEW t \in Task, Pick(w, t) PROVE Counters'
    <2>1. /\ UNCHANGED <<registry, said, aborts>>
          /\ seen' \in {seen, [seen EXCEPT ![w] = @ \cup {t}]}
          /\ calls' = calls \/ (calls[w] < MaxCalls /\ calls' = [calls EXCEPT ![w] = @ + 1])
        BY <1>1 DEF Pick, Admitted, Counters
    <2>2. calls' \in [Worker -> 0..MaxCalls]
        BY <2>1 DEF Counters
    <2>3. seen' \in [Worker -> SUBSET Task]
        BY <2>1 DEF Counters
    <2>. QED BY <2>1, <2>2, <2>3 DEF Counters
<1>2. ASSUME NEW w \in Worker, ToolAnswers(w) \/ InjectedToolAnswers(w) PROVE Counters'
    BY <1>2 DEF ToolAnswers, InjectedToolAnswers, Counters
<1>3. ASSUME NEW w \in Worker, record_agent_spend(w) \/ fail_agent_task(w) PROVE Counters'
    <2>1. /\ registry' \in {registry, [registry EXCEPT !.spent = @ + 1]} /\ UNCHANGED aborts
          /\ said' = [said EXCEPT ![w] = FALSE]
          /\ \E n \in {0, calls[w]} : calls' = [calls EXCEPT ![w] = n]
          /\ \E ts \in {{}, seen[w]} : seen' = [seen EXCEPT ![w] = ts]
        BY <1>3 DEF record_agent_spend, fail_agent_task, NextTask
    <2>2. /\ calls' \in [Worker -> 0..MaxCalls] /\ seen' \in [Worker -> SUBSET Task]
          /\ said' \in [Worker -> BOOLEAN]
        BY <2>1 DEF Counters
    <2>3. registry' \in [status : {"running", "paused", "blocked"}, spent : Nat]
        BY <2>1 DEF Counters
    <2>. QED BY <2>1, <2>2, <2>3 DEF Counters
<1>4. ASSUME NEW w \in Worker, TickAborts(w) PROVE Counters'
    BY <1>4 DEF TickAborts, Counters
<1>5. ASSUME NEW w \in Worker,
             \/ claim_agent_tasks(w) \/ ClaimRefused(w) \/ ToolCall(w) \/ ToolRaises(w)
             \/ complete_agent_task(w)
      PROVE  Counters'
    BY <1>5
    DEF claim_agent_tasks, ClaimRefused, ToolCall, ToolRaises, complete_agent_task, Counters
<1>6. ASSUME NEW w \in Worker, Pausing(w) PROVE Counters'
    BY <1>6 DEF Pausing, PersistPause, PauseIsLost, Counters
<1>7. ASSUME NEW s \in {"running", "paused", "blocked"}, set_agent_status(s) PROVE Counters'
    BY <1>7 DEF set_agent_status, tickVars, Counters
<1>8. CASE UNCHANGED <<registry, tickVars, aborts>>
    BY <1>8 DEF tickVars, Counters
<1>. QED
    BY <1>1, <1>2, <1>3, <1>4, <1>5, <1>6, <1>7, <1>8 DEF Next, Tick, vars

\* The counters start at zero.
LEMMA CountersHold == Spec => []Counters
<1>1. Init => Counters
    BY KernelAssumption DEF Init, Counters
<1>. QED BY <1>1, CounterStep, PTL DEF Spec

----------------------------------------------------------------------------
(* Sums over finite sets, in the order in which FoldFunction takes them.   *)

Total(f) == FoldFunction(+, 0, f)
Choice(s) == CHOOSE x \in s : TRUE
IsSums(f, S, g) ==
    g = [s \in SUBSET S |-> IF s = {} THEN 0 ELSE f[Choice(s)] + g[s \ {Choice(s)}]]
Sums(f) == CHOOSE g : IsSums(f, DOMAIN f, g)

\* A sum over a function is the value of its partial sums at the whole domain.
LEMMA FoldIsSum ==
    ASSUME NEW f PROVE Total(f) = Sums(f)[DOMAIN f]
BY DEF Total, FoldFunction, FoldFunctionOnSet, MapThenFoldSet, Sums, IsSums, Choice

\* Sets of subsets of a finite set have a smallest member: what stands in for
\* an induction over finite sets here.
LEMMA SmallestSubset ==
    ASSUME NEW S, IsFiniteSet(S), NEW Some, Some \subseteq SUBSET S, Some # {}
    PROVE  \E T \in Some : \A U \in Some : U \subseteq T => U = T
<1> DEFINE R == StrictSubsetOrdering(S)
<1>1. IsWellFoundedOn(R, SUBSET S)
    BY FS_StrictSubsetOrderingWellFounded, FS_FiniteSubsetsOfFinite
<1>. HIDE DEF R
<1>2. \E T \in Some : \A U \in Some : ~(<<U, T>> \in R)
    BY <1>1, WFMin
<1>. QED BY <1>2 DEF R, StrictSubsetOrdering

\* What partial sums are, one element at a time.
LEMMA SumsStep ==
    ASSUME NEW f, NEW S, NEW g, IsSums(f, S, g), NEW s \in SUBSET S
    PROVE  /\ s = {} => g[s] = 0
           /\ s # {} => /\ Choice(s) \in s /\ s \ {Choice(s)} \in SUBSET S
                        /\ g[s] = f[Choice(s)] + g[s \ {Choice(s)}]
<1>1. g[s] = IF s = {} THEN 0 ELSE f[Choice(s)] + g[s \ {Choice(s)}]
    BY DEF IsSums
<1>2. s # {} => Choice(s) \in s
    BY DEF Choice
<1>. QED BY <1>1, <1>2

\* The sum over a set does not depend on the superset that it was defined for.
LEMMA SumsAgree ==
    ASSUME NEW f, NEW V, NEW W, NEW g, NEW h, IsSums(f, V, g), IsSums(f, W, h),
           NEW S, IsFiniteSet(S), S \subseteq V, S \subseteq W
    PROVE  g[S] = h[S]
<1> DEFINE Differing == {T \in SUBSET S : g[T] # h[T]}
<1>1. SUFFICES ASSUME Differing # {} PROVE FALSE
    OBVIOUS
<1>2. PICK T \in Differing : \A U \in Differing : U \subseteq T => U = T
    <2>1. Differing \subseteq SUBSET S
        OBVIOUS
    <2>. HIDE DEF Differing
    <2>. QED BY <1>1, <2>1, SmallestSubset
<1>3. T \in SUBSET V /\ T \in SUBSET W /\ g[T] # h[T]
    OBVIOUS
<1>4. T # {}
    <2>1. T = {} => g[T] = 0
        BY <1>3, SumsStep
    <2>2. T = {} => h[T] = 0
        BY <1>3, SumsStep
    <2>. QED BY <1>3, <2>1, <2>2
<1>5. /\ Choice(T) \in T
      /\ g[T] = f[Choice(T)] + g[T \ {Choice(T)}]
      /\ h[T] = f[Choice(T)] + h[T \ {Choice(T)}]
    BY <1>3, <1>4, SumsStep
<1>6. g[T \ {Choice(T)}] = h[T \ {Choice(T)}]
    BY <1>2, <1>5
<1>. QED BY <1>3, <1>5, <1>6

\* Every function has partial sums over a finite set.
LEMMA SumsExist == ASSUME NEW f, NEW S, IsFiniteSet(S) PROVE \E g : IsSums(f, S, g)
<1> DEFINE Missing == {T \in SUBSET S : ~\E g : IsSums(f, T, g)}
<1>1. SUFFICES ASSUME Missing # {} PROVE FALSE
    OBVIOUS
<1>2. PICK T \in Missing : \A U \in Missing : U \subseteq T => U = T
    <2>1. Missing \subseteq SUBSET S
        OBVIOUS
    <2>. HIDE DEF Missing
    <2>. QED BY <1>1, <2>1, SmallestSubset
<1> DEFINE G(U) == CHOOSE g : IsSums(f, U, g)
           Below(s) == s \ {Choice(s)}
           h == [s \in SUBSET T |->
                    IF s # T THEN G(s)[s]
                    ELSE IF T = {} THEN 0 ELSE f[Choice(T)] + G(Below(T))[Below(T)]]
<1>3. ASSUME NEW U \in SUBSET T, U # T PROVE IsSums(f, U, G(U)) /\ IsFiniteSet(U)
    <2>1. \E g : IsSums(f, U, g)
        BY <1>2, <1>3
    <2>2. IsFiniteSet(U)
        BY FS_Subset
    <2>. QED BY <2>1, <2>2
<1>4. ASSUME NEW s \in SUBSET T
      PROVE  h[s] = IF s = {} THEN 0 ELSE f[Choice(s)] + h[Below(s)]
    <2>1. s # {} => Choice(s) \in s
        BY DEF Choice
    <2>2. CASE s = T
        BY <2>1, <2>2
    <2>3. CASE s # T
        <3>1. h[s] = G(s)[s] /\ IsSums(f, s, G(s))
            BY <1>3, <2>3
        <3>2. CASE s = {}
            BY <3>1, <3>2, SumsStep
        <3>3. CASE s # {}
            <4>1. G(s)[s] = f[Choice(s)] + G(s)[Below(s)]
                BY <3>1, <3>3, SumsStep
            <4>2. Below(s) \in SUBSET T /\ Below(s) # T /\ Below(s) \subseteq s
                BY <2>1, <3>3
            <4>3. IsSums(f, Below(s), G(Below(s))) /\ IsFiniteSet(Below(s))
                BY <1>3, <4>2
            <4>4. G(s)[Below(s)] = G(Below(s))[Below(s)]
                BY <3>1, <4>2, <4>3, SumsAgree
            <4>5. h[Below(s)] = G(Below(s))[Below(s)]
                BY <4>2
            <4>. QED BY <3>1, <3>3, <4>1, <4>4, <4>5
        <3>. QED BY <3>2, <3>3
    <2>. QED BY <2>2, <2>3
<1>5. IsSums(f, T, h)
    <2>. DEFINE k == h
    <2>1. k = [s \in SUBSET T |-> k[s]]
        OBVIOUS
    <2>2. \A s \in SUBSET T : k[s] = IF s = {} THEN 0 ELSE f[Choice(s)] + k[s \ {Choice(s)}]
        BY <1>4
    <2>. HIDE DEF k
    <2>3. IsSums(f, T, k)
        BY <2>1, <2>2 DEF IsSums
    <2>. QED BY <2>3 DEF k
<1>. QED BY <1>2, <1>5

\* So that the partial sums chosen for a function are such.
LEMMA SumsHold ==
    ASSUME NEW f, IsFiniteSet(DOMAIN f) PROVE IsSums(f, DOMAIN f, Sums(f))
<1>1. \E g : IsSums(f, DOMAIN f, g)
    BY SumsExist
<1>. QED BY <1>1 DEF Sums

\* A function that is nowhere greater has no greater sum, and a smaller one if
\* it is smaller somewhere.
LEMMA SumsCompare ==
    ASSUME NEW S, IsFiniteSet(S), NEW f \in [S -> Nat], NEW g \in [S -> Nat],
           \A x \in S : f[x] <= g[x]
    PROVE  /\ Total(f) \in Nat /\ Total(g) \in Nat
           /\ Total(f) <= Total(g)
           /\ (\E x \in S : f[x] < g[x]) => Total(f) < Total(g)
<1> DEFINE F == Sums(f)
           G == Sums(g)
           Fine(T) == /\ F[T] \in Nat /\ G[T] \in Nat /\ F[T] <= G[T]
                      /\ (\E x \in T : f[x] < g[x]) => F[T] < G[T]
           Bad == {T \in SUBSET S : ~Fine(T)}
<1>1. IsSums(f, S, F) /\ IsSums(g, S, G)
    BY SumsHold
<1>. HIDE DEF F, G
<1>0. F[{}] = 0 /\ G[{}] = 0
    <2>. HIDE DEF Bad, Fine
    <2>1. {} \in SUBSET S
        OBVIOUS
    <2>2. F[{}] = 0
        BY <1>1, <2>1, SumsStep
    <2>3. G[{}] = 0
        BY <1>1, <2>1, SumsStep
    <2>. QED BY <2>2, <2>3
<1>2. Bad = {}
    <2>1. SUFFICES ASSUME Bad # {} PROVE FALSE
        OBVIOUS
    <2>2. PICK T \in Bad : \A U \in Bad : U \subseteq T => U = T
        <3>1. Bad \subseteq SUBSET S
            OBVIOUS
        <3>. HIDE DEF Bad
        <3>. QED BY <2>1, <3>1, SmallestSubset
    <2>3. T \in SUBSET S /\ ~Fine(T)
        OBVIOUS
    <2>4. T # {}
        <3>1. Fine({})
            BY <1>0
        <3>. QED BY <2>3, <3>1
    <2>. DEFINE x == Choice(T)
    <2>5. x \in T /\ T \ {x} \in SUBSET S /\ F[T] = f[x] + F[T \ {x}]
        BY <1>1, <2>3, <2>4, SumsStep
    <2>6. G[T] = g[x] + G[T \ {x}]
        BY <1>1, <2>3, <2>4, SumsStep
    <2>. HIDE DEF x
    <2>7. Fine(T \ {x})
        BY <2>2, <2>5
    <2>8. f[x] \in Nat /\ g[x] \in Nat /\ f[x] <= g[x]
        BY <2>3, <2>5
    <2>9. F[T] \in Nat /\ G[T] \in Nat /\ F[T] <= G[T]
        BY <2>5, <2>6, <2>7, <2>8
    <2>10. ASSUME NEW y \in T, f[y] < g[y] PROVE F[T] < G[T]
        <3>1. CASE y = x
            BY <2>5, <2>6, <2>7, <2>8, <2>10, <3>1
        <3>2. CASE y # x
            <4>1. \E z \in T \ {x} : f[z] < g[z]
                BY <2>10, <3>2
            <4>2. F[T \ {x}] < G[T \ {x}]
                BY <2>7, <4>1
            <4>. QED BY <2>5, <2>6, <2>7, <2>8, <4>2
        <3>. QED BY <3>1, <3>2
    <2>. QED BY <2>3, <2>9, <2>10
<1>3. Fine(S)
    BY <1>2
<1>4. Total(f) = F[S] /\ Total(g) = G[S]
    BY FoldIsSum DEF F, G
<1>. QED BY <1>3, <1>4

----------------------------------------------------------------------------
(* The budget.                                                             *)

\* The tasks that a kernel may still report as done in this tick.
Owing == [w \in Worker |-> Cardinality(batch[w]) + (IF pc[w] \in InHand THEN 1 ELSE 0)]

\* What all ticks together may still spend was affordable when they started.
Affordable ==
    /\ \A w \in Worker : Owing[w] <= ClaimLimit[w]
    /\ registry.spent + Total(Owing) < Budget + Total(ClaimLimit)

LEMMA OwingIsTyped ==
    KernelInv => /\ Owing \in [Worker -> Nat]
                 /\ \A w \in Worker : IsFiniteSet(batch[w]) /\ Cardinality(batch[w]) \in Nat
<1>. SUFFICES ASSUME KernelInv
              PROVE  /\ Owing \in [Worker -> Nat]
                     /\ \A w \in Worker : /\ IsFiniteSet(batch[w])
                                          /\ Cardinality(batch[w]) \in Nat
    OBVIOUS
<1>1. ASSUME NEW w \in Worker PROVE IsFiniteSet(batch[w]) /\ Cardinality(batch[w]) \in Nat
    <2>1. batch[w] \in SUBSET Task
        BY DEF KernelInv, Types
    <2>2. IsFiniteSet(batch[w])
        BY <2>1, KernelAssumption, FS_Subset
    <2>. QED BY <2>2, FS_CardinalityType
<1>. QED BY <1>1 DEF Owing

\* A kernel that takes up a task owes as much as before, and so does one whose
\* task is answered; reporting it or giving up the tick lowers what it owes.
LEMMA OwingShrinks ==
    ASSUME KernelInv, KernelInv', [Next]_vars,
           ~\E w \in Worker : claim_agent_tasks(w) \/ record_agent_spend(w)
    PROVE  \A v \in Worker : Owing'[v] <= Owing[v]
<1>. USE DEF Goto, InHand
<1>1. ASSUME NEW w \in Worker, Owing'[w] <= Owing[w],
             \A v \in Worker \ {w} : UNCHANGED <<pc[v], batch[v]>>
      PROVE  \A v \in Worker : Owing'[v] <= Owing[v]
    <2>1. \A v \in Worker \ {w} : Owing'[v] = Owing[v] /\ Owing[v] \in Nat
        BY <1>1, OwingIsTyped DEF Owing
    <2>. QED BY <1>1, <2>1
<1>2. ASSUME NEW w \in Worker, NEW t \in Task, Pick(w, t)
      PROVE  \A v \in Worker : Owing'[v] <= Owing[v]
    <2>1. /\ pc[w] = "pick" /\ t \in batch[w] /\ pc'[w] \in {"tool", "fail"}
          /\ batch'[w] = batch[w] \ {t}
          /\ \A v \in Worker \ {w} : UNCHANGED <<pc[v], batch[v]>>
        BY <1>2 DEF Pick, KernelInv, Types
    <2>2. Cardinality(batch'[w]) = Cardinality(batch[w]) - 1
        <3>1. IsFiniteSet(batch[w])
            BY OwingIsTyped
        <3>. QED BY <2>1, <3>1, FS_RemoveElement
    <2>3. Owing'[w] <= Owing[w]
        <3>1. Cardinality(batch[w]) \in Nat
            BY OwingIsTyped
        <3>2. Owing[w] = Cardinality(batch[w]) + 0
            BY <2>1 DEF Owing
        <3>3. Owing'[w] = Cardinality(batch'[w]) + 1
            BY <2>1 DEF Owing
        <3>. QED BY <2>2, <3>1, <3>2, <3>3
    <2>. QED BY <1>1, <2>1, <2>3
<1>3. ASSUME NEW w \in Worker,
             \/ ToolRaises(w) \/ ToolAnswers(w) \/ InjectedToolAnswers(w)
             \/ complete_agent_task(w) \/ fail_agent_task(w) \/ ClaimRefused(w)
             \/ Pausing(w)
      PROVE  \A v \in Worker : Owing'[v] <= Owing[v]
    <2>1. /\ batch' = batch /\ \A v \in Worker \ {w} : pc'[v] = pc[v]
          /\ pc'[w] \in InHand => pc[w] \in InHand
        BY <1>3
        DEF ToolRaises, Calling, ToolAnswers, InjectedToolAnswers, complete_agent_task,
            fail_agent_task, NextTask, ClaimRefused, Pausing, PersistPause, PauseIsLost,
            KernelInv, Types
    <2>2. Owing'[w] <= Owing[w]
        BY <2>1, OwingIsTyped DEF Owing
    <2>. QED BY <1>1, <2>1, <2>2
<1>4. ASSUME NEW w \in Worker, TickAborts(w)
      PROVE  \A v \in Worker : Owing'[v] <= Owing[v]
    <2>1. /\ pc'[w] = "idle" /\ batch'[w] = {}
          /\ \A v \in Worker \ {w} : UNCHANGED <<pc[v], batch[v]>>
        BY <1>4 DEF TickAborts, KernelInv, Types
    <2>2. Owing'[w] = 0
        BY <2>1, FS_EmptySet DEF Owing
    <2>. QED BY <1>1, <2>1, <2>2, OwingIsTyped
<1>5. CASE UNCHANGED <<pc, batch>>
    BY <1>5, OwingIsTyped DEF Owing
<1>6. ASSUME NEW w \in Worker, ToolCall(w) PROVE UNCHANGED <<pc, batch>>
    BY <1>6 DEF ToolCall
<1>7. ASSUME \/ \E s \in {"running", "paused", "blocked"} : set_agent_status(s)
             \/ Environment /\ UNCHANGED <<job, wiring, registry, task, tickVars, runs, aborts>>
             \/ UNCHANGED vars
      PROVE  UNCHANGED <<pc, batch>>
    BY <1>7 DEF set_agent_status, tickVars, vars
<1>. QED BY <1>2, <1>3, <1>4, <1>5, <1>6, <1>7 DEF Next, Tick

\* Only a report of success is spent.
LEMMA OnlyReportsSpend ==
    ASSUME Counters, [Next]_vars, ~\E w \in Worker : record_agent_spend(w)
    PROVE  registry'.spent = registry.spent
<1>1. ASSUME NEW w \in Worker, Tick(w) PROVE registry' = registry
    BY <1>1
    DEF Tick, claim_agent_tasks, ClaimRefused, Pick, ToolCall, ToolRaises, ToolAnswers,
        InjectedToolAnswers, complete_agent_task, fail_agent_task
<1>2. ASSUME NEW w \in Worker, Pausing(w) \/ TickAborts(w)
      PROVE  registry' \in {registry, [registry EXCEPT !.status = "paused"]}
    BY <1>2 DEF Pausing, PersistPause, PauseIsLost, TickAborts
<1>3. ASSUME NEW s \in {"running", "paused", "blocked"}, set_agent_status(s)
      PROVE  registry' = [registry EXCEPT !.status = s]
    BY <1>3 DEF set_agent_status
<1>4. \/ registry' = registry
      \/ \E s \in {"running", "paused", "blocked"} : registry' = [registry EXCEPT !.status = s]
    BY <1>1, <1>2, <1>3 DEF Next, vars
<1>. QED BY <1>4 DEF Counters

\* A claim finds money left and takes no more than its limit; whatever is spent
\* afterwards was owed before.
LEMMA AffordableStep ==
    ASSUME KernelInv, KernelInv', Counters, Affordable, [Next]_vars
    PROVE  Affordable'
<1>1. Owing \in [Worker -> Nat] /\ Owing' \in [Worker -> Nat] /\ ClaimLimit \in [Worker -> Nat]
    <2>1. KernelInv' => (Owing \in [Worker -> Nat])'
        BY OwingIsTyped, PTL
    <2>. QED BY <2>1, OwingIsTyped, KernelAssumption
<1>2. /\ Total(Owing) \in Nat /\ Total(Owing') \in Nat /\ Total(ClaimLimit) \in Nat
      /\ registry.spent \in Nat /\ Budget \in Nat
    <2>1. \A f \in [Worker -> Nat] : Total(f) \in Nat
        BY KernelAssumption, SumsCompare
    <2>. QED BY <1>1, <2>1, KernelAssumption DEF Counters
<1>3. \A w \in Worker : ClaimLimit[w] \in Nat /\ Owing[w] \in Nat /\ Owing'[w] \in Nat
    BY <1>1
<1>4. ASSUME NEW w \in Worker, claim_agent_tasks(w) PROVE Affordable'
    <2>1. PICK ts \in SUBSET Claimable :
              /\ Cardinality(ts) <= ClaimLimit[w] /\ batch' = [batch EXCEPT ![w] = ts]
        BY <1>4 DEF claim_agent_tasks
    <2>2. Funded /\ registry' = registry /\ pc' = [pc EXCEPT ![w] = "pick"]
        BY <1>4 DEF claim_agent_tasks, Goto
    <2>3. Owing'[w] <= ClaimLimit[w]
        <3>1. batch'[w] = ts /\ pc'[w] \notin InHand
            BY <2>1, <2>2 DEF KernelInv, Types, InHand
        <3>2. Owing'[w] = Cardinality(ts) \/ ~(Cardinality(ts) \in Nat)
            BY <3>1 DEF Owing
        <3>3. IsFiniteSet(ts)
            BY KernelAssumption, FS_Subset DEF Claimable
        <3>. QED BY <2>1, <3>2, <3>3, FS_CardinalityType
    <2>4. \A v \in Worker \ {w} : Owing'[v] = Owing[v]
        BY <2>1, <2>2 DEF KernelInv, Types, Owing
    <2>5. \A v \in Worker : Owing'[v] <= ClaimLimit[v]
        BY <2>3, <2>4 DEF Affordable
    <2>6. Total(Owing') <= Total(ClaimLimit)
        BY <1>1, <2>5, KernelAssumption, SumsCompare
    <2>7. registry'.spent + Total(Owing') < Budget + Total(ClaimLimit)
        BY <1>2, <2>2, <2>6 DEF Funded
    <2>. QED BY <2>5, <2>7 DEF Affordable
<1>5. ASSUME NEW w \in Worker, record_agent_spend(w) PROVE Affordable'
    <2>1. /\ pc[w] = "spend" /\ UNCHANGED batch /\ pc'[w] \in {"idle", "pick"}
          /\ \A v \in Worker \ {w} : pc'[v] = pc[v]
          /\ registry'.spent = registry.spent + 1
        BY <1>5 DEF record_agent_spend, NextTask, Goto, KernelInv, Types, Counters
    <2>2. Owing'[w] < Owing[w] /\ \A v \in Worker \ {w} : Owing'[v] = Owing[v]
        BY <2>1, OwingIsTyped DEF Owing, InHand
    <2>3. \A v \in Worker : Owing'[v] <= Owing[v]
        BY <1>3, <2>2
    <2>4. Total(Owing') < Total(Owing)
        BY <1>1, <2>2, <2>3, KernelAssumption, SumsCompare
    <2>5. \A v \in Worker : Owing'[v] <= ClaimLimit[v]
        BY <1>3, <2>3 DEF Affordable
    <2>6. registry'.spent + Total(Owing') < Budget + Total(ClaimLimit)
        BY <1>2, <2>1, <2>4 DEF Affordable
    <2>. QED BY <2>5, <2>6 DEF Affordable
<1>6. CASE ~\E w \in Worker : claim_agent_tasks(w) \/ record_agent_spend(w)
    <2>1. registry'.spent = registry.spent
        BY <1>6, OnlyReportsSpend
    <2>2. \A v \in Worker : Owing'[v] <= Owing[v]
        BY <1>6, OwingShrinks
    <2>3. Total(Owing') <= Total(Owing)
        BY <1>1, <2>2, KernelAssumption, SumsCompare
    <2>4. \A v \in Worker : Owing'[v] <= ClaimLimit[v]
        BY <1>3, <2>2 DEF Affordable
    <2>5. registry'.spent + Total(Owing') < Budget + Total(ClaimLimit)
        BY <1>2, <2>1, <2>3 DEF Affordable
    <2>. QED BY <2>4, <2>5 DEF Affordable
<1>. QED BY <1>4, <1>5, <1>6

\* Nobody owes anything before the first tick.
LEMMA AffordableHolds == Spec => []Affordable
<1>1. Init => Affordable
    <2>. SUFFICES ASSUME Init PROVE Affordable
        OBVIOUS
    <2>1. \A w \in Worker : Owing[w] = 0 /\ 0 <= ClaimLimit[w]
        BY KernelAssumption, FS_EmptySet DEF Init, Owing, InHand
    <2>2. /\ Owing \in [Worker -> Nat] /\ ClaimLimit \in [Worker -> Nat]
          /\ \A w \in Worker : Owing[w] <= ClaimLimit[w]
        BY <2>1, KernelAssumption DEF Owing
    <2>3. /\ Total(Owing) \in Nat /\ Total(ClaimLimit) \in Nat
          /\ Total(Owing) <= Total(ClaimLimit)
        BY <2>2, KernelAssumption, SumsCompare
    <2>. QED BY <2>2, <2>3, KernelAssumption DEF Affordable, Init
<1>. QED BY <1>1, AffordableStep, KernelInvariant, CountersHold, PTL DEF Spec

----------------------------------------------------------------------------
(* The contract of the durable queue, which these tasks keep without leases. *)

Phase(status) ==
    IF status = "done" THEN "succeeded"
    ELSE IF status = "dead" THEN "dead_lettered" ELSE "open"

phaseOf == [t \in Task |-> Phase(task[t].status)]
triesOf == [t \in Task |-> task[t].attempts]

Contract == INSTANCE TaskContract WITH phase <- phaseOf, tries <- triesOf

\* A task is in hand because it was claimed.
ClaimedWasCounted ==
    \A t \in Task : task[t].status \in {"claimed", "done"} => task[t].attempts > 0

LEMMA ClaimedStep ==
    ASSUME KernelInv, ClaimedWasCounted, [Next]_vars
    PROVE  /\ ClaimedWasCounted'
           /\ [Contract!ContractNext]_(Contract!contractVars)
<1>1. CASE UNCHANGED task
    BY <1>1 DEF ClaimedWasCounted, phaseOf, triesOf, Contract!contractVars
<1>2. ASSUME NEW w \in Worker, claim_agent_tasks(w)
      PROVE  ClaimedWasCounted' /\ Contract!ContractNext
    <2>1. PICK ts \in SUBSET Claimable :
              task' = [t \in Task |-> IF t \in ts
                                      THEN [status |-> "claimed", attempts |-> Counted(t)]
                                      ELSE task[t]]
        BY <1>2 DEF claim_agent_tasks
    <2>2. \A t \in ts : /\ t \in Task /\ task[t].status = "queued"
                        /\ task[t].attempts \in Nat /\ task[t].attempts < MaxAttempts
                        /\ Counted(t) = task[t].attempts + 1
        BY KernelAssumption DEF Claimable, Counted, KernelInv, Types, AttemptsAreCounted
    <2>3. ClaimedWasCounted'
        BY <2>1, <2>2 DEF ClaimedWasCounted
    <2>4. \A t \in ts : phaseOf[t] = "open" /\ triesOf[t] < MaxAttempts
        BY <2>2 DEF phaseOf, Phase, triesOf
    <2>5. phaseOf' = phaseOf
        <3>1. \A t \in Task : Phase(task'[t].status) = Phase(task[t].status)
            BY <2>1, <2>2 DEF Phase
        <3>. QED BY <3>1 DEF phaseOf
    <2>6. triesOf' = [t \in Task |-> IF t \in ts THEN triesOf[t] + 1 ELSE triesOf[t]]
        BY <2>1, <2>2 DEF triesOf
    <2>7. Contract!Try(ts)
        BY <2>4, <2>5, <2>6 DEF Contract!Try
    <2>8. ts \in SUBSET Task
        BY <2>2
    <2>. QED BY <2>3, <2>7, <2>8 DEF Contract!ContractNext
<1>3. ASSUME NEW w \in Worker, complete_agent_task(w) \/ fail_agent_task(w)
      PROVE  /\ ClaimedWasCounted'
             /\ Contract!ContractNext \/ UNCHANGED Contract!contractVars
    <2>. DEFINE c == cur[w]
    <2>1. /\ c \in Task /\ task[c].status = "claimed"
          /\ task[c].attempts \in 1..MaxAttempts /\ MaxAttempts \in Nat
        BY <1>3, KernelAssumption
        DEF complete_agent_task, fail_agent_task, KernelInv, Types, Standing, InHand,
            ClaimedWasCounted
    <2>2. PICK st \in {"done", "dead", "queued"} :
              /\ task' = [task EXCEPT ![c].status = st]
              /\ st = "dead" => Exhausted(c)
        BY <1>3 DEF complete_agent_task, fail_agent_task
    <2>3. /\ \A t \in Task : task'[t].attempts = task[t].attempts
          /\ \A t \in Task \ {c} : task'[t] = task[t]
          /\ task'[c].status = st
        BY <2>1, <2>2 DEF KernelInv, Types
    <2>4. ClaimedWasCounted'
        BY <2>1, <2>3 DEF ClaimedWasCounted
    <2>5. triesOf' = triesOf /\ triesOf[c] > 0 /\ phaseOf[c] = "open"
        BY <2>1, <2>3 DEF triesOf, phaseOf, Phase
    <2>6. phaseOf' = [phaseOf EXCEPT ![c] = Phase(st)]
        <3>1. \A t \in Task : Phase(task'[t].status) = IF t = c THEN Phase(st)
                                                        ELSE Phase(task[t].status)
            BY <2>3
        <3>. QED BY <3>1 DEF phaseOf
    <2>7. CASE st = "queued"
        <3>1. phaseOf' = phaseOf
            BY <2>1, <2>5, <2>6, <2>7 DEF phaseOf, Phase
        <3>. QED BY <2>4, <2>5, <3>1 DEF Contract!contractVars
    <2>8. CASE st = "done"
        <3>1. phaseOf' = [phaseOf EXCEPT ![c] = "succeeded"]
            BY <2>6, <2>8 DEF Phase
        <3>2. Contract!Settle(c)
            BY <2>5, <3>1 DEF Contract!Settle
        <3>. QED BY <2>1, <2>4, <3>2 DEF Contract!ContractNext
    <2>9. CASE st = "dead"
        <3>1. phaseOf' = [phaseOf EXCEPT ![c] = "dead_lettered"]
            BY <2>6, <2>9 DEF Phase
        <3>2. triesOf[c] = MaxAttempts
            BY <2>1, <2>2, <2>9 DEF Exhausted, triesOf
        <3>3. Contract!Settle(c)
            BY <2>5, <3>1, <3>2 DEF Contract!Settle
        <3>. QED BY <2>1, <2>4, <3>3 DEF Contract!ContractNext
    <2>. QED BY <2>7, <2>8, <2>9
<1>4. ASSUME NEW w \in Worker,
             \/ ClaimRefused(w) \/ \E t \in Task : Pick(w, t)
             \/ ToolCall(w) \/ ToolRaises(w) \/ ToolAnswers(w) \/ InjectedToolAnswers(w)
             \/ record_agent_spend(w) \/ Pausing(w) \/ TickAborts(w)
      PROVE  UNCHANGED task
    BY <1>4
    DEF ClaimRefused, Pick, ToolCall, ToolRaises, ToolAnswers, InjectedToolAnswers,
        record_agent_spend, Pausing, TickAborts
<1>5. ASSUME \/ \E s \in {"running", "paused", "blocked"} : set_agent_status(s)
             \/ Environment /\ UNCHANGED <<job, wiring, registry, task, tickVars, runs, aborts>>
             \/ UNCHANGED vars
      PROVE  UNCHANGED task
    BY <1>5 DEF set_agent_status, vars
<1>. QED BY <1>1, <1>2, <1>3, <1>4, <1>5 DEF Next, Tick

\* Without leases, but with the same attempts: every step of the kernels is, for
\* the tasks, a step of the contract of the durable queue.  A task that was done
\* or given up stays so, whatever late or aborted ticks report.
THEOREM TasksKeepTheContract == Spec => [][Contract!ContractNext]_(Contract!contractVars)
<1>1. Init => ClaimedWasCounted
    BY DEF Init, ClaimedWasCounted
<1>. QED BY <1>1, ClaimedStep, KernelInvariant, PTL DEF Spec

----------------------------------------------------------------------------

\* Every state of the kernels, the tools and their rows is well typed.
THEOREM TypeCorrect == Spec => []TypeOK
<1>1. KernelInv /\ ToolInv /\ Counters => TypeOK
    <2>1. ASSUME KernelInv PROVE runs \in [Task -> 0..MaxAttempts]
        BY <2>1, KernelAssumption DEF KernelInv, Types, AttemptsAreCounted
    <2>. QED BY <2>1 DEF KernelInv, Types, ToolInv, Counters, TypeOK
<1>. QED BY <1>1, KernelInvariant, ToolInvariant, CountersHold, PTL

\* Whatever half-finished, repeated and interleaved tools do, an order on the
\* road has a provider, and what counts as sent was delivered and logged once
\* at most.
THEOREM RowsAreTrue == Spec => []RowsTellTheTruth
<1>1. ToolInv => RowsTellTheTruth
    BY DEF ToolInv
<1>. QED BY <1>1, ToolInvariant, PTL

\* However many kernels check the budget at the same time, the agent spends less
\* than one batch of each beyond it.
THEOREM OverspendingIsBounded == Spec => []OvershootIsBounded
<1>1. KernelInv /\ Counters /\ Affordable => OvershootIsBounded
    <2>. SUFFICES ASSUME KernelInv, Counters, Affordable PROVE OvershootIsBounded
        OBVIOUS
    <2>1. \A f \in [Worker -> Nat] : Total(f) \in Nat
        BY KernelAssumption, SumsCompare
    <2>2. Total(Owing) \in Nat /\ Total(ClaimLimit) \in Nat
        BY <2>1, OwingIsTyped, KernelAssumption
    <2>3. registry.spent < Budget + Total(ClaimLimit)
        BY <2>2, KernelAssumption DEF Counters, Affordable
    <2>4. OvershootIsBounded <=> registry.spent < Budget + Total(ClaimLimit)
        BY Zenon DEF OvershootIsBounded, Total
    <2>. QED BY <2>3, <2>4
<1>. QED BY <1>1, KernelInvariant, CountersHold, AffordableHolds, PTL

=============================================================================
