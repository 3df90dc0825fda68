---------------------------- MODULE MCAgentKernel ---------------------------
(* AgentKernel for TLC: jobs that get in each other's way for the default   *)
(* tools, and more tasks of one job for an injected tool without rows.      *)
EXTENDS AgentKernel, TLC

CONSTANTS w1, w2

MCClaimLimit == w1 :> 2 @@ w2 :> 1

Jobs(tool) ==
    {j \in Job :
        /\ j.tool = tool
        /\ tool = "process_payment_event" => j.event = "captured"
        /\ tool = "update_delivery_status" => j.action # "in_transit"}

\* The tools of the first and the second task, and the state of the order.
Meetings == {<<"process_payment_event", "assign_driver", "pending">>,
             <<"place_order", "razorpay_payment.captured", "pending">>,
             <<"assign_driver", "assign_driver", "payment_succeeded">>,
             <<"assign_driver", "update_delivery_status", "payment_succeeded">>,
             <<"process_document_upload", "update_delivery_status", "in_transit">>,
             <<"process_notification_job", "process_notification_job", "pending">>}

Meeting(m) ==
    /\ wiring = "default"
    /\ order = [o \in Order |-> m[3]]
    /\ \E j \in Jobs(m[1]), k \in Jobs(m[2]) : job = [t \in Task |-> IF t = 1 THEN j ELSE k]

\* Four tasks of two jobs, none of which is a repetition in a batch.
InjectedJobs ==
    /\ wiring = "injected"
    /\ order = [o \in Order |-> "pending"]
    /\ \E j \in Jobs("place_order"), k \in Jobs("razorpay_payment.captured") :
          job = [t \in Task |-> IF t % 2 = 0 THEN j ELSE k]

MCInit ==
    /\ InjectedJobs \/ \E m \in Meetings : Meeting(m)
    /\ Init
    /\ {t \in Task : task[t].status = "queued"} = IF wiring = "default" THEN {1, 2} ELSE Task

\* With an injected tool nothing dies and the administrator pauses the agent;
\* with the default ones, which never spend anything, he leaves it running.
MCNext ==
    /\ Next
    /\ IF wiring = "default" THEN UNCHANGED registry
       ELSE UNCHANGED <<toolVars, aborts>> /\ registry'.status # "blocked"
MCSpec == MCInit /\ [][MCNext]_vars /\ Fairness

=============================================================================
