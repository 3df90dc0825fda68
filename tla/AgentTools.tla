----------------------------- MODULE AgentTools -----------------------------
(***************************************************************************)
(* The business tools of the agent workers (handlers.py) and the rows of   *)
(* the hosted database they work on.  A tool is a sequence of remote       *)
(* calls, each one database transaction: "todo" of a worker is what its    *)
(* tool has still to call, and a call may put other calls in its place.    *)
(***************************************************************************)
EXTENDS Integers, Sequences, FiniteSets

CONSTANTS Order, Driver, Notification, None,
          MaxSends   \* notification_queue.max_attempts

ASSUME ToolsAssumption == MaxSends \in Nat \ {0} /\ None \notin Driver

VARIABLES
    order,      \* orders.order_status
    quoted,     \* orders that carry the amounts of a quote
    provider,   \* orders.provider_id
    documents,  \* order_documents: rows per order and document type
    notice,     \* notification_queue: status, attempts and whether it is due
    delivered,  \* how often a provider accepted the message
    logged      \* notification_log: rows per notification

toolVars == <<order, quoted, provider, documents, notice, delivered, logged>>

Chain == <<"pending", "inventory_confirmed", "payment_succeeded", "driver_assigned",
           "in_transit", "delivered", "payment_settled">>
OrderState == {Chain[i] : i \in DOMAIN Chain} \cup {"cancelled"}
MayFollow == {<<Chain[i], Chain[i + 1]>> : i \in 1..Len(Chain) - 1}
                \cup {<<s, "cancelled">> : s \in OrderState \ {"payment_settled", "cancelled"}}
DocumentType == {"pod", "other"}

ToolsInit ==
    /\ order \in [Order -> {"pending", "payment_succeeded", "in_transit"}]
    /\ quoted = {}
    /\ provider \in {p \in [Order -> Driver \cup {None}] :
                      \A o \in Order : p[o] = None <=> order[o] # "in_transit"}
    /\ documents = [o \in Order |-> [d \in DocumentType |-> 0]]
    /\ notice = [n \in Notification |-> [status |-> "queued", attempts |-> 0, due |-> TRUE]]
    /\ delivered = [n \in Notification |-> 0]
    /\ logged = [n \in Notification |-> 0]

----------------------------------------------------------------------------
(* Remote calls: what a worker has to do.                                  *)

Transition(o, s) == [call |-> "transition_order", order |-> o, to |-> s]
Quote(o)         == [call |-> "generate_quote", order |-> o]
CheckPlan        == [call |-> "validate_payment_plan"]
Match(o)         == [call |-> "match_drivers", order |-> o]
Assign(o, d)     == [call |-> "assign_provider", order |-> o, driver |-> d]
Upsert(o, d)     == [call |-> "upsert_document", order |-> o, type |-> d]
Send(n)          == [call |-> "send", notice |-> n]
MarkSent(n)      == [call |-> "mark_notification_sent", notice |-> n]
Log(n)           == [call |-> "log_notification", notice |-> n]
MarkFailed(n)    == [call |-> "mark_notification_failed", notice |-> n]
Decline          == [call |-> "decline"]   \* not a call: the tool returns ok = False

(* The handlers: what a task of each type makes a worker call.             *)

\* A failed payment is recorded upstream; every other event, the capture too,
\* asks for the step to inventory_confirmed.
process_payment_event(j) ==
    IF j.event = "failed" THEN << >> ELSE <<Transition(j.order, "inventory_confirmed")>>

\* OCR is best effort and changes no row of its own.
process_document_upload(j) ==
    <<Upsert(j.order, j.type)>>
        \o IF j.type = "pod" THEN <<Transition(j.order, "delivered")>> ELSE << >>

process_notification_job(j) == <<Send(j.notice)>>

place_order(j) == <<Quote(j.order), CheckPlan, Transition(j.order, "pending")>>

assign_driver(j) == <<Match(j.order)>>

\* Mutant: the order advances before its provider is written.
AdvanceThenAssign(o, d) == <<Transition(o, "driver_assigned"), Assign(o, d)>>
\* The second half of assign_driver, once a driver is found.
AssignThenAdvance(o, d) == <<Assign(o, d), Transition(o, "driver_assigned")>>

update_delivery_status(j) ==
    <<Transition(j.order, IF j.action = "delivered" THEN "delivered" ELSE "in_transit")>>

Job ==
    [tool : {"process_payment_event"}, order : Order, event : {"captured", "failed"}]
    \cup [tool : {"process_document_upload"}, order : Order, type : DocumentType]
    \cup [tool : {"process_notification_job"}, notice : Notification]
    \cup [tool : {"place_order", "assign_driver"}, order : Order]
    \cup [tool : {"update_delivery_status"}, order : Order,
          action : {"pickup", "in_transit", "delivered"}]
    \cup [tool : {"razorpay_payment.captured"}]

\* default_tools_for: the tools the kernel wires.
DefaultTools == {"process_payment_event", "process_document_upload",
                 "process_notification_job", "place_order", "assign_driver",
                 "update_delivery_status"}

Plan(j) ==
    CASE j.tool = "process_payment_event"    -> process_payment_event(j)
      [] j.tool = "process_document_upload"  -> process_document_upload(j)
      [] j.tool = "process_notification_job" -> process_notification_job(j)
      [] j.tool = "place_order"              -> place_order(j)
      [] j.tool = "assign_driver"            -> assign_driver(j)
      [] j.tool = "update_delivery_status"   -> update_delivery_status(j)

----------------------------------------------------------------------------
(* The effect of a call that is answered; rest is the todo it leaves.      *)

\* "Invalid transition" is raised and swallowed by the handler.
transition_order(c, rest, left) ==
    /\ c.call = "transition_order"
    /\ order' = IF <<order[c.order], c.to>> \in MayFollow
                THEN [order EXCEPT ![c.order] = c.to] ELSE order
    /\ left = rest
    /\ UNCHANGED <<quoted, provider, documents, notice, delivered, logged>>

generate_order_quote(c, rest, left) ==
    /\ c.call = "generate_quote" /\ order[c.order] = "pending"
    /\ quoted' = quoted \cup {c.order}
    /\ left = rest
    /\ UNCHANGED <<order, provider, documents, notice, delivered, logged>>

validate_payment_plan(c, rest, left) ==
    /\ c.call = "validate_payment_plan"
    /\ left \in {rest, <<Decline>>}
    /\ UNCHANGED toolVars

\* A read: some driver, or none.
match_nearby_drivers(c, left) ==
    /\ c.call = "match_drivers"
    /\ left \in {<< >>} \cup {AssignThenAdvance(c.order, d) : d \in Driver}
    /\ UNCHANGED toolVars

\* The row is written whatever state the order is in.
assign_order_provider(c, rest, left) ==
    /\ c.call = "assign_provider"
    /\ provider' = [provider EXCEPT ![c.order] = c.driver]
    /\ left = rest
    /\ UNCHANGED <<order, quoted, documents, notice, delivered, logged>>

\* In spite of its name a plain INSERT.
upsert_order_document(c, rest, left) ==
    /\ c.call = "upsert_document"
    /\ documents' = [documents EXCEPT ![c.order][c.type] = @ + 1]
    /\ left = rest
    /\ UNCHANGED <<order, quoted, provider, notice, delivered, logged>>

\* The sender answers that it delivered, or that it did not.
send(c, left) ==
    /\ c.call = "send"
    /\ \/ /\ delivered' = [delivered EXCEPT ![c.notice] = @ + 1]
          /\ left = <<MarkSent(c.notice), Log(c.notice)>>
       \/ /\ left = <<MarkFailed(c.notice), Decline>>
          /\ UNCHANGED delivered
    /\ UNCHANGED <<order, quoted, provider, documents, notice, logged>>

mark_notification_sent(c, rest, left) ==
    /\ c.call = "mark_notification_sent" /\ notice[c.notice].status = "processing"
    /\ notice' = [notice EXCEPT ![c.notice].status = "sent"]
    /\ left = rest
    /\ UNCHANGED <<order, quoted, provider, documents, delivered, logged>>

log_notification(c, rest, left) ==
    /\ c.call = "log_notification"
    /\ logged' = [logged EXCEPT ![c.notice] = @ + 1]
    /\ left = rest
    /\ UNCHANGED <<order, quoted, provider, documents, notice, delivered>>

mark_notification_failed(c, rest, left) ==
    LET n == notice[c.notice]
    IN  /\ c.call = "mark_notification_failed" /\ n.status = "processing"
        /\ notice' = [notice EXCEPT ![c.notice] =
                         IF n.attempts >= MaxSends THEN [n EXCEPT !.status = "failed"]
                         ELSE [n EXCEPT !.status = "queued", !.due = FALSE]]
        /\ left = rest
        /\ UNCHANGED <<order, quoted, provider, documents, delivered, logged>>

Answered(c, rest, left) ==
    \/ transition_order(c, rest, left)
    \/ generate_order_quote(c, rest, left)
    \/ validate_payment_plan(c, rest, left)
    \/ match_nearby_drivers(c, left)
    \/ assign_order_provider(c, rest, left)
    \/ upsert_order_document(c, rest, left)
    \/ send(c, left)
    \/ mark_notification_sent(c, rest, left)
    \/ log_notification(c, rest, left)
    \/ mark_notification_failed(c, rest, left)

----------------------------------------------------------------------------
(* Other parties.                                                          *)

\* grab_notification_jobs, called by whoever turns jobs into tasks: queued and
\* processing rows alike.
grab_notification_jobs(n) ==
    /\ notice[n].status \in {"queued", "processing"} /\ notice[n].due
    /\ notice[n].attempts < MaxSends
    /\ notice' = [notice EXCEPT ![n].status = "processing", ![n].attempts = @ + 1]
    /\ UNCHANGED <<order, quoted, provider, documents, delivered, logged>>

RetryIsDue(n) ==
    /\ ~notice[n].due
    /\ notice' = [notice EXCEPT ![n].due = TRUE]
    /\ UNCHANGED <<order, quoted, provider, documents, delivered, logged>>

\* The payment service moves a confirmed order on, or a customer cancels.
OthersTransition(o, s) ==
    /\ s \in {"payment_succeeded", "cancelled"} /\ <<order[o], s>> \in MayFollow
    /\ order' = [order EXCEPT ![o] = s]
    /\ UNCHANGED <<quoted, provider, documents, notice, delivered, logged>>

Environment ==
    \/ \E n \in Notification : grab_notification_jobs(n) \/ RetryIsDue(n)
    \/ \E o \in Order, s \in OrderState : OthersTransition(o, s)

----------------------------------------------------------------------------
(* Properties.                                                             *)

ToolsTypeOK ==
    /\ order \in [Order -> OrderState]
    /\ quoted \subseteq Order
    /\ provider \in [Order -> Driver \cup {None}]
    /\ documents \in [Order -> [DocumentType -> Nat]]
    /\ notice \in [Notification -> [status : {"queued", "processing", "sent", "failed"},
                                    attempts : 0..MaxSends, due : BOOLEAN]]
    /\ delivered \in [Notification -> Nat]
    /\ logged \in [Notification -> Nat]

\* Whatever retries, duplicates and half-finished tools do, the rows never
\* claim more than happened: an order on the road has a provider, and a
\* notification that counts as sent was delivered and is logged at most once.
RowsTellTheTruth ==
    /\ \A o \in Order : order[o] \in {"driver_assigned", "in_transit", "delivered"}
                          => provider[o] # None
    /\ \A n \in Notification :
          /\ notice[n].status = "sent" => delivered[n] > 0
          /\ logged[n] <= IF notice[n].status = "sent" THEN 1 ELSE 0

=============================================================================
