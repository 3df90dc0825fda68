--------------------------- MODULE GatewayFinance ---------------------------
(***************************************************************************)
(* Payment evidence and manual refunds (api/repositories_finance.py): the  *)
(* webhook of the payment gateway, the mapping of provider references to   *)
(* orders, the projection of verified events, the sweep and the re-drive   *)
(* of receipts that were not projected, and the refund workflow that       *)
(* refund.processed events are reconciled with.                            *)
(*                                                                         *)
(* Each method is one transaction whose conflicting rows are locked or     *)
(* arbitrated by a unique index, so that it is one step.  The gateway      *)
(* delivers events late, in any order and more than once; the mapping or   *)
(* the refund an event belongs to may be recorded before or after it.      *)
(***************************************************************************)
EXTENDS Integers, Sequences, SequencesExt

CONSTANTS Order,
          Reference,      \* provider order references
          GatewayRefund,  \* refund ids of the gateway
          Event,          \* provider_event_id values
          Content,        \* what an event says: [Event -> [type, ref, amount]]
          Amount,         \* minor-unit amounts, each with its currency
          Refund,         \* refund requests, named by their idempotency keys
          ExecutionKey,   \* idempotency keys of refund executions
          Account, Admin, \* accounts that may request, accounts that may decide
          SweepLimit,     \* LIMIT of sweep_stale_receipts (100)
          None            \* SQL NULL

EVENT_PROJECTION_STATUS ==
    [authorized |-> "pending", captured |-> "evidence_verified", failed |-> "failed"]
PaymentTypes == DOMAIN EVENT_PROJECTION_STATUS
RECONCILE_ONLY_EVENTS == {"refund_processed"}
EventTypes == PaymentTypes \cup RECONCILE_ONLY_EVENTS \cup {"unsupported"}

ASSUME ContentAssumption ==
    Content \in [Event -> [type : EventTypes, ref : Reference \cup GatewayRefund \cup {None},
                           amount : Amount \cup {None}]]
ASSUME AmountAssumption == Amount \subseteq Nat \ {0}
ASSUME AdminAssumption == Admin \subseteq Account
ASSUME SweepAssumption == SweepLimit \in Nat \ {0}

\* Amounts arrive in minor units and are stored as two-digit decimals.
minor_units_to_major(a) == <<a \div 100, a % 100>>
major_units_to_minor(m) == m[1] * 100 + m[2]
Major == {minor_units_to_major(a) : a \in Amount}

\* Rows of payment_intents, gateway_events and the refund tables.
IntentRow == [order : Order, amount : Amount]
GatewayEventRow == [order : Order, amount : Major, hash : Event \cup {None}]
RefundRow == [order : Order, requester : Account, amount : Major,
              status : {"requested", "approved", "rejected", "executed"},
              approver : Admin \cup {None}, gateway : GatewayRefund \cup {None},
              key : ExecutionKey \cup {None}]
ASSUME NoneAssumption == None \notin IntentRow \cup GatewayEventRow \cup RefundRow

VARIABLES
    intent,              \* reference: payment_intents row [order, amount], or None
    receipts,            \* webhook_receipts by received_at
    gateway_events,      \* receipt: gateway_events row [order, amount, hash], or None
    projections,         \* payment_projections: [order, event, status, amount]
    financial_requests,  \* draft_customer_invoice requests: [order, amount]
    outbox,              \* sse_projection outbox rows: [event, key]
    exceptions,          \* receipts with an operational exception
    task,                \* receipt: its gateway_reconcile task
    refund,              \* refund request row with decision and execution, or None
    synchronized         \* gateway refund ids marked synchronized

evidenceVars == <<gateway_events, projections, financial_requests, outbox, exceptions,
                  synchronized>>
vars == <<intent, receipts, evidenceVars, task, refund>>

Init ==
    /\ intent = [r \in Reference |-> None]
    /\ receipts = << >>
    /\ gateway_events = [e \in Event |-> None]
    /\ projections = {}
    /\ financial_requests = {}
    /\ outbox = {}
    /\ exceptions = {}
    /\ task = [e \in Event |-> "none"]
    /\ refund = [k \in Refund |-> None]
    /\ synchronized = {}

----------------------------------------------------------------------------
(* The mapping.                                                            *)

\* Mutant: the order-scoped uniqueness is not looked at.
PrepareAnyReference(r, o, a) ==
    /\ intent[r] = None
    /\ intent' = [intent EXCEPT ![r] = [order |-> o, amount |-> a]]
    /\ UNCHANGED <<receipts, evidenceVars, task, refund>>

\* One reference per order, one order per reference; what is bound stays.
prepare_payment_intent(r, o, a) ==
    /\ intent[r] = None
    /\ \A q \in Reference : intent[q] # None => intent[q].order # o
    /\ intent' = [intent EXCEPT ![r] = [order |-> o, amount |-> a]]
    /\ UNCHANGED <<receipts, evidenceVars, task, refund>>

_resolve_payment_mapping(ref) == IF ref \in Reference THEN intent[ref] ELSE None

----------------------------------------------------------------------------
(* The projection of one received event.                                   *)

_record_gateway_event(e, order, amount, hash) ==
    gateway_events' = [gateway_events EXCEPT ![e] =
        IF @ = None THEN [order |-> order, amount |-> amount, hash |-> hash] ELSE @]

Project(order, e, st, amount) ==
    projections' = projections \cup {[order |-> order, event |-> e, status |-> st, amount |-> amount]}

\* One invoice request per order, keyed odoo:draft_customer_invoice:<order>.
_ensure_financial_request(order, amount) ==
    financial_requests' = IF \E q \in financial_requests : q.order = order THEN financial_requests
                          ELSE financial_requests \cup {[order |-> order, amount |-> amount]}

\* ON CONFLICT (destination, idempotency_key) DO NOTHING.
_record_outbox(e, key) ==
    outbox' = IF \E row \in outbox : row.key = key THEN outbox
              ELSE outbox \cup {[event |-> e, key |-> key]}

RecordedOnly(e) ==
    /\ exceptions' = exceptions \cup {e}
    /\ UNCHANGED <<gateway_events, projections, financial_requests, outbox, synchronized>>

\* Mutant: the amount is not compared with the expected one.
MatchesAnyAmount(e) ==
    _resolve_payment_mapping(Content[e].ref) # None /\ Content[e].amount # None

\* The mapping and the event agree.
Matches(e) ==
    LET m == _resolve_payment_mapping(Content[e].ref)
    IN  m # None /\ Content[e].amount # None /\ m.amount = Content[e].amount

\* Mutant: minor units are stored as if they were major ones.
ProjectUnconverted(e, key, hash) ==
    LET order == _resolve_payment_mapping(Content[e].ref).order
        major == <<Content[e].amount, 0>>
    IN  /\ _record_gateway_event(e, order, major, hash)
        /\ Project(order, e, EVENT_PROJECTION_STATUS[Content[e].type], major)
        /\ _record_outbox(e, key)
        /\ UNCHANGED <<financial_requests, exceptions, synchronized>>

\* Evidence, projection, invoice request of a capture, and outbox row.
ProjectMapped(e, key, hash) ==
    LET order == _resolve_payment_mapping(Content[e].ref).order
        major == minor_units_to_major(Content[e].amount)
    IN  /\ _record_gateway_event(e, order, major, hash)
        /\ Project(order, e, EVENT_PROJECTION_STATUS[Content[e].type], major)
        /\ IF Content[e].type = "captured" THEN _ensure_financial_request(order, major)
                                           ELSE UNCHANGED financial_requests
        /\ _record_outbox(e, key)
        /\ UNCHANGED <<exceptions, synchronized>>

\* Mutant: an unmatched event raises no exception.
ProjectPaymentQuietly(e, key, hash) ==
    IF Matches(e) THEN ProjectMapped(e, key, hash) ELSE UNCHANGED evidenceVars

_project_payment(e, key, hash) ==
    IF Matches(e) THEN ProjectMapped(e, key, hash) ELSE RecordedOnly(e)

\* The executed refunds bound to the gateway id of the event.
Executed(k) == refund[k] # None /\ refund[k].status = "executed"
Matching(e) == {k \in Refund : Executed(k) /\ refund[k].gateway = Content[e].ref}

\* Mutant: an approved refund is enough.
ReconcileApproved(e, hash) ==
    LET approved == {k \in Refund : refund[k] # None /\ refund[k].status \in {"approved", "executed"}}
        major == minor_units_to_major(Content[e].amount)
    IN  IF Content[e].amount = None \/ approved = {} THEN RecordedOnly(e)
        ELSE \E k \in approved :
                /\ _record_gateway_event(e, refund[k].order, major, hash)
                /\ Project(refund[k].order, e, "reversed", major)
                /\ UNCHANGED <<financial_requests, outbox, exceptions, synchronized>>

\* Mutant: a refund event that matches nothing raises no exception.
ReconcileQuietly(e, hash) ==
    \/ /\ \A k \in Matching(e) : Content[e].amount # major_units_to_minor(refund[k].amount)
       /\ UNCHANGED evidenceVars
    \/ \E k \in Matching(e) :
          /\ Content[e].amount = major_units_to_minor(refund[k].amount)
          /\ _record_gateway_event(e, refund[k].order, refund[k].amount, hash)
          /\ Project(refund[k].order, e, "reversed", refund[k].amount)
          /\ synchronized' = synchronized \cup {refund[k].gateway}
          /\ UNCHANGED <<financial_requests, outbox, exceptions>>

_reconcile_refund(e, hash) ==
    \/ /\ \A k \in Matching(e) : Content[e].amount # major_units_to_minor(refund[k].amount)
       /\ RecordedOnly(e)
    \/ \E k \in Matching(e) :
          /\ Content[e].amount = major_units_to_minor(refund[k].amount)
          /\ _record_gateway_event(e, refund[k].order, refund[k].amount, hash)
          /\ Project(refund[k].order, e, "reversed", refund[k].amount)
          /\ synchronized' = synchronized \cup {refund[k].gateway}
          /\ UNCHANGED <<financial_requests, outbox, exceptions>>

_project_event(e, key, hash) ==
    \/ Content[e].type = "unsupported" /\ UNCHANGED evidenceVars
    \/ Content[e].type \in RECONCILE_ONLY_EVENTS /\ _reconcile_refund(e, hash)
    \/ Content[e].type \in PaymentTypes /\ _project_payment(e, key, hash)

----------------------------------------------------------------------------
(* Receipts: ingestion, sweep, re-drive.                                   *)

\* A repeated delivery finds the receipt and changes nothing.
ingest_gateway_event(e) ==
    /\ e \notin Range(receipts)
    /\ receipts' = Append(receipts, e)
    /\ _project_event(e, e, e)
    /\ UNCHANGED <<intent, task, refund>>

\* The oldest receipts without a gateway event, among the n that are old
\* enough, at most SweepLimit of them.
Unprojected(n) == {i \in 1..n : gateway_events[receipts[i]] = None}
Stale(n) == {receipts[i] : i \in {j \in Unprojected(n) :
                Cardinality({h \in Unprojected(n) : h < j}) < SweepLimit}}

\* Mutant: only receipts whose processing did not complete are swept.
SweepIncomplete(n) == n > 0 /\ UNCHANGED vars

\* The task key is the receipt: one re-drive task per receipt, ever.
sweep_stale_receipts(n) ==
    /\ task' = [e \in Event |-> IF e \in Stale(n) /\ task[e] = "none" THEN "queued" ELSE task[e]]
    /\ UNCHANGED <<intent, receipts, evidenceVars, refund>>

\* gateway_reconcile: reprocess_receipt commits before the task is completed,
\* so that it may run again.  The event is rebuilt from the payload reference,
\* without its provider_event_id and its payload hash.
reprocess_receipt(e, completed) ==
    /\ task[e] = "queued"
    /\ _project_event(e, None, None)
    /\ task' = [task EXCEPT ![e] = IF completed THEN "succeeded" ELSE @]
    /\ UNCHANGED <<intent, receipts, refund>>

----------------------------------------------------------------------------
(* Manual refunds.                                                         *)

refundFrame == <<intent, receipts, evidenceVars, task>>

request_refund(k, o, account, a) ==
    /\ refund[k] = None
    /\ refund' = [refund EXCEPT ![k] =
            [order |-> o, requester |-> account, amount |-> minor_units_to_major(a),
             status |-> "requested", approver |-> None, gateway |-> None, key |-> None]]
    /\ UNCHANGED refundFrame

\* Mutant: the requester may decide.
DecideOwnRefund(k, admin, decision) ==
    /\ refund[k] # None /\ refund[k].status = "requested"
    /\ refund' = [refund EXCEPT ![k].status = decision, ![k].approver = admin]
    /\ UNCHANGED refundFrame

decide_refund(k, admin, decision) ==
    /\ refund[k] # None /\ refund[k].status = "requested"
    /\ refund[k].requester # admin
    /\ refund' = [refund EXCEPT ![k].status = decision, ![k].approver = admin]
    /\ UNCHANGED refundFrame

\* The gateway id and the idempotency key must not belong to another request.
record_refund_execution(k, g, key) ==
    /\ refund[k] # None /\ refund[k].status = "approved"
    /\ \A j \in Refund : Executed(j) => refund[j].gateway # g /\ refund[j].key # key
    /\ refund' = [refund EXCEPT ![k].status = "executed", ![k].gateway = g, ![k].key = key]
    /\ UNCHANGED refundFrame

----------------------------------------------------------------------------

\* The webhook route lets only signed, well-formed bodies through; the others
\* are answered 401, 400 or 503 and reach no table.  Event holds the former.
razorpay_webhook(e) == ingest_gateway_event(e)

\* The refund routes: each is one transaction, whose identity decides who asks.
RefundRoute(k) ==
    \/ \E o \in Order, c \in Account, a \in Amount : request_refund(k, o, c, a)
    \/ \E c \in Admin, d \in {"approved", "rejected"} : decide_refund(k, c, d)
    \/ \E g \in GatewayRefund, x \in ExecutionKey : record_refund_execution(k, g, x)

Next ==
    \/ \E r \in Reference, o \in Order, a \in Amount : prepare_payment_intent(r, o, a)
    \/ \E e \in Event : razorpay_webhook(e) \/ \E done \in BOOLEAN : reprocess_receipt(e, done)
    \/ \E n \in 1..Len(receipts) : sweep_stale_receipts(n)
    \/ \E k \in Refund : RefundRoute(k)

Spec == Init /\ [][Next]_vars

\* Sweeps are run, receipts grow old, and workers complete re-drive tasks.
\* Nobody owes an event, a mapping or a refund decision.
Fairness == /\ WF_vars(sweep_stale_receipts(Len(receipts)))
            /\ \A e \in Event : WF_vars(reprocess_receipt(e, TRUE))

FairSpec == Spec /\ Fairness

----------------------------------------------------------------------------
(* Properties.                                                             *)

TypeOK ==
    /\ intent \in [Reference -> IntentRow \cup {None}]
    /\ receipts \in Seq(Event)
    /\ gateway_events \in [Event -> GatewayEventRow \cup {None}]
    /\ projections \subseteq [order : Order, event : Event, amount : Major,
                              status : {"pending", "evidence_verified", "failed", "reversed"}]
    /\ financial_requests \subseteq [order : Order, amount : Major]
    /\ outbox \subseteq [event : Event, key : Event \cup {None}]
    /\ exceptions \subseteq Event
    /\ task \in [Event -> {"none", "queued", "succeeded"}]
    /\ refund \in [Refund -> RefundRow \cup {None}]
    /\ synchronized \subseteq GatewayRefund

\* No money is shown without evidence: whatever the order in which events,
\* mappings, refund decisions and re-drives arrive, a payment projection agrees
\* with the authoritative mapping of its reference, and a reversal with an
\* executed refund that somebody other than its requester approved.
ProjectionsAreBacked ==
    \A p \in projections :
        LET c == Content[p.event]
        IN  /\ p.event \in Range(receipts)
            /\ gateway_events[p.event] # None
            /\ gateway_events[p.event].order = p.order /\ gateway_events[p.event].amount = p.amount
            /\ p.status # "reversed" =>
                  c.ref \in Reference /\ intent[c.ref] = [order |-> p.order, amount |-> c.amount]
            /\ p.status = "reversed" =>
                  \E k \in Refund : /\ Executed(k) /\ refund[k].gateway = c.ref
                                    /\ refund[k].order = p.order /\ refund[k].amount = p.amount
                                    /\ refund[k].approver \in Admin \ {refund[k].requester}

\* An order has an invoice request exactly when a capture of it was projected,
\* never two, and for the expected amount, however often captures are repeated
\* or re-driven.
OneInvoicePerCapture ==
    /\ \A o \in Order : (\E q \in financial_requests : q.order = o)
          <=> (\E p \in projections : p.order = o /\ p.status = "evidence_verified")
    /\ \A q1, q2 \in financial_requests : q1.order = q2.order => q1 = q2
    /\ \A q \in financial_requests, r \in Reference :
          intent[r] # None /\ intent[r].order = q.order
            => q.amount = minor_units_to_major(intent[r].amount)

\* D-19: every executed refund was approved by an admin who did not request it,
\* and no gateway refund pays for two requests.
RefundsAreApproved ==
    \A k \in Refund : Executed(k) =>
        /\ refund[k].approver \in Admin \ {refund[k].requester}
        /\ \A j \in Refund : Executed(j) /\ refund[j].gateway = refund[k].gateway => j = k

\* Every received event of a supported kind left a trace: its evidence, or an
\* exception for a human.
NothingIsSilent ==
    \A e \in Range(receipts) :
        Content[e].type # "unsupported" => gateway_events[e] # None \/ e \in exceptions

\* A webhook that came before its mapping is repaired by the sweep, as long as
\* the one re-drive of the receipt has not been used up.
LateMappingRepaired ==
    \A e \in Event :
        (e \in Range(receipts) /\ Content[e].type \in PaymentTypes /\ Matches(e)
           /\ task[e] # "succeeded")
          ~> gateway_events[e] # None

=============================================================================
