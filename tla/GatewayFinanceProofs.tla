------------------------ MODULE GatewayFinanceProofs ------------------------
(***************************************************************************)
(* Proofs about GatewayFinance: whatever the order and the number of       *)
(* events, mappings, sweeps, re-drives and refund decisions, money is only *)
(* shown with evidence, a capture is invoiced once, refunds are approved   *)
(* by somebody else, and no received event is dropped silently.            *)
(***************************************************************************)
EXTENDS GatewayFinance, TLAPS

Received == Range(receipts)

\* An order has at most one reference.
MappingsAreUnique ==
    \A q, r \in Reference :
        intent[q] # None /\ intent[r] # None /\ intent[q].order = intent[r].order => q = r

\* A refund beyond its request has been approved, and paid by a refund of the
\* gateway that pays for no other.
ApprovalsHold ==
    \A k \in Refund : refund[k] # None =>
        /\ refund[k].status \in {"approved", "executed"} =>
              refund[k].approver \in Admin \ {refund[k].requester}
        /\ refund[k].status = "executed" =>
              /\ refund[k].gateway \in GatewayRefund
              /\ \A j \in Refund : Executed(j) /\ refund[j].gateway = refund[k].gateway => j = k

\* What an event of a payment or of a refund proves about an order.
Proves(e, order, amount) ==
    LET c == Content[e]
    IN  \/ /\ c.type \in PaymentTypes
           /\ c.ref \in Reference /\ intent[c.ref] # None
           /\ intent[c.ref].order = order /\ intent[c.ref].amount = c.amount
           /\ amount = minor_units_to_major(c.amount)
        \/ /\ c.type = "refund_processed"
           /\ \E k \in Refund : /\ Executed(k) /\ refund[k].gateway = c.ref
                                /\ refund[k].order = order /\ refund[k].amount = amount

StatusOf(e) ==
    IF Content[e].type \in PaymentTypes THEN EVENT_PROJECTION_STATUS[Content[e].type] ELSE "reversed"

EvidenceHolds ==
    /\ \A e \in Event : gateway_events[e] # None =>
          e \in Received /\ Proves(e, gateway_events[e].order, gateway_events[e].amount)
    /\ \A p \in projections :
          /\ gateway_events[p.event] # None
          /\ gateway_events[p.event].order = p.order /\ gateway_events[p.event].amount = p.amount
          /\ p.status = StatusOf(p.event)

\* Only received events are driven again.
TasksHaveReceipts == \A e \in Event : task[e] # "none" => e \in Received

FinanceInv ==
    /\ TypeOK /\ MappingsAreUnique /\ ApprovalsHold /\ EvidenceHolds
    /\ OneInvoicePerCapture /\ NothingIsSilent /\ TasksHaveReceipts

----------------------------------------------------------------------------
(* What an event proves.                                                   *)

Types == {"authorized", "captured", "failed"}

\* What EVENT_PROJECTION_STATUS says, type by type.
LEMMA StatusTable ==
    /\ PaymentTypes = Types
    /\ \A t \in Types : EVENT_PROJECTION_STATUS[t] \in {"pending", "evidence_verified", "failed"}
    /\ \A t \in Types : EVENT_PROJECTION_STATUS[t] = "evidence_verified" <=> t = "captured"
BY DEF PaymentTypes, Types, EVENT_PROJECTION_STATUS

\* An event proves one thing at most.
LEMMA ProofIsUnique ==
    ASSUME ApprovalsHold, NEW e \in Event, NEW o, NEW a, NEW p, NEW b,
           Proves(e, o, a), Proves(e, p, b)
    PROVE  o = p /\ a = b
<1>1. "refund_processed" \notin PaymentTypes
    BY StatusTable DEF Types
<1>. QED BY <1>1 DEF Proves, ApprovalsHold, Executed

\* The evidence and the projection of an event that proves something.
LEMMA RecordStep ==
    ASSUME FinanceInv, NEW e \in Event, NEW order \in Order, NEW amount \in Major,
           NEW hash \in Event \cup {None}, Proves(e, order, amount),
           _record_gateway_event(e, order, amount, hash), Project(order, e, StatusOf(e), amount),
           UNCHANGED <<intent, refund>>, Range(receipts)' = Range(receipts) \cup {e}
    PROVE  /\ gateway_events' \in [Event -> GatewayEventRow \cup {None}]
           /\ projections' \subseteq [order : Order, event : Event, amount : Major,
                       status : {"pending", "evidence_verified", "failed", "reversed"}]
           /\ \A f \in Event : gateway_events[f] # None => gateway_events'[f] # None
           /\ gateway_events'[e] # None
           /\ EvidenceHolds'
<1> DEFINE row == [order |-> order, amount |-> amount, hash |-> hash]
           new == [order |-> order, event |-> e, status |-> StatusOf(e), amount |-> amount]
<1>1. row \in GatewayEventRow /\ row # None
    BY NoneAssumption DEF GatewayEventRow
<1>2. /\ gateway_events'[e] = IF gateway_events[e] = None THEN row ELSE gateway_events[e]
      /\ \A f \in Event \ {e} : gateway_events'[f] = gateway_events[f]
      /\ gateway_events' \in [Event -> GatewayEventRow \cup {None}]
    BY <1>1 DEF _record_gateway_event, FinanceInv, TypeOK
<1>3. projections' = projections \cup {new}
    BY DEF Project
<1>4. StatusOf(e) \in {"pending", "evidence_verified", "failed", "reversed"}
    BY StatusTable DEF StatusOf
<1>5. gateway_events'[e] # None
    BY <1>1, <1>2
<1>6. gateway_events'[e].order = order /\ gateway_events'[e].amount = amount
    <2>1. CASE gateway_events[e] = None
        BY <1>2, <2>1
    <2>2. CASE gateway_events[e] # None
        BY <1>2, <2>2, ProofIsUnique DEF FinanceInv, EvidenceHolds
    <2>. QED BY <2>1, <2>2
<1>7. \A f, o, a : Proves(f, o, a)' <=> Proves(f, o, a)
    BY DEF Proves, Executed
<1>8. EvidenceHolds'
    <2>1. ASSUME NEW f \in Event, gateway_events'[f] # None
          PROVE  (f \in Received /\ Proves(f, gateway_events[f].order, gateway_events[f].amount))'
        <3>1. Received' = Received \cup {e}
            BY DEF Received
        <3>2. Proves(f, gateway_events'[f].order, gateway_events'[f].amount)
            <4>1. CASE f = e
                BY <1>6, <4>1
            <4>2. CASE f # e
                BY <1>2, <2>1, <4>2 DEF FinanceInv, EvidenceHolds
            <4>. QED BY <4>1, <4>2
        <3>3. f \in Received \cup {e}
            BY <1>2, <2>1 DEF FinanceInv, EvidenceHolds
        <3>. QED BY <3>1, <3>2, <3>3, <1>7
    <2>2. ASSUME NEW p \in projections'
          PROVE  /\ gateway_events'[p.event] # None
                 /\ gateway_events'[p.event].order = p.order
                 /\ gateway_events'[p.event].amount = p.amount
                 /\ p.status = StatusOf(p.event)
        <3>1. CASE p = new
            BY <1>5, <1>6, <3>1
        <3>2. CASE p \in projections
            BY <1>2, <3>2 DEF FinanceInv, EvidenceHolds, TypeOK
        <3>. QED BY <1>3, <3>1, <3>2
    <2>. QED BY <2>1, <2>2 DEF EvidenceHolds
<1>. QED BY <1>2, <1>3, <1>4, <1>5, <1>8 DEF FinanceInv, TypeOK

----------------------------------------------------------------------------
(* One projection of an event, at its receipt or when it is driven again.  *)

\* What the receipts and the re-drive tasks do around a projection.
Around(e) ==
    /\ UNCHANGED <<intent, refund>>
    /\ receipts' \in Seq(Event) /\ Range(receipts)' = Range(receipts) \cup {e}
    /\ task' \in [Event -> {"none", "queued", "succeeded"}]
    /\ \A f \in Event : task'[f] # "none" => f \in Received'

\* Nothing was projected: the event is not supported, or an exception tells.
LEMMA UnprojectedStep ==
    ASSUME FinanceInv, NEW e \in Event, Around(e),
           UNCHANGED <<gateway_events, projections, financial_requests, outbox, synchronized>>,
           \/ Content[e].type = "unsupported" /\ exceptions' = exceptions
           \/ exceptions' = exceptions \cup {e}
    PROVE  FinanceInv'
<1>1. TypeOK'
    BY DEF FinanceInv, TypeOK, Around
<1>2. MappingsAreUnique' /\ ApprovalsHold' /\ OneInvoicePerCapture'
    BY DEF FinanceInv, Around, MappingsAreUnique, ApprovalsHold, Executed, OneInvoicePerCapture
<1>3. EvidenceHolds'
    BY DEF FinanceInv, Around, EvidenceHolds, Received, Proves, Executed
<1>4. NothingIsSilent' /\ TasksHaveReceipts'
    BY DEF FinanceInv, Around, NothingIsSilent, TasksHaveReceipts, Received
<1>. QED BY <1>1, <1>2, <1>3, <1>4 DEF FinanceInv

\* What stays of the invariant when an event is projected, but for the invoices.
LEMMA ProjectedStep ==
    ASSUME FinanceInv, NEW e \in Event, Around(e), NEW order \in Order, NEW amount \in Major,
           NEW hash \in Event \cup {None}, Proves(e, order, amount),
           _record_gateway_event(e, order, amount, hash), Project(order, e, StatusOf(e), amount),
           UNCHANGED exceptions, financial_requests' \subseteq [order : Order, amount : Major],
           outbox' \subseteq [event : Event, key : Event \cup {None}],
           synchronized' \subseteq GatewayRefund, OneInvoicePerCapture'
    PROVE  FinanceInv'
<1>1. /\ gateway_events' \in [Event -> GatewayEventRow \cup {None}]
      /\ projections' \subseteq [order : Order, event : Event, amount : Major,
                       status : {"pending", "evidence_verified", "failed", "reversed"}]
      /\ \A f \in Event : gateway_events[f] # None => gateway_events'[f] # None
      /\ gateway_events'[e] # None
      /\ EvidenceHolds'
    BY RecordStep DEF Around
<1>2. TypeOK'
    BY <1>1 DEF FinanceInv, TypeOK, Around
<1>3. MappingsAreUnique' /\ ApprovalsHold'
    BY DEF FinanceInv, Around, MappingsAreUnique, ApprovalsHold, Executed
<1>4. NothingIsSilent' /\ TasksHaveReceipts'
    <2>1. Range(receipts) \subseteq Event
        BY DEF FinanceInv, TypeOK, Range
    <2>. QED
        BY <1>1, <2>1 DEF FinanceInv, Around, NothingIsSilent, TasksHaveReceipts, Received
<1>. QED BY <1>1, <1>2, <1>3, <1>4 DEF FinanceInv

\* A payment event that agrees with its mapping.
LEMMA PaymentStep ==
    ASSUME FinanceInv, NEW e \in Event, Around(e), NEW key \in Event \cup {None},
           NEW hash \in Event \cup {None}, Content[e].type \in PaymentTypes, Matches(e),
           ProjectMapped(e, key, hash)
    PROVE  FinanceInv'
<1> DEFINE ref == Content[e].ref
           order == intent[ref].order
           amount == minor_units_to_major(Content[e].amount)
<1>1. /\ ref \in Reference /\ intent[ref] # None /\ intent[ref].amount = Content[e].amount
      /\ _resolve_payment_mapping(ref) = intent[ref]
    BY DEF Matches, _resolve_payment_mapping
<1>2. order \in Order /\ amount \in Major
    BY <1>1 DEF FinanceInv, TypeOK, IntentRow, Major
<1>3. Proves(e, order, amount)
    BY <1>1 DEF Proves
<1>4. /\ _record_gateway_event(e, order, amount, hash)
      /\ Project(order, e, StatusOf(e), amount)
      /\ IF Content[e].type = "captured" THEN _ensure_financial_request(order, amount)
                                         ELSE UNCHANGED financial_requests
      /\ _record_outbox(e, key) /\ UNCHANGED <<exceptions, synchronized>>
    BY <1>1 DEF ProjectMapped, StatusOf
<1>5. financial_requests' \subseteq [order : Order, amount : Major]
    BY <1>2, <1>4 DEF _ensure_financial_request, FinanceInv, TypeOK
<1>6. outbox' \subseteq [event : Event, key : Event \cup {None}]
    BY <1>4 DEF _record_outbox, FinanceInv, TypeOK
<1>7. OneInvoicePerCapture'
    <2>1. projections' = projections \cup
             {[order |-> order, event |-> e, status |-> StatusOf(e), amount |-> amount]}
        BY <1>4 DEF Project
    <2>2. StatusOf(e) = "evidence_verified" <=> Content[e].type = "captured"
        BY StatusTable DEF StatusOf
    <2>3. \A r \in Reference : intent[r] # None /\ intent[r].order = order => r = ref
        BY <1>1 DEF FinanceInv, MappingsAreUnique
    <2>4. UNCHANGED intent
        BY DEF Around
    <2>5. CASE Content[e].type = "captured"
        <3>1. financial_requests' =
                IF \E q \in financial_requests : q.order = order THEN financial_requests
                ELSE financial_requests \cup {[order |-> order, amount |-> amount]}
            BY <1>4, <2>5 DEF _ensure_financial_request
        <3>2. \E q \in financial_requests' : q.order = order
            <4>1. CASE \E q \in financial_requests : q.order = order
                BY <3>1, <4>1
            <4>2. CASE ~\E q \in financial_requests : q.order = order
                <5>1. [order |-> order, amount |-> amount] \in financial_requests'
                    BY <3>1, <4>2
                <5>. QED BY <5>1
            <4>. QED BY <4>1, <4>2
        <3>3. \A o \in Order : o # order =>
                 ((\E q \in financial_requests' : q.order = o)
                    <=> (\E q \in financial_requests : q.order = o))
            BY <3>1
        <3>4. \A o \in Order : o # order =>
                 ((\E p \in projections' : p.order = o /\ p.status = "evidence_verified")
                    <=> (\E p \in projections : p.order = o /\ p.status = "evidence_verified"))
            BY <2>1
        <3>5. \E p \in projections' : p.order = order /\ p.status = "evidence_verified"
            <4>1. [order |-> order, event |-> e, status |-> StatusOf(e), amount |-> amount]
                     \in projections'
                BY <2>1
            <4>. QED BY <2>2, <2>5, <4>1
        <3>6. \A q1, q2 \in financial_requests' : q1.order = q2.order => q1 = q2
            BY <3>1 DEF FinanceInv, OneInvoicePerCapture
        <3>7. \A q \in financial_requests', r \in Reference :
                 intent[r] # None /\ intent[r].order = q.order
                   => q.amount = minor_units_to_major(intent[r].amount)
            BY <1>1, <2>3, <3>1 DEF FinanceInv, OneInvoicePerCapture
        <3>. QED
            BY <2>4, <3>2, <3>3, <3>4, <3>5, <3>6, <3>7 DEF FinanceInv, OneInvoicePerCapture
    <2>6. CASE Content[e].type # "captured"
        BY <1>4, <2>1, <2>2, <2>4, <2>6 DEF FinanceInv, OneInvoicePerCapture
    <2>. QED BY <2>5, <2>6
<1>8. synchronized' \subseteq GatewayRefund
    BY <1>4 DEF FinanceInv, TypeOK
<1>. QED BY <1>2, <1>3, <1>4, <1>5, <1>6, <1>7, <1>8, ProjectedStep

\* A processed refund of the gateway that an executed request names.
LEMMA ReversalStep ==
    ASSUME FinanceInv, NEW e \in Event, Around(e), NEW hash \in Event \cup {None},
           Content[e].type = "refund_processed", NEW k \in Matching(e),
           _record_gateway_event(e, refund[k].order, refund[k].amount, hash),
           Project(refund[k].order, e, "reversed", refund[k].amount),
           synchronized' = synchronized \cup {refund[k].gateway},
           UNCHANGED <<financial_requests, outbox, exceptions>>
    PROVE  FinanceInv'
<1>1. /\ k \in Refund /\ Executed(k) /\ refund[k].gateway = Content[e].ref
      /\ refund[k].order \in Order /\ refund[k].amount \in Major
      /\ refund[k].gateway \in GatewayRefund
    BY DEF Matching, Executed, FinanceInv, TypeOK, RefundRow, ApprovalsHold
<1>2. "refund_processed" \notin PaymentTypes
    BY StatusTable DEF Types
<1>3. StatusOf(e) = "reversed"
    BY <1>2 DEF StatusOf
<1>4. Proves(e, refund[k].order, refund[k].amount)
    BY <1>1 DEF Proves
<1>5. OneInvoicePerCapture'
    <2>1. projections' = projections \cup
             {[order |-> refund[k].order, event |-> e, status |-> "reversed",
               amount |-> refund[k].amount]}
        BY DEF Project
    <2>2. UNCHANGED <<intent, financial_requests>>
        BY DEF Around
    <2>. QED BY <2>1, <2>2 DEF FinanceInv, OneInvoicePerCapture
<1>6. /\ financial_requests' \subseteq [order : Order, amount : Major]
      /\ outbox' \subseteq [event : Event, key : Event \cup {None}]
      /\ synchronized' \subseteq GatewayRefund
    BY <1>1 DEF FinanceInv, TypeOK
<1>. QED BY <1>1, <1>3, <1>4, <1>5, <1>6, ProjectedStep

\* _project_event, whatever it decides about the event.
LEMMA EventStep ==
    ASSUME FinanceInv, NEW e \in Event, Around(e), NEW key \in Event \cup {None},
           NEW hash \in Event \cup {None}, _project_event(e, key, hash)
    PROVE  FinanceInv'
<1>1. CASE Content[e].type = "unsupported" /\ UNCHANGED evidenceVars
    BY <1>1, UnprojectedStep DEF evidenceVars
<1>2. CASE RecordedOnly(e)
    BY <1>2, UnprojectedStep DEF RecordedOnly
<1>3. CASE /\ Content[e].type \in PaymentTypes /\ Matches(e)
           /\ ProjectMapped(e, key, hash)
    BY <1>3, PaymentStep
<1>4. CASE /\ Content[e].type = "refund_processed"
           /\ \E k \in Matching(e) :
                 /\ _record_gateway_event(e, refund[k].order, refund[k].amount, hash)
                 /\ Project(refund[k].order, e, "reversed", refund[k].amount)
                 /\ synchronized' = synchronized \cup {refund[k].gateway}
                 /\ UNCHANGED <<financial_requests, outbox, exceptions>>
    BY <1>4, ReversalStep
<1>. QED
    BY <1>1, <1>2, <1>3, <1>4
    DEF _project_event, _project_payment, _reconcile_refund, RECONCILE_ONLY_EVENTS

----------------------------------------------------------------------------
(* Every step of the system.                                               *)

\* A receipt is appended once and no earlier one moves.
LEMMA ReceiptsGrow ==
    ASSUME NEW s \in Seq(Event), NEW e \in Event
    PROVE  Append(s, e) \in Seq(Event) /\ Range(Append(s, e)) = Range(s) \cup {e}
<1> DEFINE t == Append(s, e)
<1>1. /\ Len(s) \in Nat /\ DOMAIN s = 1..Len(s) /\ t \in Seq(Event)
      /\ DOMAIN t = 1..Len(s) + 1
      /\ \A i \in 1..Len(s) : t[i] = s[i]
      /\ t[Len(s) + 1] = e
    OBVIOUS
<1>2. 1..Len(s) + 1 = 1..Len(s) \cup {Len(s) + 1}
    BY <1>1
<1> HIDE DEF t
<1>3. Range(t) = Range(s) \cup {e}
    <2>1. ASSUME NEW x \in Range(t) PROVE x \in Range(s) \cup {e}
        <3>1. PICK i \in 1..Len(s) + 1 : x = t[i]
            BY <1>1, <2>1 DEF Range
        <3>. QED BY <1>1, <1>2, <3>1 DEF Range
    <2>2. Range(s) \subseteq Range(t)
        <3>1. ASSUME NEW i \in 1..Len(s) PROVE s[i] \in Range(t)
            <4>1. i \in DOMAIN t /\ t[i] = s[i]
                BY <1>1, <1>2
            <4>. QED BY <4>1 DEF Range
        <3>. QED BY <1>1, <3>1 DEF Range
    <2>3. e \in Range(t)
        <3>1. Len(s) + 1 \in DOMAIN t /\ t[Len(s) + 1] = e
            BY <1>1
        <3>. QED BY <3>1 DEF Range
    <2>. QED BY <2>1, <2>2, <2>3
<1>. QED BY <1>1, <1>3 DEF t

\* The first delivery of an event; a repeated one changes nothing.
LEMMA IngestStep ==
    ASSUME FinanceInv, NEW e \in Event, ingest_gateway_event(e)
    PROVE  FinanceInv'
<1>1. receipts' \in Seq(Event) /\ Range(receipts)' = Range(receipts) \cup {e}
    BY ReceiptsGrow DEF ingest_gateway_event, FinanceInv, TypeOK
<1>2. Around(e)
    BY <1>1 DEF Around, ingest_gateway_event, FinanceInv, TypeOK, TasksHaveReceipts, Received
<1>. QED BY <1>2, EventStep DEF ingest_gateway_event

\* A re-drive projects a receipt again, under other keys.
LEMMA ReprocessStep ==
    ASSUME FinanceInv, NEW e \in Event, NEW done \in BOOLEAN, reprocess_receipt(e, done)
    PROVE  FinanceInv'
<1>1. e \in Range(receipts)
    BY DEF reprocess_receipt, FinanceInv, TasksHaveReceipts, Received
<1>2. task' \in [Event -> {"none", "queued", "succeeded"}]
    BY DEF reprocess_receipt, FinanceInv, TypeOK
<1>3. \A f \in Event : task'[f] # "none" => f \in Range(receipts)
    BY <1>1 DEF reprocess_receipt, FinanceInv, TypeOK, TasksHaveReceipts, Received
<1>4. Around(e)
    BY <1>1, <1>2, <1>3 DEF Around, reprocess_receipt, FinanceInv, TypeOK, Received
<1>. QED BY <1>4, EventStep DEF reprocess_receipt

\* The sweep queues tasks for receipts only.
LEMMA SweepStep ==
    ASSUME FinanceInv, NEW n \in 1..Len(receipts), sweep_stale_receipts(n)
    PROVE  FinanceInv'
<1>1. Stale(n) \subseteq Range(receipts)
    <2>1. DOMAIN receipts = 1..Len(receipts) /\ Len(receipts) \in Nat
        BY DEF FinanceInv, TypeOK
    <2>2. Unprojected(n) \subseteq DOMAIN receipts
        BY <2>1 DEF Unprojected
    <2>3. ASSUME NEW i \in Unprojected(n) PROVE receipts[i] \in Range(receipts)
        BY <2>2 DEF Range
    <2>. QED BY <2>3 DEF Stale
<1>2. TypeOK'
    BY DEF sweep_stale_receipts, evidenceVars, FinanceInv, TypeOK
<1>3. TasksHaveReceipts'
    BY <1>1 DEF sweep_stale_receipts, FinanceInv, TasksHaveReceipts, Received
<1>4. MappingsAreUnique' /\ ApprovalsHold' /\ OneInvoicePerCapture' /\ NothingIsSilent'
    BY DEF sweep_stale_receipts, evidenceVars, FinanceInv, MappingsAreUnique, ApprovalsHold,
           Executed, OneInvoicePerCapture, NothingIsSilent
<1>5. EvidenceHolds'
    BY DEF sweep_stale_receipts, evidenceVars, FinanceInv, EvidenceHolds, Received, Proves, Executed
<1>. QED BY <1>2, <1>3, <1>4, <1>5 DEF FinanceInv

\* A new mapping invalidates no evidence and concerns no invoiced order.
LEMMA MappingStep ==
    ASSUME FinanceInv, NEW r \in Reference, NEW o \in Order, NEW a \in Amount,
           prepare_payment_intent(r, o, a)
    PROVE  FinanceInv'
<1>1. /\ intent[r] = None /\ \A q \in Reference : intent[q] # None => intent[q].order # o
      /\ intent' = [intent EXCEPT ![r] = [order |-> o, amount |-> a]]
      /\ UNCHANGED <<receipts, evidenceVars, task, refund>>
    BY DEF prepare_payment_intent
<1>2. /\ intent' \in [Reference -> IntentRow \cup {None}]
      /\ intent'[r] = [order |-> o, amount |-> a]
      /\ \A q \in Reference \ {r} : intent'[q] = intent[q]
    BY <1>1 DEF FinanceInv, TypeOK, IntentRow
<1>3. TypeOK'
    BY <1>1, <1>2 DEF evidenceVars, FinanceInv, TypeOK
<1>4. MappingsAreUnique'
    BY <1>1, <1>2 DEF FinanceInv, MappingsAreUnique
<1>5. \A e \in Event : \A p, b : Proves(e, p, b) => Proves(e, p, b)'
    BY <1>1, <1>2 DEF Proves, Executed
<1>6. EvidenceHolds'
    BY <1>1, <1>5 DEF evidenceVars, FinanceInv, EvidenceHolds, Received
<1>7. \A q \in financial_requests : q.order # o
    <2>1. SUFFICES ASSUME NEW q \in financial_requests, q.order = o PROVE FALSE
        OBVIOUS
    <2>2. PICK p \in projections : p.order = o /\ p.status = "evidence_verified"
        BY <2>1 DEF FinanceInv, OneInvoicePerCapture
    <2>3. p.event \in Event /\ Proves(p.event, o, p.amount) /\ StatusOf(p.event) # "reversed"
        BY <2>2 DEF FinanceInv, EvidenceHolds, TypeOK
    <2>4. Content[p.event].type \in PaymentTypes
        BY <2>3 DEF StatusOf
    <2>5. \E q2 \in Reference : intent[q2] # None /\ intent[q2].order = o
        BY <2>3, <2>4, StatusTable DEF Proves, Types
    <2>. QED BY <1>1, <2>5
<1>8. OneInvoicePerCapture'
    BY <1>1, <1>2, <1>7 DEF evidenceVars, FinanceInv, OneInvoicePerCapture
<1>9. ApprovalsHold' /\ NothingIsSilent' /\ TasksHaveReceipts'
    BY <1>1 DEF evidenceVars, FinanceInv, ApprovalsHold, Executed, NothingIsSilent,
                TasksHaveReceipts, Received
<1>. QED BY <1>3, <1>4, <1>6, <1>8, <1>9 DEF FinanceInv

\* A step of one refund that is not executed yet, and what it has to keep.
LEMMA RefundStep ==
    ASSUME FinanceInv, NEW k \in Refund, ~Executed(k), NEW row \in RefundRow,
           refund' = [refund EXCEPT ![k] = row], UNCHANGED refundFrame,
           row.status \in {"approved", "executed"} => row.approver \in Admin \ {row.requester},
           row.status = "executed" =>
              /\ row.gateway \in GatewayRefund
              /\ \A j \in Refund : Executed(j) => refund[j].gateway # row.gateway
    PROVE  FinanceInv'
<1>1. /\ refund' \in [Refund -> RefundRow \cup {None}] /\ refund'[k] = row /\ row # None
      /\ \A j \in Refund \ {k} : refund'[j] = refund[j]
    BY NoneAssumption DEF FinanceInv, TypeOK
<1>2. TypeOK'
    BY <1>1 DEF refundFrame, evidenceVars, FinanceInv, TypeOK
<1>3. /\ \A j \in Refund : Executed(j) => Executed(j)' /\ refund'[j] = refund[j]
      /\ \A j \in Refund : Executed(j)' => Executed(j) \/ (j = k /\ row.status = "executed")
    BY <1>1 DEF Executed
<1>4. ApprovalsHold'
    <2>1. ASSUME NEW j \in Refund, refund'[j] # None,
                 refund'[j].status \in {"approved", "executed"}
          PROVE  refund'[j].approver \in Admin \ {refund'[j].requester}
        BY <1>1, <2>1 DEF FinanceInv, ApprovalsHold
    <2>2. ASSUME NEW j \in Refund, Executed(j)'
          PROVE  /\ refund'[j].gateway \in GatewayRefund
                 /\ \A i \in Refund : Executed(i)' /\ refund'[i].gateway = refund'[j].gateway => i = j
        BY <1>1, <1>3, <2>2 DEF FinanceInv, ApprovalsHold, Executed
    <2>. QED BY <2>1, <2>2 DEF ApprovalsHold, Executed
<1>5. \A e \in Event : \A p, b : Proves(e, p, b) => Proves(e, p, b)'
    BY <1>3 DEF Proves, refundFrame
<1>6. EvidenceHolds'
    BY <1>5 DEF refundFrame, evidenceVars, FinanceInv, EvidenceHolds, Received
<1>7. MappingsAreUnique' /\ OneInvoicePerCapture' /\ NothingIsSilent' /\ TasksHaveReceipts'
    BY DEF refundFrame, evidenceVars, FinanceInv, MappingsAreUnique, OneInvoicePerCapture,
           NothingIsSilent, TasksHaveReceipts, Received
<1>. QED BY <1>2, <1>4, <1>6, <1>7 DEF FinanceInv

\* The refund routes: request, decision, execution.
LEMMA RouteStep ==
    ASSUME FinanceInv, NEW k \in Refund, RefundRoute(k)
    PROVE  FinanceInv'
<1>1. ASSUME NEW o \in Order, NEW c \in Account, NEW a \in Amount, request_refund(k, o, c, a)
      PROVE  FinanceInv'
    <2> DEFINE row == [order |-> o, requester |-> c, amount |-> minor_units_to_major(a),
                       status |-> "requested", approver |-> None, gateway |-> None, key |-> None]
    <2>1. row \in RefundRow /\ row.status = "requested"
        BY DEF RefundRow, Major
    <2>2. ~Executed(k) /\ refund' = [refund EXCEPT ![k] = row] /\ UNCHANGED refundFrame
        BY <1>1 DEF request_refund, Executed
    <2>. QED BY <2>1, <2>2, RefundStep
<1>2. ASSUME NEW c \in Admin, NEW d \in {"approved", "rejected"}, decide_refund(k, c, d)
      PROVE  FinanceInv'
    <2> DEFINE row == [refund[k] EXCEPT !.status = d, !.approver = c]
    <2>1. refund[k] \in RefundRow /\ refund[k].status = "requested" /\ refund[k].requester # c
        BY <1>2 DEF decide_refund, FinanceInv, TypeOK
    <2>2. /\ row \in RefundRow /\ row.status \in {"approved", "rejected"}
          /\ row.approver \in Admin \ {row.requester}
        BY <2>1 DEF RefundRow
    <2>3. ~Executed(k) /\ refund' = [refund EXCEPT ![k] = row] /\ UNCHANGED refundFrame
        BY <1>2, <2>1 DEF decide_refund, Executed, FinanceInv, TypeOK
    <2>. QED BY <2>2, <2>3, RefundStep
<1>3. ASSUME NEW g \in GatewayRefund, NEW x \in ExecutionKey, record_refund_execution(k, g, x)
      PROVE  FinanceInv'
    <2> DEFINE row == [refund[k] EXCEPT !.status = "executed", !.gateway = g, !.key = x]
    <2>1. refund[k] \in RefundRow /\ refund[k].status = "approved" /\ refund[k] # None
        BY <1>3 DEF record_refund_execution, FinanceInv, TypeOK
    <2>2. refund[k].approver \in Admin \ {refund[k].requester}
        BY <2>1 DEF FinanceInv, ApprovalsHold
    <2>3. /\ row \in RefundRow /\ row.status = "executed" /\ row.gateway = g
          /\ row.approver \in Admin \ {row.requester}
        BY <2>1, <2>2 DEF RefundRow
    <2>4. ~Executed(k) /\ refund' = [refund EXCEPT ![k] = row] /\ UNCHANGED refundFrame
        BY <1>3, <2>1 DEF record_refund_execution, Executed, FinanceInv, TypeOK
    <2>5. \A j \in Refund : Executed(j) => refund[j].gateway # g
        BY <1>3 DEF record_refund_execution
    <2>. QED BY <2>3, <2>4, <2>5, RefundStep
<1>. QED BY <1>1, <1>2, <1>3 DEF RefundRoute

\* Every step keeps the invariant.
LEMMA FinanceStep == ASSUME FinanceInv, [Next]_vars PROVE FinanceInv'
<1>1. CASE UNCHANGED vars
    BY <1>1 DEF vars, evidenceVars, FinanceInv, TypeOK, MappingsAreUnique, ApprovalsHold,
                EvidenceHolds, Received, Proves, Executed, OneInvoicePerCapture,
                NothingIsSilent, TasksHaveReceipts
<1>. QED
    BY <1>1, MappingStep, IngestStep, ReprocessStep, SweepStep, RouteStep DEF Next, razorpay_webhook

\* The invariant holds in every reachable state.
LEMMA FinanceInvariant == Spec => []FinanceInv
<1>1. Init => FinanceInv
    <2>1. Init => TypeOK /\ MappingsAreUnique /\ ApprovalsHold /\ TasksHaveReceipts
        BY DEF Init, TypeOK, MappingsAreUnique, ApprovalsHold, TasksHaveReceipts
    <2>2. Init => EvidenceHolds /\ OneInvoicePerCapture
        BY DEF Init, EvidenceHolds, OneInvoicePerCapture
    <2>3. Init => NothingIsSilent
        BY DEF Init, NothingIsSilent, Range
    <2>. QED BY <2>1, <2>2, <2>3 DEF FinanceInv
<1>. QED BY <1>1, FinanceStep, PTL DEF Spec

----------------------------------------------------------------------------

\* Every state of the finance tables is well typed.
THEOREM TypeCorrect == Spec => []TypeOK
<1>1. FinanceInv => TypeOK
    BY DEF FinanceInv
<1>. QED BY <1>1, FinanceInvariant, PTL

\* A payment projection agrees with the mapping of its reference and a reversal
\* with a refund that somebody else approved, in whatever order events, mappings,
\* sweeps, re-drives and decisions arrive.
THEOREM MoneyHasEvidence == Spec => []ProjectionsAreBacked
<1>1. FinanceInv => ProjectionsAreBacked
    <2> SUFFICES ASSUME FinanceInv, NEW p \in projections
                 PROVE  LET c == Content[p.event]
                        IN  /\ p.event \in Received /\ gateway_events[p.event] # None
                            /\ gateway_events[p.event].order = p.order
                            /\ gateway_events[p.event].amount = p.amount
                            /\ p.status # "reversed" =>
                                  /\ c.ref \in Reference
                                  /\ intent[c.ref] = [order |-> p.order, amount |-> c.amount]
                            /\ p.status = "reversed" =>
                                  \E k \in Refund :
                                    /\ Executed(k) /\ refund[k].gateway = c.ref
                                    /\ refund[k].order = p.order /\ refund[k].amount = p.amount
                                    /\ refund[k].approver \in Admin \ {refund[k].requester}
        BY DEF ProjectionsAreBacked, Received
    <2>1. /\ p.event \in Event /\ p.event \in Received /\ gateway_events[p.event] # None
          /\ gateway_events[p.event].order = p.order /\ gateway_events[p.event].amount = p.amount
          /\ p.status = StatusOf(p.event) /\ Proves(p.event, p.order, p.amount)
        BY DEF FinanceInv, EvidenceHolds, TypeOK
    <2>2. CASE Content[p.event].type \in PaymentTypes
        <3>1. p.status # "reversed"
            BY <2>1, <2>2, StatusTable DEF StatusOf
        <3>2. /\ Content[p.event].ref \in Reference
              /\ intent[Content[p.event].ref] # None
              /\ intent[Content[p.event].ref].order = p.order
              /\ intent[Content[p.event].ref].amount = Content[p.event].amount
            BY <2>1, <2>2, StatusTable DEF Proves, Types
        <3>3. intent[Content[p.event].ref] \in IntentRow
            BY <3>2 DEF FinanceInv, TypeOK
        <3>. QED BY <2>1, <3>1, <3>2, <3>3 DEF IntentRow
    <2>3. CASE Content[p.event].type \notin PaymentTypes
        BY <2>1, <2>3 DEF StatusOf, Proves, FinanceInv, ApprovalsHold, Executed
    <2>. QED BY <2>2, <2>3
<1>. QED BY <1>1, FinanceInvariant, PTL

\* A captured order has exactly one invoice request, for the expected amount.
THEOREM CapturesAreInvoicedOnce == Spec => []OneInvoicePerCapture
<1>1. FinanceInv => OneInvoicePerCapture
    BY DEF FinanceInv
<1>. QED BY <1>1, FinanceInvariant, PTL

\* No refund is executed without the approval of an admin who did not request
\* it, and no refund of the gateway pays for two.
THEOREM RefundsNeedApproval == Spec => []RefundsAreApproved
<1>1. FinanceInv => RefundsAreApproved
    BY DEF FinanceInv, ApprovalsHold, RefundsAreApproved, Executed
<1>. QED BY <1>1, FinanceInvariant, PTL

\* Every received event that is supported left its evidence or an exception.
THEOREM NoEventIsLost == Spec => []NothingIsSilent
<1>1. FinanceInv => NothingIsSilent
    BY DEF FinanceInv
<1>. QED BY <1>1, FinanceInvariant, PTL

=============================================================================
