-------------------------- MODULE MCGatewayFinance --------------------------
(* GatewayFinance for TLC, in one of two situations: "payments", where the  *)
(* events of payments meet their mappings, and "refunds", where the events  *)
(* of a refund meet the refund workflow.                                    *)
EXTENDS GatewayFinance, TLC

CONSTANTS e1, e2, e3, e4, e5, e6, r1, r2, g1, o1

Says(type, ref, amount) == [type |-> type, ref |-> ref, amount |-> amount]

\* Two captures of one payment, one with another amount, and an authorization for
\* another reference; two events of one processed refund, one with another amount,
\* and an event type that is not supported.
Events == e1 :> Says("captured", r1, 150) @@ e2 :> Says("captured", r1, 205)
            @@ e3 :> Says("authorized", r2, 150)
            @@ e4 :> Says("refund_processed", g1, 150) @@ e5 :> Says("refund_processed", g1, 205)
            @@ e6 :> Says("unsupported", None, None)
PaymentEvents == {e1, e2, e3}

VARIABLE situation

MCInit == Init /\ situation \in {"payments", "refunds"}

Received == {receipts'[n] : n \in DOMAIN receipts'}
MCNext ==
    /\ Next
    /\ IF situation = "payments" THEN Received \subseteq PaymentEvents /\ refund' = refund
       ELSE /\ Received \cap PaymentEvents = {} /\ intent' = intent
            /\ \A k \in Refund : refund'[k] # None => refund'[k].order = o1
    /\ UNCHANGED situation
MCSpec == MCInit /\ [][MCNext]_<<vars, situation>> /\ Fairness

=============================================================================
