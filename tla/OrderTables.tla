---------------------------- MODULE OrderTables -----------------------------
(***************************************************************************)
(* The order aggregate of zippy: the orders row, its append-only history,  *)
(* the idempotency records, the operational events and the outbox rows     *)
(* that one transaction writes together.  The operators are the database   *)
(* parts of CoreRepository.create_order and of zippy.transition_order(),   *)
(* the only code that inserts an order or changes its status.              *)
(* OrderApi.tla drives them from concurrent API requests, Dispatch.tla     *)
(* from the acceptance of dispatch offers.                                 *)
(***************************************************************************)
EXTENDS Naturals, Sequences, FiniteSets

CONSTANTS Order,     \* order_id values
          Key,       \* Idempotency-Key header values
          None       \* SQL NULL

\* The server mints order ids at random, so that no client can use the outbox
\* key "order.accepted:<order>" of an order to come; the outbox refuses that of
\* an order that exists, and such keys are left out.
ASSUME KeyAssumption == \A o \in Order : <<"order.accepted", o>> \notin Key

VARIABLES
    status,       \* orders.status, "absent" before the INSERT
    version,      \* orders.version, 0 before the INSERT
    transitions,  \* order_state_transitions of an order, oldest first
    idempotency,  \* idempotency_records of scope order_transition:<order>
    events,       \* operational_events of orders: <<order, aggregate_version>>
    outbox        \* event_outbox rows of orders: [order, version, key]

orderVars == <<status, version, transitions, idempotency, events, outbox>>

OrderStatus == {"pending", "quoted", "confirmed", "assigned", "in_transit",
                "delivered", "cancelled"}

order_transition_rules ==
    { <<"pending", "quoted">>, <<"pending", "cancelled">>,
      <<"quoted", "confirmed">>, <<"quoted", "cancelled">>,
      <<"confirmed", "assigned">>, <<"confirmed", "cancelled">>,
      <<"assigned", "in_transit">>, <<"assigned", "cancelled">>,
      <<"in_transit", "delivered">> }

OrderInit ==
    /\ status = [o \in Order |-> "absent"]
    /\ version = [o \in Order |-> 0]
    /\ transitions = [o \in Order |-> << >>]
    /\ idempotency = {}
    /\ events = {}
    /\ outbox = {}

----------------------------------------------------------------------------

\* UNIQUE (platform_id, destination, idempotency_key) of event_outbox: the key
\* is not scoped to the order.
OutboxKeyFree(key) == \A row \in outbox : row.key # key

\* Mutant: the order starts in a status outside the transition rules.
InsertDraft(o) ==
    /\ status[o] = "absent"
    /\ status' = [status EXCEPT ![o] = "draft"]
    /\ version' = [version EXCEPT ![o] = 1]
    /\ events' = events \cup {<<o, 1>>}
    /\ UNCHANGED <<transitions, idempotency, outbox>>

\* The order part of create_order: the row with its first event and outbox row.
InsertOrder(o) ==
    /\ status[o] = "absent"
    /\ status' = [status EXCEPT ![o] = "pending"]
    /\ version' = [version EXCEPT ![o] = 1]
    /\ events' = events \cup {<<o, 1>>}
    /\ outbox' = outbox \cup {[order |-> o, version |-> 1, key |-> <<"order.accepted", o>>]}
    /\ UNCHANGED <<transitions, idempotency>>

\* The record of this idempotency key for this order, if there is one.
Prior(o, key) == {r \in idempotency : r.order = o /\ r.key = key}

\* What zippy.transition_order() requires of a request that is not a replay.
MayTransition(o, expected, next, key) ==
    /\ Prior(o, key) = {}
    /\ status[o] = expected
    /\ <<expected, next>> \in order_transition_rules
    /\ OutboxKeyFree(key)

\* Mutant: the idempotency record is not written with the transition.
WriteUnrecorded(o, next, key, hash) ==
    /\ status' = [status EXCEPT ![o] = next]
    /\ version' = [version EXCEPT ![o] = @ + 1]
    /\ transitions' = [transitions EXCEPT ![o] =
                          Append(@, [from |-> status[o], to |-> next, key |-> key])]
    /\ events' = events \cup {<<o, version[o] + 1>>}
    /\ outbox' = outbox \cup {[order |-> o, version |-> version[o] + 1, key |-> key]}
    /\ UNCHANGED idempotency

\* What it writes.
WriteTransition(o, next, key, hash) ==
    /\ status' = [status EXCEPT ![o] = next]
    /\ version' = [version EXCEPT ![o] = @ + 1]
    /\ transitions' = [transitions EXCEPT ![o] =
                          Append(@, [from |-> status[o], to |-> next, key |-> key])]
    /\ idempotency' = idempotency \cup {[order |-> o, key |-> key, hash |-> hash]}
    /\ events' = events \cup {<<o, version[o] + 1>>}
    /\ outbox' = outbox \cup {[order |-> o, version |-> version[o] + 1, key |-> key]}

\* Mutant: the current status is not compared with the rules.
TransitionUnchecked(o, expected, next, key, hash) ==
    /\ Prior(o, key) = {} /\ OutboxKeyFree(key)
    /\ status[o] = expected
    /\ WriteTransition(o, next, key, hash)

transition_order(o, expected, next, key, hash) ==
    /\ MayTransition(o, expected, next, key)
    /\ WriteTransition(o, next, key, hash)

=============================================================================
