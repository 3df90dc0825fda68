-------------------------- MODULE DispatchContract --------------------------
(***************************************************************************)
(* What dispatch promises, leaving out requests, transactions, locks,      *)
(* clocks and documents: an offer names a suitable vehicle and driver for  *)
(* an order that was confirmed and is answered once; its acceptance is one *)
(* step, which finds the order confirmed, books its three parties, none of *)
(* whom is booked yet, and moves the order.  Dispatch.tla is shown to      *)
(* implement this specification.                                           *)
(***************************************************************************)

CONSTANTS Order, Offer, Vehicle, Driver,
          Suitable,  \* <<order, vehicle, driver>>
          Rules,     \* <<status, status>>: the steps of an order
          None

VARIABLES stage,    \* [Order -> status]
          offers,   \* [Offer -> [status, order, vehicle, driver] or None]
          booked,   \* offers that have booked their order, vehicle and driver
          credited  \* offers whose acceptance moved their order

contractVars == <<stage, offers, booked, credited>>

ContractInit ==
    /\ stage = [o \in Order |-> "absent"]
    /\ offers = [f \in Offer |-> None]
    /\ booked = {}
    /\ credited = {}

Move(o, next) ==
    /\ <<stage[o], next>> \in Rules \cup {<<"absent", "pending">>}
    /\ stage' = [stage EXCEPT ![o] = next]
    /\ UNCHANGED <<offers, booked, credited>>

Make(f, o, v, d) ==
    /\ offers[f] = None
    /\ <<o, v, d>> \in Suitable
    /\ stage[o] \notin {"absent", "pending", "quoted"}
    /\ offers' = [offers EXCEPT ![f] = [status |-> "pending", order |-> o,
                                        vehicle |-> v, driver |-> d]]
    /\ UNCHANGED <<stage, booked, credited>>

Open(f) == offers[f] # None /\ offers[f].status = "pending"

Reject(f, answer) ==
    /\ Open(f)
    /\ offers' = [offers EXCEPT ![f].status = answer]
    /\ UNCHANGED <<stage, booked, credited>>

Accept(f) ==
    /\ Open(f)
    /\ <<offers[f].order, offers[f].vehicle, offers[f].driver>> \in Suitable
    /\ stage[offers[f].order] = "confirmed"
    /\ \A g \in booked : /\ offers[g].order # offers[f].order
                         /\ offers[g].vehicle # offers[f].vehicle
                         /\ offers[g].driver # offers[f].driver
    /\ offers' = [offers EXCEPT ![f].status = "accepted"]
    /\ booked' = booked \cup {f}
    /\ credited' = credited \cup {f}
    /\ stage' = [stage EXCEPT ![offers[f].order] = "assigned"]

ContractNext ==
    \/ \E o \in Order :
          \/ \E rule \in Rules \cup {<<"absent", "pending">>} : Move(o, rule[2])
          \/ \E f \in Offer, v \in Vehicle, d \in Driver : Make(f, o, v, d)
    \/ \E f \in Offer :
          \/ Accept(f)
          \/ \E answer \in {"declined", "cancelled", "expired"} : Reject(f, answer)

ContractSpec == ContractInit /\ [][ContractNext]_contractVars

=============================================================================
