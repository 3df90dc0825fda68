------------------------------ MODULE Dispatch ------------------------------
(***************************************************************************)
(* Deterministic dispatch (api/repositories_dispatch.py, routes_dispatch)  *)
(* and account control (zippy.set_account_status): offers of one vehicle   *)
(* and one driver for a confirmed order, their acceptance, which assigns   *)
(* both to the trip of the order, their decline, cancellation and lazy     *)
(* expiry, and the blocking of a driver's account.                         *)
(*                                                                         *)
(* Every route is one or two transactions under READ COMMITTED.  A         *)
(* transaction that reads rows it does not lock and writes later is split  *)
(* in two steps, so that another one may commit in between; the row locks  *)
(* and unique indexes that forbid that are guards.                         *)
(***************************************************************************)
EXTENDS OrderTables

CONSTANTS Offer,     \* dispatch offers, named by their idempotency keys
          Vehicle, Driver,
          Suitable,  \* <<order, vehicle, driver>>: body type, capacity, handling, approval
                     \* and association fit; no code of the system changes these
          Target,    \* the statuses that clients ask for
          Session    \* API requests in flight at the same time

OfferRow == [status : {"pending", "accepted", "declined", "cancelled", "expired"},
             order : Order, vehicle : Vehicle, driver : Driver]

ASSUME SuitableAssumption == Suitable \subseteq Order \X Vehicle \X Driver
ASSUME TargetAssumption == Target \subseteq OrderStatus
ASSUME NoneAssumption == None \notin Offer \cup Vehicle \cup Driver \cup OfferRow

VARIABLES
    offer,        \* offer row: [status, order, vehicle, driver], or None
    overdue,      \* offers with expires_at <= clock_timestamp()
    assignments,  \* offers with an unreleased trip_assignments row
    active,       \* drivers whose account is active
    fit,          \* vehicles with verified, unexpired fitness and insurance
    reviews,      \* orders with a manual-review exception
    alarms,       \* drivers with an ACCOUNT_BLOCKED_DURING_ACTIVE_TRIP exception
    pc,           \* session: "idle", "insert", "accept", "commit" or "block"
    work          \* session: the row its transaction works on, or None

dispatchVars == <<offer, overdue, assignments, reviews>>
resourceVars == <<active, fit, alarms>>
sessionVars  == <<pc, work>>
vars == <<orderVars, dispatchVars, resourceVars, sessionVars>>

Init ==
    /\ OrderInit
    /\ offer = [f \in Offer |-> None]
    /\ overdue = {}
    /\ assignments = {}
    /\ active = Driver
    /\ fit = Vehicle
    /\ reviews = {}
    /\ alarms = {}
    /\ pc = [s \in Session |-> "idle"]
    /\ work = [s \in Session |-> None]

Goto(s, step, w) ==
    /\ pc' = [pc EXCEPT ![s] = step]
    /\ work' = [work EXCEPT ![s] = w]

Pending(f) == offer[f] # None /\ offer[f].status = "pending"

\* The transactions that hold the locks of accept_dispatch_offer.
Accepting == {work[s] : s \in {t \in Session : pc[t] = "commit"}}
OrderLocked(o) == \E f \in Accepting : offer[f].order = o

\* Unreleased assignments of a vehicle or driver.  No code sets released_at.
Busy(x) == \E f \in assignments : x \in {offer[f].vehicle, offer[f].driver}

----------------------------------------------------------------------------
(* Orders, moved by the routes of OrderApi.tla.                            *)

CreateOrder(o) ==
    /\ InsertOrder(o)
    /\ UNCHANGED <<dispatchVars, resourceVars, sessionVars>>

Advance(o, next) ==
    /\ ~OrderLocked(o)
    /\ transition_order(o, status[o], next, <<"client", o, next>>, next)
    /\ UNCHANGED <<dispatchVars, resourceVars, sessionVars>>

----------------------------------------------------------------------------
(* create_dispatch_offer.                                                  *)

Eligible(o, v, d) ==
    /\ status[o] = "confirmed"
    /\ <<o, v, d>> \in Suitable
    /\ v \in fit
    /\ ~Busy(v) /\ ~Busy(d)

\* The facts are read in one SELECT that locks nothing; the account of the
\* driver is not among them.  A known key is a replay or a conflict, a party
\* that does not belong to the order is refused, and neither changes anything.
ReadFacts(s, f, o, v, d) ==
    /\ pc[s] = "idle"
    /\ status[o] # "absent"
    /\ offer[f] = None
    /\ \/ /\ Eligible(o, v, d)
          /\ Goto(s, "insert", [offer |-> f, order |-> o, vehicle |-> v, driver |-> d])
          /\ UNCHANGED reviews
       \/ /\ ~Eligible(o, v, d)
          /\ reviews' = reviews \cup {o}
          /\ UNCHANGED sessionVars
    /\ UNCHANGED <<orderVars, offer, overdue, assignments, resourceVars>>

\* INSERT ... ON CONFLICT DO NOTHING; no row inserted raises RuntimeError.
InsertOffer(s) ==
    LET w == work[s]
    IN  /\ pc[s] = "insert"
        /\ offer' = IF offer[w.offer] # None THEN offer
                    ELSE [offer EXCEPT ![w.offer] =
                            [status |-> "pending", order |-> w.order,
                             vehicle |-> w.vehicle, driver |-> w.driver]]
        /\ Goto(s, "idle", None)
        /\ UNCHANGED <<orderVars, overdue, assignments, reviews, resourceVars>>

----------------------------------------------------------------------------
(* accept_dispatch_offer.                                                  *)

SetOfferStatus(f, st) == offer' = [offer EXCEPT ![f].status = st]

\* The first transaction of the accept route: expire_if_due.
ExpireIfDue(s, f) ==
    /\ pc[s] = "idle"
    /\ offer[f] # None /\ f \notin Accepting
    /\ IF Pending(f) /\ f \in overdue THEN SetOfferStatus(f, "expired") ELSE UNCHANGED offer
    /\ Goto(s, "accept", f)
    /\ UNCHANGED <<orderVars, overdue, assignments, reviews, resourceVars>>

\* Mutant: no unique indexes on the vehicle and the driver.
MayAcceptBusy(f) ==
    /\ Pending(f) /\ f \notin overdue
    /\ \A g \in assignments : offer[g].order # offer[f].order
    /\ <<offer[f].order, offer[f].vehicle, offer[f].driver>> \in Suitable
    /\ offer[f].driver \in active
    /\ MayTransition(offer[f].order, "confirmed", "assigned", <<"dispatch:assign", f>>)
\* The conditions under which the transaction goes through: the code's own
\* checks, the trigger validate_assignment(), the unique indexes on unreleased
\* vehicles and drivers, and zippy.transition_order().
MayAccept(f) ==
    /\ Pending(f) /\ f \notin overdue
    /\ \A g \in assignments : offer[g].order # offer[f].order
    /\ <<offer[f].order, offer[f].vehicle, offer[f].driver>> \in Suitable
    /\ offer[f].driver \in active
    /\ ~Busy(offer[f].vehicle) /\ ~Busy(offer[f].driver)
    /\ MayTransition(offer[f].order, "confirmed", "assigned", <<"dispatch:assign", f>>)

\* The second transaction up to its last check.  It waits for the row locks of
\* the order and the offer, and for a concurrent INSERT of the same vehicle or
\* driver; a refused request (409, 403 or 500) rolls back.
AcceptChecks(s) ==
    LET f == work[s]
    IN  /\ pc[s] = "accept"
        /\ ~OrderLocked(offer[f].order)
        /\ \A g \in Accepting : offer[g].vehicle # offer[f].vehicle
                                  /\ offer[g].driver # offer[f].driver
        /\ IF MayAccept(f) THEN Goto(s, "commit", f) ELSE Goto(s, "idle", None)
        /\ UNCHANGED <<orderVars, dispatchVars, resourceVars>>

\* Its writes become visible: offer, trip, assignment, order and events.
AcceptCommits(s) ==
    LET f == work[s]
    IN  /\ pc[s] = "commit"
        /\ SetOfferStatus(f, "accepted")
        /\ assignments' = assignments \cup {f}
        /\ transition_order(offer[f].order, "confirmed", "assigned", <<"dispatch:assign", f>>, f)
        /\ Goto(s, "idle", None)
        /\ UNCHANGED <<overdue, reviews, resourceVars>>

\* Mutant: the offer row is not locked.
ResolveUnlocked(f, st) ==
    /\ Pending(f)
    /\ SetOfferStatus(f, st)
    /\ UNCHANGED <<orderVars, overdue, assignments, reviews, resourceVars, sessionVars>>

\* decline_dispatch_offer and cancel_dispatch_offer lock the offer row only.
ResolveOffer(f, st) ==
    /\ Pending(f) /\ f \notin Accepting
    /\ SetOfferStatus(f, st)
    /\ UNCHANGED <<orderVars, overdue, assignments, reviews, resourceVars, sessionVars>>

----------------------------------------------------------------------------
(* set_account_status for the account of a driver.                         *)

\* UPDATE accounts, then the search for an active trip, which sees only
\* committed assignments; the new status is visible with the commit.
BlockReads(s, d) ==
    /\ pc[s] = "idle"
    /\ d \in active
    /\ \A t \in Session : ~(pc[t] = "block" /\ work[t].driver = d)
    /\ Goto(s, "block", [driver |-> d, on_trip |-> Busy(d)])
    /\ UNCHANGED <<orderVars, dispatchVars, resourceVars>>

BlockCommits(s) ==
    /\ pc[s] = "block"
    /\ active' = active \ {work[s].driver}
    /\ alarms' = IF work[s].on_trip THEN alarms \cup {work[s].driver} ELSE alarms
    /\ Goto(s, "idle", None)
    /\ UNCHANGED <<orderVars, dispatchVars, fit>>

\* set_account_status to 'active'.
Unblock(d) ==
    /\ d \notin active
    /\ active' = active \cup {d}
    /\ UNCHANGED <<orderVars, dispatchVars, fit, alarms, sessionVars>>

----------------------------------------------------------------------------
(* The clock and the back office.                                          *)

OfferRunsOut(f) ==
    /\ offer[f] # None /\ f \notin overdue
    /\ overdue' = overdue \cup {f}
    /\ UNCHANGED <<orderVars, offer, assignments, reviews, resourceVars, sessionVars>>

DocumentsLapse(v) ==
    /\ v \in fit
    /\ fit' = fit \ {v}
    /\ UNCHANGED <<orderVars, dispatchVars, active, alarms, sessionVars>>

----------------------------------------------------------------------------

\* The routes: the transactions of each, and what one of them leaves to the next.
create_offer(s) ==
    \/ \E f \in Offer, o \in Order, v \in Vehicle, d \in Driver : ReadFacts(s, f, o, v, d)
    \/ InsertOffer(s)

\* The expiry is committed on its own, so that it survives a refused acceptance.
accept_offer(s) ==
    \/ \E f \in Offer : ExpireIfDue(s, f)
    \/ AcceptChecks(s)
    \/ AcceptCommits(s)

decline_or_cancel_offer(f) == \E st \in {"declined", "cancelled"} : ResolveOffer(f, st)

Next ==
    \/ \E o \in Order : CreateOrder(o) \/ \E next \in Target : Advance(o, next)
    \/ \E s \in Session :
          \/ create_offer(s)
          \/ accept_offer(s)
          \/ \E d \in Driver : BlockReads(s, d)
          \/ BlockCommits(s)
    \/ \E f \in Offer : OfferRunsOut(f) \/ decline_or_cancel_offer(f)
    \/ \E d \in Driver : Unblock(d)
    \/ \E v \in Vehicle : DocumentsLapse(v)

Spec == Init /\ [][Next]_vars

----------------------------------------------------------------------------
(* Properties.                                                             *)

TypeOK ==
    /\ status \in [Order -> OrderStatus \cup {"absent"}]
    /\ version \in [Order -> 0..6]
    /\ offer \in [Offer -> OfferRow \cup {None}]
    /\ overdue \subseteq Offer
    /\ assignments \subseteq {f \in Offer : offer[f] # None}
    /\ active \subseteq Driver
    /\ fit \subseteq Vehicle
    /\ reviews \subseteq Order
    /\ alarms \subseteq Driver
    /\ pc \in [Session -> {"idle", "insert", "accept", "commit", "block"}]
    /\ \A s \in Session : pc[s] \in {"accept", "commit"} => work[s] \in {f \in Offer : offer[f] # None}

\* Under concurrent acceptance no order gets two assignments and no vehicle or
\* driver two trips.
NoDoubleBooking ==
    \A f, g \in assignments : f # g =>
        /\ offer[f].order # offer[g].order
        /\ offer[f].vehicle # offer[g].vehicle
        /\ offer[f].driver # offer[g].driver

\* The offers whose acceptance the history of an order names.
Credited ==
    {f \in Offer : \E o \in Order : \E i \in DOMAIN transitions[o] :
        transitions[o][i] = [from |-> "confirmed", to |-> "assigned",
                             key |-> <<"dispatch:assign", f>>]}

\* Acceptance is all or nothing: an accepted offer, its assignment and the step
\* confirmed -> assigned that carries its key exist together or not at all.
AcceptanceIsAtomic ==
    /\ assignments = {f \in Offer : offer[f] # None /\ offer[f].status = "accepted"}
    /\ assignments = Credited

\* DSP-INV-001, "no assignment when required insurance or fitness documents are
\* expired".
DocumentsValidAtAssignment ==
    [][\A f \in assignments' \ assignments : offer[f].vehicle \in fit]_vars

----------------------------------------------------------------------------
(* Dispatch implements the contract of DispatchContract.tla.               *)

Contract == INSTANCE DispatchContract
            WITH Rules <- order_transition_rules, stage <- status, offers <- offer,
                 booked <- assignments, credited <- Credited

\* However the transactions of offers, acceptances, answers and blocks
\* interleave, acceptance acts as one step on an offer that is still open and
\* an order that is still confirmed, and an answered offer stays as it is.
ImplementsContract == Contract!ContractSpec

=============================================================================
