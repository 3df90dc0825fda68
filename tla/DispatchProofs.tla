--------------------------- MODULE DispatchProofs ---------------------------
(***************************************************************************)
(* Proofs about Dispatch: under concurrent acceptance nobody is booked     *)
(* twice, acceptance is all or nothing, and dispatch implements its        *)
(* contract, for any number of orders, offers, vehicles, drivers and       *)
(* requests.                                                               *)
(***************************************************************************)
EXTENDS Dispatch, TLAPS

Transition == [from : OrderStatus \cup {"absent"}, to : OrderStatus,
               key : {<<"client", o, next>> : o \in Order, next \in OrderStatus}
                        \cup {<<"dispatch:assign", f>> : f \in Offer}]

Made(f) == offer[f] # None

Types ==
    /\ status \in [Order -> OrderStatus \cup {"absent"}]
    /\ transitions \in [Order -> Seq(Transition)]
    /\ offer \in [Offer -> OfferRow \cup {None}]
    /\ assignments \subseteq {f \in Offer : Made(f)}
    /\ pc \in [Session -> {"idle", "insert", "accept", "commit", "block"}]
    /\ work = [s \in Session |-> work[s]]
    /\ \A s \in Session :
          /\ pc[s] \in {"accept", "commit"} => work[s] \in {f \in Offer : Made(f)}
          /\ pc[s] = "insert" => work[s] \in [offer : Offer, order : Order,
                                              vehicle : Vehicle, driver : Driver]

\* Two offers of different orders, vehicles and drivers.
Apart(f, g) ==
    /\ offer[f].order # offer[g].order
    /\ offer[f].vehicle # offer[g].vehicle
    /\ offer[f].driver # offer[g].driver

Committing(s) == pc[s] = "commit"

\* An acceptance that has passed its checks will not book anybody twice.
Booked ==
    /\ \A s \in Session, g \in assignments : Committing(s) => Apart(work[s], g)
    /\ \A s, t \in Session : Committing(s) /\ Committing(t) /\ s # t => Apart(work[s], work[t])
    /\ NoDoubleBooking

AssignStep(f) == [from |-> "confirmed", to |-> "assigned", key |-> <<"dispatch:assign", f>>]
Assigned(f) == \E o \in Order : \E i \in DOMAIN transitions[o] : transitions[o][i] = AssignStep(f)

Atomic ==
    /\ \A s \in Session : Committing(s) => offer[work[s]].status = "pending"
    /\ \A f \in Offer : f \in assignments <=> Made(f) /\ offer[f].status = "accepted"
    /\ \A f \in Offer : f \in assignments <=> Assigned(f)

DispatchInv == Types /\ Booked /\ Atomic

\* The parties of an offer never change.
RowsKept ==
    \A f \in Offer : Made(f) =>
        /\ offer'[f] # None
        /\ offer'[f].order = offer[f].order
        /\ offer'[f].vehicle = offer[f].vehicle
        /\ offer'[f].driver = offer[f].driver

\* A step in which no acceptance passes its checks and none commits.
LEMMA OtherStep ==
    ASSUME DispatchInv, Types', RowsKept, assignments' = assignments,
           \A s \in Session : Committing(s)' => Committing(s) /\ work'[s] = work[s],
           \A f \in Offer : Made(f)' /\ offer'[f].status = "accepted"
                              <=> Made(f) /\ offer[f].status = "accepted",
           \A s \in Session : Committing(s)' => offer'[work[s]].status = offer[work[s]].status,
           \A f \in Offer : Assigned(f)' <=> Assigned(f)
    PROVE  DispatchInv'
<1>1. \A s \in Session : Committing(s) => work[s] \in Offer /\ Made(work[s])
    BY DEF DispatchInv, Types, Committing
<1>2. \A f \in assignments : f \in Offer /\ Made(f)
    BY DEF DispatchInv, Types
<1>3. \A f, g \in Offer : Made(f) /\ Made(g) => (Apart(f, g)' <=> Apart(f, g))
    BY DEF RowsKept, Apart
<1>4. Booked'
    <2>1. \A s \in Session, g \in assignments : Committing(s)' => Apart(work[s], g)'
        BY <1>1, <1>2, <1>3 DEF DispatchInv, Booked
    <2>2. \A s, t \in Session : Committing(s)' /\ Committing(t)' /\ s # t
                                  => Apart(work[s], work[t])'
        BY <1>1, <1>3 DEF DispatchInv, Booked
    <2>3. NoDoubleBooking'
        BY <1>2 DEF RowsKept, DispatchInv, Booked, NoDoubleBooking
    <2>4. \A s \in Session : Committing(s)' => work'[s] = work[s]
        OBVIOUS
    <2>. QED BY <2>1, <2>2, <2>3, <2>4 DEF Booked, Apart
<1>5. Atomic'
    BY DEF DispatchInv, Atomic
<1>. QED BY <1>4, <1>5 DEF DispatchInv

\* What a transition leaves of the assigning steps: its own, if it is one.
LEMMA AppendedStep ==
    ASSUME Types, NEW o \in Order, NEW next, NEW key, NEW hash,
           [from |-> status[o], to |-> next, key |-> key] \in Transition,
           WriteTransition(o, next, key, hash), NEW f \in Offer
    PROVE  Assigned(f)' <=> Assigned(f) \/ [from |-> status[o], to |-> next, key |-> key] = AssignStep(f)
<1> DEFINE new == [from |-> status[o], to |-> next, key |-> key]
<1>1. /\ transitions[o] \in Seq(Transition)
      /\ transitions'[o] = Append(transitions[o], new)
      /\ \A p \in Order \ {o} : transitions'[p] = transitions[p]
    BY DEF Types, WriteTransition
<1>2. /\ DOMAIN transitions'[o] = DOMAIN transitions[o] \cup {Len(transitions[o]) + 1}
      /\ \A i \in DOMAIN transitions[o] : transitions'[o][i] = transitions[o][i]
      /\ transitions'[o][Len(transitions[o]) + 1] = new
    BY <1>1
<1>3. ASSUME Assigned(f)' PROVE Assigned(f) \/ new = AssignStep(f)
    <2>1. PICK p \in Order : \E i \in DOMAIN transitions'[p] : transitions'[p][i] = AssignStep(f)
        BY <1>3 DEF Assigned, AssignStep
    <2>2. CASE p = o
        BY <1>2, <2>1, <2>2 DEF Assigned
    <2>3. CASE p # o
        BY <1>1, <2>1, <2>3 DEF Assigned
    <2>. QED BY <2>2, <2>3
<1>4. ASSUME Assigned(f) PROVE Assigned(f)'
    <2>1. PICK p \in Order : \E i \in DOMAIN transitions[p] : transitions[p][i] = AssignStep(f)
        BY <1>4 DEF Assigned
    <2>2. \E i \in DOMAIN transitions'[p] : transitions'[p][i] = AssignStep(f)
        BY <1>1, <1>2, <2>1
    <2>. QED BY <2>2 DEF Assigned, AssignStep
<1>5. ASSUME new = AssignStep(f) PROVE Assigned(f)'
    BY <1>2, <1>5 DEF Assigned, AssignStep
<1>. QED BY <1>3, <1>4, <1>5

\* A transition keeps the order tables typed.
LEMMA WrittenTypes ==
    ASSUME Types, NEW o \in Order, NEW next \in OrderStatus, NEW key, NEW hash,
           [from |-> status[o], to |-> next, key |-> key] \in Transition,
           WriteTransition(o, next, key, hash)
    PROVE  /\ status' \in [Order -> OrderStatus \cup {"absent"}]
           /\ transitions' \in [Order -> Seq(Transition)]
<1>1. Append(transitions[o], [from |-> status[o], to |-> next, key |-> key]) \in Seq(Transition)
    BY DEF Types
<1>. QED BY <1>1 DEF Types, WriteTransition

----------------------------------------------------------------------------

\* An offer whose status changes keeps its parties.
LEMMA StatusChange ==
    ASSUME Types, NEW f \in Offer, Made(f), NEW st \in {"accepted", "declined", "cancelled", "expired"},
           SetOfferStatus(f, st)
    PROVE  /\ offer' \in [Offer -> OfferRow \cup {None}]
           /\ RowsKept
           /\ offer'[f].status = st
           /\ \A g \in Offer \ {f} : offer'[g] = offer[g]
<1>1. offer[f] \in OfferRow
    BY DEF Types, Made
<1>2. [offer[f] EXCEPT !.status = st] \in OfferRow
    BY <1>1 DEF OfferRow
<1>3. offer' = [offer EXCEPT ![f] = [offer[f] EXCEPT !.status = st]]
    BY DEF SetOfferStatus
<1>4. offer'[f] = [offer[f] EXCEPT !.status = st] /\ \A g \in Offer \ {f} : offer'[g] = offer[g]
    BY <1>3 DEF Types
<1>5. offer'[f] # None
    BY <1>2, <1>4, NoneAssumption
<1>6. /\ offer'[f].status = st /\ offer'[f].order = offer[f].order
      /\ offer'[f].vehicle = offer[f].vehicle /\ offer'[f].driver = offer[f].driver
    BY <1>1, <1>4 DEF OfferRow
<1>. QED BY <1>2, <1>3, <1>4, <1>5, <1>6 DEF Types, RowsKept, Made

\* An offer that nobody is accepting leaves the state "pending".
LEMMA ResolvedStep ==
    ASSUME DispatchInv, NEW f \in Offer, Pending(f), f \notin Accepting,
           NEW st \in {"declined", "cancelled", "expired"}, SetOfferStatus(f, st),
           UNCHANGED <<status, transitions, assignments>>,
           pc' = [s \in Session |-> pc'[s]], work' = [s \in Session |-> work'[s]],
           \A s \in Session : \/ UNCHANGED <<pc[s], work[s]>>
                              \/ pc'[s] = "accept" /\ work'[s] = f
    PROVE  DispatchInv'
<1>1. Made(f) /\ offer[f].status = "pending"
    BY DEF Pending, Made
<1>2. /\ offer' \in [Offer -> OfferRow \cup {None}] /\ RowsKept
      /\ offer'[f].status = st /\ \A g \in Offer \ {f} : offer'[g] = offer[g]
    BY <1>1, StatusChange DEF DispatchInv
<1>3. Types'
    <2>1. assignments' \subseteq {g \in Offer : Made(g)'}
        BY <1>2 DEF DispatchInv, Types, RowsKept, Made
    <2>2. ASSUME NEW s \in Session
          PROVE  /\ pc'[s] \in {"idle", "insert", "accept", "commit", "block"}
                 /\ pc'[s] \in {"accept", "commit"} => work'[s] \in {g \in Offer : Made(g)'}
                 /\ pc'[s] = "insert" => work'[s] \in [offer : Offer, order : Order,
                                                       vehicle : Vehicle, driver : Driver]
        BY <1>1, <1>2 DEF DispatchInv, Types, RowsKept, Made
    <2>. QED BY <1>2, <2>1, <2>2 DEF DispatchInv, Types
<1>4. \A s \in Session : Committing(s)' => Committing(s) /\ work'[s] = work[s]
    BY DEF Committing
<1>5. \A s \in Session : Committing(s) => work[s] # f /\ work[s] \in Offer
    BY DEF Committing, Accepting, DispatchInv, Types
<1>6. \A s \in Session : Committing(s)' => offer'[work[s]].status = offer[work[s]].status
    BY <1>2, <1>4, <1>5
<1>7. \A g \in Offer : Made(g)' /\ offer'[g].status = "accepted"
                         <=> Made(g) /\ offer[g].status = "accepted"
    BY <1>1, <1>2 DEF Made
<1>8. \A g \in Offer : Assigned(g)' <=> Assigned(g)
    BY DEF Assigned, AssignStep
<1>. QED BY <1>2, <1>3, <1>4, <1>6, <1>7, <1>8, OtherStep

\* A step that writes neither offers nor orders, and after which no other
\* request is about to commit.
LEMMA RequestStep ==
    ASSUME DispatchInv, NEW s \in Session, NEW step \in {"idle", "insert", "accept", "block"}, NEW w,
           Goto(s, step, w), UNCHANGED <<status, transitions, offer, assignments>>,
           step = "accept" => w \in Offer /\ Made(w),
           step = "insert" => w \in [offer : Offer, order : Order, vehicle : Vehicle, driver : Driver]
    PROVE  DispatchInv'
<1>1. Types'
    BY DEF DispatchInv, Types, Goto, Made
<1>2. \A t \in Session : Committing(t)' => Committing(t) /\ work'[t] = work[t]
    BY DEF DispatchInv, Types, Goto, Committing
<1>3. RowsKept /\ \A f \in Offer : Made(f)' = Made(f) /\ (Assigned(f)' <=> Assigned(f))
    BY DEF RowsKept, Made, Assigned, AssignStep
<1>. QED BY <1>1, <1>2, <1>3, OtherStep

LEMMA UntouchedStep ==
    ASSUME DispatchInv, UNCHANGED <<status, transitions, offer, assignments, pc, work>>
    PROVE  DispatchInv'
<1>1. Types'
    BY DEF DispatchInv, Types, Made
<1>2. RowsKept /\ \A f \in Offer : Made(f)' = Made(f) /\ (Assigned(f)' <=> Assigned(f))
    BY DEF RowsKept, Made, Assigned, AssignStep
<1>. QED BY <1>1, <1>2, OtherStep DEF Committing

\* A transition of an order by a client.
LEMMA OrderStep ==
    ASSUME DispatchInv, NEW o \in Order, CreateOrder(o) \/ \E next \in Target : Advance(o, next)
    PROVE  DispatchInv'
<1>1. UNCHANGED <<offer, assignments, pc, work>>
    BY DEF CreateOrder, Advance, dispatchVars, sessionVars
<1>2. /\ status' \in [Order -> OrderStatus \cup {"absent"}]
      /\ transitions' \in [Order -> Seq(Transition)]
      /\ \A f \in Offer : Assigned(f)' <=> Assigned(f)
    <2>1. CASE CreateOrder(o)
        <3>1. transitions' = transitions /\ status' = [status EXCEPT ![o] = "pending"]
            BY <2>1 DEF CreateOrder, InsertOrder
        <3>. QED BY <3>1 DEF DispatchInv, Types, Assigned, AssignStep, OrderStatus
    <2>2. ASSUME NEW next \in Target, Advance(o, next)
          PROVE  /\ status' \in [Order -> OrderStatus \cup {"absent"}]
                 /\ transitions' \in [Order -> Seq(Transition)]
                 /\ \A f \in Offer : Assigned(f)' <=> Assigned(f)
        <3> DEFINE key == <<"client", o, next>>
        <3>1. next \in OrderStatus /\ WriteTransition(o, next, key, next)
            BY <2>2, TargetAssumption DEF Advance, transition_order
        <3>2. [from |-> status[o], to |-> next, key |-> key] \in Transition
            BY <3>1 DEF DispatchInv, Types, Transition
        <3>3. \A f \in Offer : [from |-> status[o], to |-> next, key |-> key] # AssignStep(f)
            <4>1. \A f \in Offer : key # <<"dispatch:assign", f>>
                <5>1. key[1] = "client" /\ \A f \in Offer : <<"dispatch:assign", f>>[1] = "dispatch:assign"
                    OBVIOUS
                <5>. QED BY <5>1
            <4>. QED BY <4>1 DEF AssignStep
        <3>4. \A f \in Offer : Assigned(f)' <=> Assigned(f)
            BY <3>1, <3>2, <3>3, AppendedStep DEF DispatchInv
        <3>. QED BY <3>1, <3>2, <3>4, WrittenTypes DEF DispatchInv
    <2>. QED BY <2>1, <2>2
<1>3. Types'
    BY <1>1, <1>2 DEF DispatchInv, Types, Made
<1>4. RowsKept
    BY <1>1 DEF RowsKept, Made
<1>. QED BY <1>1, <1>2, <1>3, <1>4, OtherStep DEF Committing, Made

\* The commit of an acceptance that has passed its checks.
LEMMA AcceptanceStep ==
    ASSUME DispatchInv, NEW s \in Session, AcceptCommits(s)
    PROVE  DispatchInv'
<1> DEFINE f == work[s]
           key == <<"dispatch:assign", f>>
<1>1. /\ Committing(s) /\ f \in Offer /\ Made(f) /\ offer[f] \in OfferRow
      /\ offer[f].order \in Order /\ offer[f].status = "pending"
    BY DEF AcceptCommits, Committing, DispatchInv, Types, Atomic, Made, OfferRow
<1>2. /\ SetOfferStatus(f, "accepted") /\ assignments' = assignments \cup {f}
      /\ Goto(s, "idle", None)
      /\ status[offer[f].order] = "confirmed"
      /\ WriteTransition(offer[f].order, "assigned", key, f)
    BY DEF AcceptCommits, transition_order, MayTransition
<1>3. /\ offer' \in [Offer -> OfferRow \cup {None}] /\ RowsKept
      /\ offer'[f].status = "accepted" /\ \A g \in Offer \ {f} : offer'[g] = offer[g]
    BY <1>1, <1>2, StatusChange DEF DispatchInv
<1>4. [from |-> status[offer[f].order], to |-> "assigned", key |-> key] = AssignStep(f)
    BY <1>2 DEF AssignStep
<1>5. AssignStep(f) \in Transition
    BY <1>1 DEF AssignStep, Transition, OrderStatus
<1>6. \A g \in Offer : Assigned(g)' <=> Assigned(g) \/ AssignStep(f) = AssignStep(g)
    BY <1>1, <1>2, <1>4, <1>5, AppendedStep DEF DispatchInv
<1>7. \A g \in Offer : AssignStep(f) = AssignStep(g) <=> f = g
    <2>1. ASSUME NEW g \in Offer, AssignStep(f) = AssignStep(g) PROVE f = g
        <3>1. AssignStep(f).key[2] = f /\ AssignStep(g).key[2] = g
            BY DEF AssignStep
        <3>. QED BY <2>1, <3>1
    <2>. QED BY <2>1
<1>8. "assigned" \in OrderStatus
    BY DEF OrderStatus
<1>9. /\ pc' = [pc EXCEPT ![s] = "idle"] /\ work' = [work EXCEPT ![s] = None]
    BY <1>2 DEF Goto
<1>10. Types'
    <2>1. /\ status' \in [Order -> OrderStatus \cup {"absent"}]
          /\ transitions' \in [Order -> Seq(Transition)]
        BY <1>1, <1>2, <1>4, <1>5, <1>8, WrittenTypes DEF DispatchInv
    <2>2. assignments' \subseteq {g \in Offer : Made(g)'}
        BY <1>1, <1>2, <1>3 DEF DispatchInv, Types, RowsKept, Made
    <2>3. \A t \in Session :
             /\ pc'[t] \in {"accept", "commit"} => work'[t] \in {g \in Offer : Made(g)'}
             /\ pc'[t] = "insert" => work'[t] \in [offer : Offer, order : Order,
                                                   vehicle : Vehicle, driver : Driver]
        BY <1>3, <1>9 DEF DispatchInv, Types, RowsKept, Made
    <2>. QED BY <1>3, <1>9, <2>1, <2>2, <2>3 DEF DispatchInv, Types
<1>11. \A t \in Session : Committing(t)' => /\ t # s /\ Committing(t) /\ work'[t] = work[t]
                                            /\ work[t] \in Offer /\ Made(work[t])
                                            /\ work[t] # f
    BY <1>1, <1>9 DEF DispatchInv, Types, Committing, Booked, Apart
<1>12. \A g, h \in Offer : Made(g) /\ Made(h) => (Apart(g, h)' <=> Apart(g, h))
    BY <1>3 DEF RowsKept, Apart
<1>13. Booked'
    <2>1. ASSUME NEW t \in Session, NEW g \in assignments', Committing(t)'
          PROVE  Apart(work[t], g)'
        BY <1>1, <1>2, <1>11, <1>12, <2>1 DEF DispatchInv, Types, Booked
    <2>2. \A t, u \in Session : Committing(t)' /\ Committing(u)' /\ t # u => Apart(work[t], work[u])'
        BY <1>11, <1>12 DEF DispatchInv, Booked
    <2>3. ASSUME NEW g \in assignments', NEW h \in assignments', g # h PROVE Apart(g, h)'
        <3>1. g \in Offer /\ Made(g) /\ h \in Offer /\ Made(h)
            BY <1>1, <1>2 DEF DispatchInv, Types
        <3>2. Apart(g, h)
            BY <1>1, <1>2, <2>3 DEF DispatchInv, Booked, NoDoubleBooking, Apart
        <3>. QED BY <1>12, <3>1, <3>2
    <2>. QED BY <1>11, <2>1, <2>2, <2>3 DEF Booked, NoDoubleBooking, Apart
<1>14. Atomic'
    <2>1. \A t \in Session : Committing(t)' => offer'[work'[t]].status = "pending"
        BY <1>3, <1>11 DEF DispatchInv, Atomic
    <2>2. \A g \in Offer : g \in assignments' <=> Made(g)' /\ offer'[g].status = "accepted"
        BY <1>1, <1>2, <1>3 DEF DispatchInv, Atomic, RowsKept, Made
    <2>3. \A g \in Offer : g \in assignments' <=> Assigned(g)'
        BY <1>2, <1>6, <1>7 DEF DispatchInv, Atomic
    <2>. QED BY <2>1, <2>2, <2>3 DEF Atomic
<1>. QED BY <1>10, <1>13, <1>14 DEF DispatchInv

\* The checks of an acceptance under its locks.
LEMMA CheckStep ==
    ASSUME DispatchInv, NEW s \in Session, AcceptChecks(s)
    PROVE  DispatchInv'
<1> DEFINE f == work[s]
<1>1. /\ pc[s] = "accept" /\ f \in Offer /\ Made(f)
      /\ UNCHANGED <<status, transitions, offer, assignments>>
    BY DEF AcceptChecks, DispatchInv, Types, orderVars, dispatchVars
<1>2. CASE ~MayAccept(f)
    BY <1>1, <1>2, RequestStep DEF AcceptChecks
<1>3. CASE MayAccept(f)
    <2>1. pc' = [pc EXCEPT ![s] = "commit"] /\ work' = [work EXCEPT ![s] = f]
        BY <1>3 DEF AcceptChecks, Goto
    <2>2. work' = work
        BY <2>1 DEF DispatchInv, Types
    <2>3. Types'
        BY <1>1, <2>1, <2>2 DEF DispatchInv, Types, Made
    <2>4. \A g \in assignments : Apart(f, g)
        BY <1>3 DEF MayAccept, Busy, Apart
    <2>5. ASSUME NEW t \in Session, Committing(t) PROVE Apart(f, work[t]) /\ Apart(work[t], f)
        <3>1. work[t] \in Accepting
            BY <2>5 DEF Accepting, Committing
        <3>. QED BY <3>1 DEF AcceptChecks, OrderLocked, Apart
    <2>6. \A t \in Session : Committing(t)' <=> t = s \/ Committing(t)
        BY <2>1 DEF Committing, DispatchInv, Types
    <2>7. \A g, h : Apart(g, h)' <=> Apart(g, h)
        BY <1>1 DEF Apart
    <2>8. Booked'
        BY <1>1, <2>2, <2>4, <2>5, <2>6, <2>7 DEF DispatchInv, Booked, NoDoubleBooking
    <2>9. Atomic'
        <3>1. \A t \in Session : Committing(t)' => offer'[work'[t]].status = "pending"
            BY <1>1, <1>3, <2>2, <2>6 DEF MayAccept, Pending, DispatchInv, Atomic
        <3>. QED BY <1>1, <3>1 DEF DispatchInv, Atomic, Made, Assigned, AssignStep
    <2>. QED BY <2>3, <2>8, <2>9 DEF DispatchInv
<1>. QED BY <1>2, <1>3

\* A new offer is pending and nobody is accepting it yet.
LEMMA InsertStep ==
    ASSUME DispatchInv, NEW s \in Session, InsertOffer(s)
    PROVE  DispatchInv'
<1> DEFINE w == work[s]
           new == [status |-> "pending", order |-> w.order, vehicle |-> w.vehicle, driver |-> w.driver]
<1>1. /\ w.offer \in Offer /\ new \in OfferRow /\ new # None
    BY NoneAssumption DEF InsertOffer, DispatchInv, Types, OfferRow
<1>2. /\ UNCHANGED <<status, transitions, assignments>> /\ Goto(s, "idle", None)
    BY DEF InsertOffer, orderVars
<1>3. CASE Made(w.offer)
    <2>1. offer' = offer
        BY <1>3 DEF InsertOffer, Made
    <2>. QED BY <1>2, <2>1, RequestStep
<1>4. CASE ~Made(w.offer)
    <2>1. offer' = [offer EXCEPT ![w.offer] = new]
        BY <1>4 DEF InsertOffer, Made
    <2>2. offer'[w.offer] = new /\ \A g \in Offer \ {w.offer} : offer'[g] = offer[g]
        BY <1>1, <2>1 DEF DispatchInv, Types
    <2>3. RowsKept
        BY <1>4, <2>2 DEF RowsKept, Made
    <2>4. Types'
        <3>1. offer' \in [Offer -> OfferRow \cup {None}]
            BY <1>1, <2>1 DEF DispatchInv, Types
        <3>2. \A g \in Offer : Made(g) => Made(g)'
            BY <2>3 DEF RowsKept, Made
        <3>. QED BY <1>2, <3>1, <3>2 DEF Goto, DispatchInv, Types
    <2>5. \A t \in Session : Committing(t)' => Committing(t) /\ work'[t] = work[t]
        BY <1>2 DEF Goto, DispatchInv, Types, Committing
    <2>6. \A t \in Session : Committing(t) => work[t] \in Offer /\ work[t] # w.offer
        BY <1>4 DEF DispatchInv, Types, Committing
    <2>7. \A g \in Offer : Made(g)' /\ offer'[g].status = "accepted"
                             <=> Made(g) /\ offer[g].status = "accepted"
        BY <1>4, <2>2 DEF Made
    <2>8. \A g \in Offer : Assigned(g)' <=> Assigned(g)
        BY <1>2 DEF Assigned, AssignStep
    <2>. QED BY <1>2, <2>2, <2>3, <2>4, <2>5, <2>6, <2>7, <2>8, OtherStep
<1>. QED BY <1>3, <1>4

LEMMA DispatchStep == ASSUME DispatchInv, [Next]_vars PROVE DispatchInv'
<1>1. ASSUME NEW s \in Session, NEW f \in Offer, NEW o \in Order, NEW v \in Vehicle, NEW d \in Driver,
             ReadFacts(s, f, o, v, d)
      PROVE  DispatchInv'
    <2>1. UNCHANGED <<status, transitions, offer, assignments>>
        BY <1>1 DEF ReadFacts, orderVars
    <2>2. CASE Goto(s, "insert", [offer |-> f, order |-> o, vehicle |-> v, driver |-> d])
        BY <2>1, <2>2, RequestStep
    <2>3. CASE UNCHANGED sessionVars
        BY <2>1, <2>3, UntouchedStep DEF sessionVars
    <2>. QED BY <1>1, <2>2, <2>3 DEF ReadFacts
<1>2. ASSUME NEW s \in Session, NEW f \in Offer, ExpireIfDue(s, f) PROVE DispatchInv'
    <2>1. /\ UNCHANGED <<status, transitions, assignments>> /\ Goto(s, "accept", f)
          /\ Made(f) /\ f \notin Accepting
        BY <1>2 DEF ExpireIfDue, orderVars, Made
    <2>2. CASE Pending(f) /\ f \in overdue
        <3>1. SetOfferStatus(f, "expired")
            BY <1>2, <2>2 DEF ExpireIfDue
        <3>2. /\ pc' = [t \in Session |-> pc'[t]] /\ work' = [t \in Session |-> work'[t]]
            BY <2>1 DEF Goto, DispatchInv, Types
        <3>3. \A t \in Session : \/ UNCHANGED <<pc[t], work[t]>>
                                 \/ pc'[t] = "accept" /\ work'[t] = f
            BY <2>1 DEF Goto, DispatchInv, Types
        <3>. QED BY <2>1, <2>2, <3>1, <3>2, <3>3, ResolvedStep
    <2>3. CASE ~(Pending(f) /\ f \in overdue)
        <3>1. offer' = offer
            BY <1>2, <2>3 DEF ExpireIfDue
        <3>. QED BY <2>1, <3>1, RequestStep
    <2>. QED BY <2>2, <2>3
<1>3. ASSUME NEW f \in Offer, NEW st \in {"declined", "cancelled"}, ResolveOffer(f, st)
      PROVE  DispatchInv'
    <2>1. /\ Pending(f) /\ f \notin Accepting /\ SetOfferStatus(f, st)
          /\ UNCHANGED <<status, transitions, assignments, pc, work>>
        BY <1>3 DEF ResolveOffer, orderVars, sessionVars
    <2>2. /\ pc' = [t \in Session |-> pc'[t]] /\ work' = [t \in Session |-> work'[t]]
        BY <2>1 DEF DispatchInv, Types
    <2>. QED BY <2>1, <2>2, ResolvedStep
<1>4. ASSUME NEW s \in Session, NEW d \in Driver, BlockReads(s, d) PROVE DispatchInv'
    <2>1. /\ UNCHANGED <<status, transitions, offer, assignments>>
          /\ Goto(s, "block", [driver |-> d, on_trip |-> Busy(d)])
        BY <1>4 DEF BlockReads, orderVars, dispatchVars
    <2>. QED BY <2>1, RequestStep
<1>5. ASSUME NEW s \in Session, BlockCommits(s) PROVE DispatchInv'
    <2>1. UNCHANGED <<status, transitions, offer, assignments>> /\ Goto(s, "idle", None)
        BY <1>5 DEF BlockCommits, orderVars, dispatchVars
    <2>. QED BY <2>1, RequestStep
<1>6. CASE \/ \E f \in Offer : OfferRunsOut(f)
           \/ \E d \in Driver : Unblock(d)
           \/ \E v \in Vehicle : DocumentsLapse(v)
           \/ UNCHANGED vars
    BY <1>6, UntouchedStep
    DEF OfferRunsOut, Unblock, DocumentsLapse, vars, orderVars, dispatchVars, sessionVars
<1>. QED
    BY <1>1, <1>2, <1>3, <1>4, <1>5, <1>6, OrderStep, InsertStep, CheckStep, AcceptanceStep
    DEF Next, create_offer, accept_offer, decline_or_cancel_offer

LEMMA DispatchInvariant == Spec => []DispatchInv
<1>1. Init => DispatchInv
    <2>1. ASSUME Init PROVE Types
        BY <2>1 DEF Init, OrderInit, Types
    <2>2. ASSUME Init PROVE Booked /\ Atomic
        BY <2>2 DEF Init, OrderInit, Booked, Atomic, Committing, NoDoubleBooking, Made, Assigned
    <2>. QED BY <2>1, <2>2 DEF DispatchInv
<1>. QED BY <1>1, DispatchStep, PTL DEF Spec

\* However requests interleave, no order, vehicle or driver is in two
\* assignments.
THEOREM NobodyIsBookedTwice == Spec => []NoDoubleBooking
<1>1. DispatchInv => NoDoubleBooking
    BY DEF DispatchInv, Booked
<1>. QED BY <1>1, DispatchInvariant, PTL

\* The offers that the histories name are the assignments.
LEMMA CreditIsBooking == DispatchInv => Credited = assignments
BY DEF DispatchInv, Types, Atomic, Assigned, AssignStep, Credited

\* An accepted offer, its assignment and the step of its order exist together
\* or not at all.
THEOREM AcceptanceIsWhole == Spec => []AcceptanceIsAtomic
<1>1. DispatchInv => AcceptanceIsAtomic
    <2>1. ASSUME DispatchInv
          PROVE  assignments = {f \in Offer : offer[f] # None /\ offer[f].status = "accepted"}
        BY <2>1 DEF DispatchInv, Types, Atomic, Made
    <2>2. ASSUME DispatchInv PROVE assignments = Credited
        BY <2>2, CreditIsBooking
    <2>. QED BY <2>1, <2>2 DEF AcceptanceIsAtomic
<1>. QED BY <1>1, DispatchInvariant, PTL

----------------------------------------------------------------------------
(* The rest of what the tables hold.                                       *)

\* The version of an order is its distance from the intake.
Depth ==
    \A o \in Order :
        /\ status[o] = "absent" => version[o] = 0
        /\ status[o] = "pending" => version[o] = 1
        /\ status[o] = "quoted" => version[o] = 2
        /\ status[o] = "confirmed" => version[o] = 3
        /\ status[o] = "assigned" => version[o] = 4
        /\ status[o] = "in_transit" => version[o] = 5
        /\ status[o] = "delivered" => version[o] = 6
        /\ status[o] = "cancelled" => version[o] \in 2..5

Resources ==
    /\ overdue \subseteq Offer /\ active \subseteq Driver /\ fit \subseteq Vehicle
    /\ reviews \subseteq Order /\ alarms \subseteq Driver
    /\ \A s \in Session : pc[s] = "block" => work[s].driver \in Driver

TableInv == version \in [Order -> Nat] /\ Depth /\ Resources

\* A transition of the rules is one step further from the intake.
LEMMA DepthStep ==
    ASSUME Types, version \in [Order -> Nat], Depth, NEW o \in Order, NEW expected, NEW next,
           NEW key, NEW hash, transition_order(o, expected, next, key, hash)
    PROVE  version' \in [Order -> Nat] /\ Depth'
<1>1. /\ <<status[o], next>> \in order_transition_rules
      /\ status' = [status EXCEPT ![o] = next]
      /\ version' = [version EXCEPT ![o] = @ + 1]
    BY DEF transition_order, MayTransition, WriteTransition
<1>2. /\ status'[o] = next /\ version'[o] = version[o] + 1
      /\ \A p \in Order : p # o => status'[p] = status[p] /\ version'[p] = version[p]
      /\ version' \in [Order -> Nat]
    BY <1>1 DEF Types
<1>3. ASSUME NEW a, NEW b, <<a, b>> \in order_transition_rules
      PROVE  \/ a = "pending" /\ b \in {"quoted", "cancelled"}
             \/ a = "quoted" /\ b \in {"confirmed", "cancelled"}
             \/ a = "confirmed" /\ b \in {"assigned", "cancelled"}
             \/ a = "assigned" /\ b \in {"in_transit", "cancelled"}
             \/ a = "in_transit" /\ b = "delivered"
    BY <1>3 DEF order_transition_rules
<1>. QED BY <1>1, <1>2, <1>3 DEF Depth

\* Every step keeps the tables.
LEMMA TableStep == ASSUME DispatchInv, TableInv, [Next]_vars PROVE TableInv'
<1>. USE DEF Goto
<1>0. Types
    BY DEF DispatchInv
<1>1. ASSUME NEW o \in Order, CreateOrder(o) PROVE TableInv'
    BY <1>0, <1>1
    DEF CreateOrder, InsertOrder, TableInv, Depth, Resources, Types, dispatchVars, resourceVars,
        sessionVars
<1>2. ASSUME NEW o \in Order, NEW next \in Target, Advance(o, next) PROVE TableInv'
    BY <1>0, <1>2, DepthStep
    DEF Advance, TableInv, Resources, dispatchVars, resourceVars, sessionVars
<1>3. ASSUME NEW s \in Session, NEW f \in Offer, NEW o \in Order, NEW v \in Vehicle,
             NEW d \in Driver, ReadFacts(s, f, o, v, d)
      PROVE  TableInv'
    BY <1>0, <1>3
    DEF ReadFacts, TableInv, Depth, Resources, Types, orderVars, resourceVars, sessionVars
<1>4. ASSUME NEW s \in Session, InsertOffer(s) PROVE TableInv'
    BY <1>0, <1>4 DEF InsertOffer, TableInv, Depth, Resources, Types, orderVars, resourceVars
<1>5. ASSUME NEW s \in Session, NEW f \in Offer, ExpireIfDue(s, f) PROVE TableInv'
    BY <1>0, <1>5 DEF ExpireIfDue, TableInv, Depth, Resources, Types, orderVars, resourceVars
<1>6. ASSUME NEW s \in Session, AcceptChecks(s) PROVE TableInv'
    <2>1. /\ UNCHANGED <<orderVars, dispatchVars, resourceVars>>
          /\ \A t \in Session : pc'[t] = "block" => pc[t] = "block" /\ work'[t] = work[t]
        BY <1>0, <1>6 DEF AcceptChecks, Types
    <2>. QED BY <2>1 DEF TableInv, Depth, Resources, orderVars, dispatchVars, resourceVars
<1>7. ASSUME NEW s \in Session, AcceptCommits(s) PROVE TableInv'
    <2>1. work[s] \in Offer /\ Made(work[s]) /\ offer[work[s]].order \in Order
        BY <1>0, <1>7 DEF AcceptCommits, Types, Made, OfferRow
    <2>2. version' \in [Order -> Nat] /\ Depth'
        BY <1>0, <1>7, <2>1, DepthStep DEF AcceptCommits, TableInv
    <2>3. Resources'
        BY <1>0, <1>7 DEF AcceptCommits, TableInv, Resources, Types, resourceVars
    <2>. QED BY <2>2, <2>3 DEF TableInv
<1>8. ASSUME NEW s \in Session, NEW d \in Driver, BlockReads(s, d) PROVE TableInv'
    BY <1>0, <1>8
    DEF BlockReads, TableInv, Depth, Resources, Types, orderVars, dispatchVars, resourceVars
<1>9. ASSUME NEW s \in Session, BlockCommits(s) PROVE TableInv'
    BY <1>0, <1>9
    DEF BlockCommits, TableInv, Depth, Resources, Types, orderVars, dispatchVars
<1>10. ASSUME NEW f \in Offer, OfferRunsOut(f) \/ decline_or_cancel_offer(f) PROVE TableInv'
    BY <1>10
    DEF OfferRunsOut, decline_or_cancel_offer, ResolveOffer, TableInv, Depth, Resources,
        orderVars, resourceVars, sessionVars
<1>11. ASSUME NEW d \in Driver, Unblock(d) PROVE TableInv'
    BY <1>11 DEF Unblock, TableInv, Depth, Resources, orderVars, dispatchVars, sessionVars
<1>12. ASSUME NEW v \in Vehicle, DocumentsLapse(v) PROVE TableInv'
    BY <1>12 DEF DocumentsLapse, TableInv, Depth, Resources, orderVars, dispatchVars, sessionVars
<1>13. CASE UNCHANGED vars
    BY <1>13
    DEF vars, TableInv, Depth, Resources, orderVars, dispatchVars, resourceVars, sessionVars
<1>. QED
    BY <1>1, <1>2, <1>3, <1>4, <1>5, <1>6, <1>7, <1>8, <1>9, <1>10, <1>11, <1>12, <1>13
    DEF Next, create_offer, accept_offer

\* Every state of offers, orders and requests is well typed, and no order is
\* more than six versions from its start.
THEOREM TypeCorrect == Spec => []TypeOK
<1>1. Init => TableInv
    BY DEF Init, OrderInit, TableInv, Depth, Resources
<1>2. DispatchInv /\ TableInv => TypeOK
    <2>1. ASSUME Types, TableInv, NEW o \in Order PROVE version[o] \in 0..6
        BY <2>1 DEF Types, TableInv, Depth, OrderStatus
    <2>. QED BY <2>1 DEF DispatchInv, Types, TableInv, Resources, TypeOK, Made
<1>. QED BY <1>1, <1>2, DispatchInvariant, TableStep, PTL DEF Spec

----------------------------------------------------------------------------
(* The contract.                                                           *)

Early == {"absent", "pending", "quoted"}

\* What is about to be inserted suits, and its order was confirmed once.
Insertable ==
    \A s \in Session : pc[s] = "insert" =>
        /\ <<work[s].order, work[s].vehicle, work[s].driver>> \in Suitable
        /\ status[work[s].order] \notin Early

\* No step of an order leads back before its confirmation.
LEMMA RuleIsForward ==
    ASSUME NEW a, NEW b, <<a, b>> \in order_transition_rules, a \notin Early
    PROVE  b \notin Early
<1>1. \/ a = "pending" \/ a = "quoted"
      \/ b \in {"assigned", "cancelled", "in_transit", "delivered"}
    BY DEF order_transition_rules
<1>. QED BY <1>1 DEF Early

LEMMA OrdersGoOn ==
    ASSUME Types, [Next]_vars, NEW o \in Order, status[o] \notin Early
    PROVE  status'[o] \notin Early
<1>1. ASSUME NEW p \in Order, NEW expected, NEW next, NEW key, NEW hash,
             transition_order(p, expected, next, key, hash)
      PROVE  status'[o] \notin Early
    <2>1. <<status[p], next>> \in order_transition_rules /\ status' = [status EXCEPT ![p] = next]
        BY <1>1 DEF transition_order, MayTransition, WriteTransition
    <2>2. status[p] \notin Early => next \notin Early
        BY <2>1, RuleIsForward
    <2>. QED BY <2>1, <2>2 DEF Types
<1>2. ASSUME NEW p \in Order, CreateOrder(p) PROVE status'[o] \notin Early
    BY <1>2 DEF CreateOrder, InsertOrder, Types, Early
<1>3. ASSUME NEW p \in Order, NEW next \in Target, Advance(p, next) PROVE status'[o] \notin Early
    BY <1>1, <1>3 DEF Advance
<1>4. ASSUME NEW s \in Session, AcceptCommits(s) PROVE status'[o] \notin Early
    <2>1. offer[work[s]].order \in Order
        BY <1>4 DEF AcceptCommits, Types, Made, OfferRow
    <2>. QED BY <1>1, <1>4, <2>1 DEF AcceptCommits
<1>5. CASE UNCHANGED status
    BY <1>5
<1>6. ASSUME NEW s \in Session,
             \/ \E f \in Offer, p \in Order, v \in Vehicle, d \in Driver : ReadFacts(s, f, p, v, d)
             \/ InsertOffer(s) \/ AcceptChecks(s) \/ BlockCommits(s)
             \/ \E f \in Offer : ExpireIfDue(s, f)
             \/ \E d \in Driver : BlockReads(s, d)
      PROVE  UNCHANGED status
    BY <1>6
    DEF ReadFacts, InsertOffer, AcceptChecks, ExpireIfDue, BlockReads, BlockCommits, orderVars
<1>7. ASSUME \/ \E f \in Offer : OfferRunsOut(f) \/ decline_or_cancel_offer(f)
             \/ \E d \in Driver : Unblock(d)
             \/ \E v \in Vehicle : DocumentsLapse(v)
             \/ UNCHANGED vars
      PROVE  UNCHANGED status
    BY <1>7
    DEF OfferRunsOut, decline_or_cancel_offer, ResolveOffer, Unblock, DocumentsLapse, vars, orderVars
<1>. QED BY <1>2, <1>3, <1>4, <1>5, <1>6, <1>7 DEF Next, create_offer, accept_offer

\* The facts that were read are gone when the offer is inserted, but not these.
LEMMA InsertableStep == ASSUME Types, Insertable, [Next]_vars PROVE Insertable'
<1>. USE DEF Goto
<1>1. ASSUME NEW s \in Session, pc'[s] = "insert", pc[s] = "insert", work'[s] = work[s]
      PROVE  /\ <<work'[s].order, work'[s].vehicle, work'[s].driver>> \in Suitable
             /\ status'[work'[s].order] \notin Early
    <2>1. work[s].order \in Order
        BY <1>1 DEF Types
    <2>. QED BY <1>1, <2>1, OrdersGoOn DEF Insertable
<1>2. ASSUME \A s \in Session : pc'[s] = "insert" => pc[s] = "insert" /\ work'[s] = work[s]
      PROVE  Insertable'
    BY <1>1, <1>2 DEF Insertable
<1>3. ASSUME NEW s \in Session, NEW f \in Offer, NEW o \in Order, NEW v \in Vehicle,
             NEW d \in Driver, ReadFacts(s, f, o, v, d)
      PROVE  Insertable'
    <2>1. status' = status
        BY <1>3 DEF ReadFacts, orderVars
    <2>2. CASE UNCHANGED sessionVars
        BY <1>2, <2>2 DEF sessionVars
    <2>3. CASE /\ Eligible(o, v, d)
               /\ Goto(s, "insert", [offer |-> f, order |-> o, vehicle |-> v, driver |-> d])
        <3>1. <<o, v, d>> \in Suitable /\ status[o] \notin Early
            BY <2>3 DEF Eligible, Early
        <3>2. ASSUME NEW t \in Session, t # s PROVE pc'[t] = pc[t] /\ work'[t] = work[t]
            BY <2>3, <3>2 DEF Types
        <3>3. work'[s] = [offer |-> f, order |-> o, vehicle |-> v, driver |-> d]
            BY <2>3 DEF Types
        <3>. QED BY <2>1, <3>1, <3>2, <3>3 DEF Insertable
    <2>. QED BY <1>3, <2>2, <2>3 DEF ReadFacts
<1>4. ASSUME NEW s \in Session,
             \/ InsertOffer(s) \/ AcceptChecks(s) \/ AcceptCommits(s) \/ BlockCommits(s)
             \/ \E f \in Offer : ExpireIfDue(s, f)
             \/ \E d \in Driver : BlockReads(s, d)
      PROVE  Insertable'
    <2>1. \A t \in Session : pc'[t] = "insert" => pc[t] = "insert" /\ work'[t] = work[t]
        BY <1>4
        DEF InsertOffer, AcceptChecks, AcceptCommits, ExpireIfDue, BlockReads, BlockCommits, Types
    <2>. QED BY <1>2, <2>1
<1>5. CASE UNCHANGED sessionVars
    BY <1>2, <1>5 DEF sessionVars
<1>6. ASSUME \/ \E o \in Order : CreateOrder(o) \/ \E next \in Target : Advance(o, next)
             \/ \E f \in Offer : OfferRunsOut(f) \/ decline_or_cancel_offer(f)
             \/ \E d \in Driver : Unblock(d)
             \/ \E v \in Vehicle : DocumentsLapse(v)
             \/ UNCHANGED vars
      PROVE  UNCHANGED sessionVars
    BY <1>6
    DEF CreateOrder, Advance, OfferRunsOut, decline_or_cancel_offer, ResolveOffer, Unblock,
        DocumentsLapse, vars
<1>. QED BY <1>3, <1>4, <1>5, <1>6 DEF Next, create_offer, accept_offer

OffersSuit ==
    \A f \in Offer : offer[f] # None =>
        <<offer[f].order, offer[f].vehicle, offer[f].driver>> \in Suitable

\* An offer is made of such facts and keeps them.
LEMMA SuitStep == ASSUME Types, Insertable, OffersSuit, [Next]_vars PROVE OffersSuit'
<1>1. ASSUME NEW s \in Session, InsertOffer(s) PROVE OffersSuit'
    BY <1>1 DEF InsertOffer, Types, Insertable, OffersSuit
<1>2. ASSUME NEW f \in Offer, NEW st, offer[f] # None, SetOfferStatus(f, st) PROVE OffersSuit'
    <2>1. \A g \in Offer : offer[g] # None => offer[g] \in OfferRow
        BY DEF Types
    <2>2. /\ \A g \in Offer \ {f} : offer'[g] = offer[g]
          /\ offer'[f] = [offer[f] EXCEPT !.status = st]
        BY <1>2 DEF SetOfferStatus, Types
    <2>3. /\ offer'[f].order = offer[f].order /\ offer'[f].vehicle = offer[f].vehicle
          /\ offer'[f].driver = offer[f].driver
        BY <1>2, <2>1, <2>2 DEF OfferRow
    <2>. QED BY <1>2, <2>2, <2>3 DEF OffersSuit
<1>3. CASE UNCHANGED offer
    BY <1>3 DEF OffersSuit
<1>4. ASSUME NEW s \in Session, AcceptCommits(s) PROVE OffersSuit'
    BY <1>2, <1>4 DEF AcceptCommits, Types, Made
<1>5. ASSUME NEW s \in Session, NEW f \in Offer, ExpireIfDue(s, f) PROVE OffersSuit'
    BY <1>2, <1>3, <1>5 DEF ExpireIfDue
<1>6. ASSUME NEW f \in Offer, decline_or_cancel_offer(f) PROVE OffersSuit'
    BY <1>2, <1>6 DEF decline_or_cancel_offer, ResolveOffer, Pending
<1>7. ASSUME \/ \E o \in Order : CreateOrder(o) \/ \E next \in Target : Advance(o, next)
             \/ \E s \in Session :
                   \/ \E f \in Offer, o \in Order, v \in Vehicle, d \in Driver :
                         ReadFacts(s, f, o, v, d)
                   \/ AcceptChecks(s) \/ BlockCommits(s)
                   \/ \E d \in Driver : BlockReads(s, d)
             \/ \E f \in Offer : OfferRunsOut(f)
             \/ \E d \in Driver : Unblock(d)
             \/ \E v \in Vehicle : DocumentsLapse(v)
             \/ UNCHANGED vars
      PROVE  UNCHANGED offer
    BY <1>7
    DEF CreateOrder, Advance, ReadFacts, AcceptChecks, BlockReads, BlockCommits, OfferRunsOut,
        Unblock, DocumentsLapse, vars, dispatchVars
<1>. QED BY <1>1, <1>3, <1>4, <1>5, <1>6, <1>7 DEF Next, create_offer, accept_offer

\* Each step is a step of the contract or leaves its variables alone.
LEMMA ContractStep ==
    ASSUME DispatchInv, DispatchInv', Insertable, OffersSuit, [Next]_vars
    PROVE  [Contract!ContractNext]_(Contract!contractVars)
<1>1. Credited = assignments /\ Credited' = assignments'
    <2>1. DispatchInv' => (Credited = assignments)'
        BY CreditIsBooking, PTL
    <2>. QED BY <2>1, CreditIsBooking
<1>2. CASE UNCHANGED <<status, offer, assignments>>
    BY <1>1, <1>2 DEF Contract!contractVars
<1>3. ASSUME NEW o \in Order, CreateOrder(o) PROVE Contract!ContractNext
    <2>1. Contract!Move(o, "pending")
        BY <1>1, <1>3 DEF CreateOrder, InsertOrder, dispatchVars, Contract!Move
    <2>2. <<"absent", "pending">>[2] = "pending"
        OBVIOUS
    <2>. QED BY <2>1, <2>2 DEF Contract!ContractNext
<1>4. ASSUME NEW o \in Order, NEW next \in Target, Advance(o, next) PROVE Contract!ContractNext
    <2>1. /\ <<status[o], next>> \in order_transition_rules
          /\ status' = [status EXCEPT ![o] = next] /\ UNCHANGED <<offer, assignments>>
        BY <1>4 DEF Advance, transition_order, MayTransition, WriteTransition, dispatchVars
    <2>2. Contract!Move(o, next)
        BY <1>1, <2>1 DEF Contract!Move
    <2>3. <<status[o], next>>[2] = next
        OBVIOUS
    <2>. QED BY <2>1, <2>2, <2>3 DEF Contract!ContractNext
<1>5. ASSUME NEW s \in Session, InsertOffer(s)
      PROVE  Contract!ContractNext \/ UNCHANGED <<status, offer, assignments>>
    <2>. DEFINE w == work[s]
    <2>1. /\ w.offer \in Offer /\ w.order \in Order /\ w.vehicle \in Vehicle /\ w.driver \in Driver
          /\ <<w.order, w.vehicle, w.driver>> \in Suitable /\ status[w.order] \notin Early
          /\ UNCHANGED <<status, assignments>>
        BY <1>5 DEF InsertOffer, DispatchInv, Types, Insertable, orderVars
    <2>2. CASE offer[w.offer] # None
        BY <1>5, <2>1, <2>2 DEF InsertOffer
    <2>3. CASE offer[w.offer] = None
        <3>1. offer' = [offer EXCEPT ![w.offer] = [status |-> "pending", order |-> w.order,
                                                   vehicle |-> w.vehicle, driver |-> w.driver]]
            BY <1>5, <2>3 DEF InsertOffer
        <3>2. Contract!Make(w.offer, w.order, w.vehicle, w.driver)
            BY <1>1, <2>1, <2>3, <3>1 DEF Contract!Make, Early
        <3>. QED BY <2>1, <3>2 DEF Contract!ContractNext
    <2>. QED BY <2>2, <2>3
<1>6. ASSUME NEW f \in Offer, NEW st \in {"declined", "cancelled", "expired"}, Pending(f),
             SetOfferStatus(f, st), UNCHANGED <<status, assignments>>
      PROVE  Contract!ContractNext
    <2>1. Contract!Reject(f, st)
        BY <1>1, <1>6 DEF Pending, SetOfferStatus, Contract!Reject, Contract!Open
    <2>. QED BY <2>1 DEF Contract!ContractNext
<1>7. ASSUME NEW s \in Session, NEW f \in Offer, ExpireIfDue(s, f)
      PROVE  Contract!ContractNext \/ UNCHANGED <<status, offer, assignments>>
    BY <1>6, <1>7 DEF ExpireIfDue, orderVars
<1>8. ASSUME NEW f \in Offer, decline_or_cancel_offer(f) PROVE Contract!ContractNext
    BY <1>6, <1>8 DEF decline_or_cancel_offer, ResolveOffer, orderVars
<1>9. ASSUME NEW s \in Session, AcceptCommits(s) PROVE Contract!ContractNext
    <2>. DEFINE f == work[s]
                o == offer[f].order
    <2>1. /\ Committing(s) /\ f \in Offer /\ offer[f] # None /\ offer[f].status = "pending"
        BY <1>9 DEF AcceptCommits, Committing, DispatchInv, Types, Atomic, Made
    <2>2. /\ status[o] = "confirmed" /\ status' = [status EXCEPT ![o] = "assigned"]
          /\ SetOfferStatus(f, "accepted") /\ assignments' = assignments \cup {f}
        BY <1>9 DEF AcceptCommits, transition_order, MayTransition, WriteTransition
    <2>3. \A g \in assignments : /\ offer[g].order # offer[f].order
                                 /\ offer[g].vehicle # offer[f].vehicle
                                 /\ offer[g].driver # offer[f].driver
        BY <2>1 DEF DispatchInv, Booked, Apart
    <2>4. <<offer[f].order, offer[f].vehicle, offer[f].driver>> \in Suitable
        BY <2>1 DEF OffersSuit
    <2>5. Contract!Accept(f)
        BY <1>1, <2>1, <2>2, <2>3, <2>4 DEF SetOfferStatus, Contract!Accept, Contract!Open
    <2>. QED BY <2>1, <2>5 DEF Contract!ContractNext
<1>10. ASSUME NEW s \in Session,
              \/ \E f \in Offer, o \in Order, v \in Vehicle, d \in Driver : ReadFacts(s, f, o, v, d)
              \/ AcceptChecks(s) \/ BlockCommits(s)
              \/ \E d \in Driver : BlockReads(s, d)
       PROVE  UNCHANGED <<status, offer, assignments>>
    BY <1>10
    DEF ReadFacts, AcceptChecks, BlockReads, BlockCommits, orderVars, dispatchVars
<1>11. ASSUME \/ \E f \in Offer : OfferRunsOut(f)
              \/ \E d \in Driver : Unblock(d)
              \/ \E v \in Vehicle : DocumentsLapse(v)
              \/ UNCHANGED vars
       PROVE  UNCHANGED <<status, offer, assignments>>
    BY <1>11 DEF OfferRunsOut, Unblock, DocumentsLapse, vars, orderVars, dispatchVars
<1>. QED
    BY <1>2, <1>3, <1>4, <1>5, <1>7, <1>8, <1>9, <1>10, <1>11
    DEF Next, create_offer, accept_offer

\* Refinement: however transactions interleave, an acceptance acts as one step
\* on an offer still open and an order still confirmed, and every answer is final.
THEOREM DispatchImplementsContract == Spec => ImplementsContract
<1>1. Init => Contract!ContractInit /\ Insertable /\ OffersSuit
    BY DEF Init, OrderInit, Contract!ContractInit, Credited, Insertable, OffersSuit
<1>. QED
    BY <1>1, DispatchInvariant, InsertableStep, SuitStep, ContractStep, PTL
    DEF Spec, DispatchInv, ImplementsContract, Contract!ContractSpec

=============================================================================
