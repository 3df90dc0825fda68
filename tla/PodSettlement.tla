---------------------------- MODULE PodSettlement ---------------------------
(***************************************************************************)
(* Proof of delivery and the settlement gate (submit_pod, decide_pod,      *)
(* evaluate_settlement, the pod_gate_evaluate task and the function they   *)
(* share, _ensure_settlement_projection; trigger                           *)
(* validate_settlement_projection of migration 0006).                      *)
(*                                                                         *)
(* No unique index keeps settlement projections apart, only the row lock   *)
(* of the order.  A transaction therefore runs in steps: the decision of a *)
(* document (which locks its row), the lock of the order, the reads, and   *)
(* the insert with the commit.  Other transactions see its writes only     *)
(* after that.                                                             *)
(***************************************************************************)
EXTENDS Naturals, FiniteSets

CONSTANTS Order,
          Document,   \* POD documents, named by their object keys
          Session,    \* transactions in flight at the same time
          None        \* SQL NULL

PodRow == [order : Order, status : {"pending", "manual_review", "accepted", "rejected"}]

ASSUME NoneAssumption == None \notin Session \cup Document \cup PodRow

VARIABLES
    trips,        \* orders with a trip
    pod,          \* document: [order, status], or None
    settlements,  \* settlement_projections rows per order
    gate,         \* document: its pod_gate_evaluate task
    lock,         \* order: the session with its row lock, or None
    pc,           \* session: "idle", "lock", "read" or "insert"
    work          \* session: [kind, order, document], or None

tableVars == <<trips, pod, settlements, gate>>
vars == <<tableVars, lock, pc, work>>

Init ==
    /\ trips = {}
    /\ pod = [d \in Document |-> None]
    /\ settlements = [o \in Order |-> 0]
    /\ gate = [d \in Document |-> "none"]
    /\ lock = [o \in Order |-> None]
    /\ pc = [s \in Session |-> "idle"]
    /\ work = [s \in Session |-> None]

Begin(s, kind, o, d) ==
    /\ pc[s] = "idle"
    /\ pc' = [pc EXCEPT ![s] = "lock"]
    /\ work' = [work EXCEPT ![s] = [kind |-> kind, order |-> o, document |-> d]]

Goto(s, step) == pc' = [pc EXCEPT ![s] = step] /\ UNCHANGED work

\* The transaction ends and its locks are released.
End(s) ==
    /\ pc' = [pc EXCEPT ![s] = "idle"]
    /\ work' = [work EXCEPT ![s] = None]
    /\ lock' = [o \in Order |-> IF lock[o] = s THEN None ELSE lock[o]]

\* A session is deciding this document and has not committed.
Deciding(s, d) == pc[s] # "idle" /\ work[s].kind = "decide" /\ work[s].document = d

----------------------------------------------------------------------------

\* The acceptance of a dispatch offer (Dispatch.tla).
CreateTrip(o) ==
    /\ o \notin trips
    /\ trips' = trips \cup {o}
    /\ UNCHANGED <<pod, settlements, gate, lock, pc, work>>

\* A known object key returns the existing document, whatever its order.
submit_pod(o, d) ==
    /\ o \in trips
    /\ pod[d] = None
    /\ pod' = [pod EXCEPT ![d] = [order |-> o, status |-> "pending"]]
    /\ UNCHANGED <<trips, settlements, gate, lock, pc, work>>

Undecided(d) == pod[d] # None /\ pod[d].status \in {"pending", "manual_review"}

\* The UPDATE waits for a concurrent decision of the document; one that finds
\* it decided is refused.  Only an acceptance goes on to the settlement.
decide_pod(s, d, decision) ==
    /\ pc[s] = "idle" /\ Undecided(d)
    /\ \A t \in Session : ~Deciding(t, d)
    /\ \/ /\ decision = "accepted"
          /\ Begin(s, "decide", pod[d].order, d)
          /\ UNCHANGED <<pod, lock>>
       \/ /\ decision # "accepted"
          /\ pod' = [pod EXCEPT ![d].status = decision]
          /\ UNCHANGED <<lock, pc, work>>
    /\ UNCHANGED <<trips, settlements, gate>>

\* Every participant of the order may ask for an evaluation.
evaluate_settlement(s, o) ==
    /\ Begin(s, "evaluate", o, None)
    /\ UNCHANGED <<tableVars, lock>>

pod_gate_handler(s, d) ==
    /\ gate[d] = "queued"
    /\ \A t \in Session : pc[t] # "idle" /\ work[t].kind = "gate" => work[t].document # d
    /\ Begin(s, "gate", pod[d].order, d)
    /\ UNCHANGED <<tableVars, lock>>

----------------------------------------------------------------------------
(* _ensure_settlement_projection.                                          *)

\* Mutant: the order is read without FOR UPDATE.
ReadOrder(s) == pc[s] = "lock" /\ Goto(s, "read") /\ UNCHANGED <<tableVars, lock>>

\* SELECT ... FOR UPDATE of the order.
LockOrder(s) ==
    /\ pc[s] = "lock"
    /\ lock[work[s].order] = None
    /\ lock' = [lock EXCEPT ![work[s].order] = s]
    /\ Goto(s, "read")
    /\ UNCHANGED tableVars

\* The documents that the session sees as accepted: its own decision, and what
\* others committed.
SeesAccepted(s) ==
    {d \in Document : /\ pod[d] # None /\ pod[d].order = work[s].order
                      /\ pod[d].status = "accepted" \/ Deciding(s, d)}

\* What the transaction writes apart from the settlement projection.  The gate
\* task is completed in a transaction of its own, so that it may run again.
CommitWork(s) ==
    LET w == work[s]
        ready == settlements'[w.order] > 0
    IN  /\ \/ /\ w.kind = "decide"
              /\ pod' = [pod EXCEPT ![w.document].status = "accepted"]
              /\ gate' = [gate EXCEPT ![w.document] = IF @ = "none" THEN "queued" ELSE @]
           \/ /\ w.kind = "evaluate"
              /\ UNCHANGED <<pod, gate>>
           \/ /\ w.kind = "gate"
              /\ \E result \in IF ready THEN {"queued", "succeeded"} ELSE {"raised"} :
                    gate' = [gate EXCEPT ![w.document] = result]
              /\ UNCHANGED pod
        /\ UNCHANGED trips

\* The reads under the lock: an existing projection, or no accepted document,
\* ends the transaction.  Mutant: the early return leaves the lock behind.
ReadAndKeepLock(s) ==
    LET o == work[s].order
    IN  /\ pc[s] = "read"
        /\ \/ /\ settlements[o] > 0 \/ SeesAccepted(s) = {}
              /\ UNCHANGED settlements
              /\ CommitWork(s)
              /\ Goto(s, "idle") /\ UNCHANGED lock
           \/ /\ settlements[o] = 0 /\ SeesAccepted(s) # {}
              /\ Goto(s, "insert")
              /\ UNCHANGED <<tableVars, lock>>
ReadProjection(s) ==
    LET o == work[s].order
    IN  /\ pc[s] = "read"
        /\ \/ /\ settlements[o] > 0 \/ SeesAccepted(s) = {}
              /\ UNCHANGED settlements
              /\ CommitWork(s)
              /\ End(s)
           \/ /\ settlements[o] = 0 /\ SeesAccepted(s) # {}
              /\ Goto(s, "insert")
              /\ UNCHANGED <<tableVars, lock>>

\* INSERT and COMMIT.  The trigger finds the document the session has seen.
InsertProjection(s) ==
    /\ pc[s] = "insert"
    /\ settlements' = [settlements EXCEPT ![work[s].order] = @ + 1]
    /\ CommitWork(s)
    /\ End(s)

\* The connection breaks before the commit: nothing of the transaction stays.
ConnectionLost(s) ==
    /\ pc[s] # "idle"
    /\ End(s)
    /\ UNCHANGED tableVars

----------------------------------------------------------------------------

Step(s) == LockOrder(s) \/ ReadProjection(s) \/ InsertProjection(s)

Next ==
    \/ \E o \in Order : CreateTrip(o) \/ \E d \in Document : submit_pod(o, d)
    \/ \E s \in Session :
          \/ \E d \in Document :
                \/ \E x \in {"accepted", "rejected", "manual_review"} : decide_pod(s, d, x)
                \/ pod_gate_handler(s, d)
          \/ \E o \in Order : evaluate_settlement(s, o)
          \/ Step(s)
          \/ ConnectionLost(s)

Spec == Init /\ [][Next]_vars

\* Transactions take their steps; row locks are granted in turn.
Fairness == \A s \in Session : SF_vars(LockOrder(s)) /\ WF_vars(ReadProjection(s) \/ InsertProjection(s))

FairSpec == Spec /\ Fairness

----------------------------------------------------------------------------
(* Properties.                                                             *)

\* PAY-INV-002 and its converse: an order has a settlement projection exactly
\* when one of its documents is accepted, and never two, although several
\* documents of it may be accepted and evaluated at the same time.
SettlementIffAccepted ==
    \A o \in Order :
        settlements[o] = IF \E d \in Document : pod[d] # None /\ pod[d].order = o
                                                  /\ pod[d].status = "accepted"
                         THEN 1 ELSE 0

\* No two transactions wait for each other's document and order locks.
EveryTransactionEnds == \A s \in Session : pc[s] # "idle" ~> pc[s] = "idle"

=============================================================================
