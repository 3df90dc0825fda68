------------------------------ MODULE PodProofs -----------------------------
(***************************************************************************)
(* Proofs about the proof of delivery: the row lock of the order alone,    *)
(* without a unique index, keeps settlement projections to one per order,  *)
(* for any number of orders, documents and transactions; and the lifecycle *)
(* store moves rows step by step, for any number of clients.               *)
(***************************************************************************)
EXTENDS PodSettlement, TLAPS

----------------------------------------------------------------------------
(* The settlement gate.                                                    *)

WorkRow == [kind : {"decide", "evaluate", "gate"}, order : Order, document : Document \cup {None}]

Types ==
    /\ pod \in [Document -> PodRow \cup {None}]
    /\ settlements \in [Order -> Nat]
    /\ gate \in [Document -> {"none", "queued", "succeeded", "raised"}]
    /\ lock \in [Order -> Session \cup {None}]
    /\ pc \in [Session -> {"idle", "lock", "read", "insert"}]
    /\ work \in [Session -> WorkRow \cup {None}]

\* A transaction past LockOrder holds the lock of its order; about to insert,
\* it has decided a document of an order that has no projection.
Transaction(s) ==
    pc[s] # "idle" =>
        /\ work[s] \in WorkRow
        /\ pc[s] \in {"read", "insert"} => lock[work[s].order] = s
        /\ work[s].kind \in {"decide", "gate"} =>
              work[s].document \in Document /\ pod[work[s].document] # None
        /\ work[s].kind = "decide" =>
              /\ pod[work[s].document].order = work[s].order
              /\ pod[work[s].document].status \in {"pending", "manual_review"}
        /\ pc[s] = "insert" => settlements[work[s].order] = 0 /\ work[s].kind = "decide"

\* Nobody else decides the document that a transaction is deciding.
OneDecision ==
    \A s, t \in Session, d \in Document : Deciding(s, d) /\ Deciding(t, d) => s = t

GateHasDocument == \A d \in Document : gate[d] # "none" => pod[d] # None

Accepted(o) ==
    \E d \in Document : pod[d] # None /\ pod[d].order = o /\ pod[d].status = "accepted"

SettlementInv ==
    /\ Types
    /\ \A s \in Session : Transaction(s)
    /\ OneDecision
    /\ GateHasDocument
    /\ SettlementIffAccepted

\* A session that starts a transaction or ends one without a commit.
LEMMA SessionStep ==
    ASSUME SettlementInv, Types', UNCHANGED <<pod, settlements, gate>>, NEW s \in Session,
           Transaction(s)',
           pc'[s] # "idle" => \A t \in Session, d \in Document :
                                 Deciding(s, d)' /\ Deciding(t, d) => s = t,
           \A t \in Session \ {s} : UNCHANGED <<pc[t], work[t]>>,
           \A o \in Order, t \in Session \ {s} : lock[o] = t => lock'[o] = t
    PROVE  SettlementInv'
<1>1. ASSUME NEW t \in Session PROVE Transaction(t)'
    BY DEF SettlementInv, Transaction, WorkRow
<1>2. OneDecision'
    BY DEF SettlementInv, OneDecision, Deciding
<1>3. GateHasDocument' /\ SettlementIffAccepted'
    BY DEF SettlementInv, GateHasDocument, SettlementIffAccepted
<1>. QED BY <1>1, <1>2, <1>3 DEF SettlementInv

\* A transaction that commits: its document is accepted if it has decided one,
\* and its order has a projection or no accepted document.
LEMMA CommitStep ==
    ASSUME SettlementInv, NEW s \in Session, pc[s] \in {"read", "insert"},
           CommitWork(s), End(s),
           settlements' = [settlements EXCEPT ![work[s].order] = settlements'[work[s].order]],
           settlements'[work[s].order] \in {0, 1},
           settlements'[work[s].order] = 1 <=> (work[s].kind = "decide" \/ Accepted(work[s].order))
    PROVE  SettlementInv'
<1> DEFINE w == work[s]
           o == w.order
<1>1. w \in WorkRow /\ o \in Order /\ lock[o] = s
    BY DEF SettlementInv, Transaction, WorkRow
<1>2. Types'
    <2>1. pod' \in [Document -> PodRow \cup {None}]
        BY <1>1 DEF CommitWork, SettlementInv, Types, Transaction, PodRow
    <2>2. gate' \in [Document -> {"none", "queued", "succeeded", "raised"}]
        BY <1>1 DEF CommitWork, SettlementInv, Types, Transaction
    <2>3. settlements' \in [Order -> Nat]
        BY <1>1 DEF SettlementInv, Types
    <2>4. /\ lock' \in [Order -> Session \cup {None}]
          /\ pc' \in [Session -> {"idle", "lock", "read", "insert"}]
          /\ work' \in [Session -> WorkRow \cup {None}]
        BY DEF End, SettlementInv, Types
    <2>. QED BY <2>1, <2>2, <2>3, <2>4 DEF Types
<1>3. \A d \in Document : \/ pod'[d] = pod[d]
                          \/ /\ w.kind = "decide" /\ d = w.document
                             /\ pod[d] # None /\ pod'[d] # None
                             /\ pod'[d].order = pod[d].order /\ pod[d].order = o
                             /\ pod'[d].status = "accepted"
    BY <1>1, <1>2, NoneAssumption DEF CommitWork, SettlementInv, Types, Transaction, PodRow
<1>4. w.kind = "decide" => /\ w.document \in Document
                           /\ pod'[w.document] # None /\ pod'[w.document].order = o
                           /\ pod'[w.document].status = "accepted"
    BY <1>1, <1>2, NoneAssumption DEF CommitWork, SettlementInv, Types, Transaction, PodRow
<1>5. ASSUME NEW t \in Session PROVE Transaction(t)'
    <2>1. CASE t = s
        BY <2>1 DEF End, SettlementInv, Types, Transaction
    <2>2. CASE t # s /\ pc[t] # "idle"
        <3>1. UNCHANGED <<pc[t], work[t]>> /\ work[t] \in WorkRow /\ work[t].order \in Order
            BY <2>2 DEF End, SettlementInv, Types, Transaction, WorkRow
        <3>2. pc[t] \in {"read", "insert"} => lock'[work[t].order] = t /\ work[t].order # o
            BY <1>1, <2>2, <3>1, NoneAssumption DEF End, SettlementInv, Types, Transaction
        <3>3. work[t].kind = "decide" /\ w.kind = "decide" => work[t].document # w.document
            BY <2>2 DEF SettlementInv, OneDecision, Deciding, Transaction
        <3>4. pc[t] = "insert" => settlements'[work[t].order] = settlements[work[t].order]
            BY <1>1, <3>1, <3>2 DEF SettlementInv, Types
        <3>. QED BY <1>3, <2>2, <3>1, <3>2, <3>3, <3>4 DEF SettlementInv, Transaction
    <2>3. CASE t # s /\ pc[t] = "idle"
        BY <2>3 DEF End, SettlementInv, Types, Transaction
    <2>. QED BY <2>1, <2>2, <2>3
<1>6. OneDecision'
    BY DEF End, SettlementInv, Types, OneDecision, Deciding
<1>7. GateHasDocument'
    <2>1. \A d \in Document : gate'[d] # gate[d] => pod'[d] # None
        BY <1>1, <1>3, <1>4 DEF CommitWork, SettlementInv, Types, Transaction
    <2>. QED BY <1>3, <2>1 DEF SettlementInv, GateHasDocument
<1>8. ASSUME NEW p \in Order PROVE settlements'[p] = IF Accepted(p)' THEN 1 ELSE 0
    <2>1. CASE p = o
        <3>1. Accepted(p)' <=> w.kind = "decide" \/ Accepted(p)
            BY <1>3, <1>4, <2>1 DEF Accepted
        <3>. QED BY <2>1, <3>1
    <2>2. CASE p # o
        <3>1. Accepted(p)' <=> Accepted(p)
            BY <1>3, <2>2 DEF Accepted
        <3>2. settlements'[p] = settlements[p]
            BY <1>1, <2>2 DEF SettlementInv, Types
        <3>. QED BY <3>1, <3>2 DEF SettlementInv, SettlementIffAccepted, Accepted
    <2>. QED BY <2>1, <2>2
<1>9. SettlementIffAccepted'
    BY <1>8 DEF SettlementIffAccepted, Accepted
<1>. QED BY <1>2, <1>5, <1>6, <1>7, <1>9 DEF SettlementInv

LEMMA SettlementStep == ASSUME SettlementInv, [Next]_vars PROVE SettlementInv'
<1>1. CASE UNCHANGED <<pod, settlements, gate, lock, pc, work>>
    BY <1>1
    DEF SettlementInv, Types, Transaction, OneDecision, Deciding, GateHasDocument,
        SettlementIffAccepted
<1>2. ASSUME NEW o \in Order, NEW d \in Document, submit_pod(o, d) PROVE SettlementInv'
    <2>1. /\ pod[d] = None /\ pod' = [pod EXCEPT ![d] = [order |-> o, status |-> "pending"]]
          /\ UNCHANGED <<settlements, gate, lock, pc, work>>
        BY <1>2 DEF submit_pod
    <2>2. pod'[d] \in PodRow /\ pod'[d].status = "pending" /\ pod'[d] # None
        BY <2>1, NoneAssumption DEF SettlementInv, Types, PodRow
    <2>3. \A c \in Document : c # d => pod'[c] = pod[c]
        BY <2>1 DEF SettlementInv, Types
    <2>4. Types'
        BY <2>1, <2>2 DEF SettlementInv, Types
    <2>5. \A s \in Session : Transaction(s)'
        BY <2>1, <2>3 DEF SettlementInv, Transaction
    <2>6. OneDecision'
        BY <2>1 DEF SettlementInv, OneDecision, Deciding
    <2>7. GateHasDocument'
        BY <2>1, <2>2, <2>3 DEF SettlementInv, GateHasDocument
    <2>8. SettlementIffAccepted'
        <3>1. \A p \in Order : Accepted(p)' <=> Accepted(p)
            BY <2>1, <2>2, <2>3 DEF Accepted
        <3>. QED BY <2>1, <3>1 DEF SettlementInv, SettlementIffAccepted, Accepted
    <2>. QED BY <2>4, <2>5, <2>6, <2>7, <2>8 DEF SettlementInv
<1>3. ASSUME NEW s \in Session, NEW d \in Document, NEW x \in {"rejected", "manual_review"},
             decide_pod(s, d, x)
      PROVE  SettlementInv'
    <2>1. /\ pod[d] # None /\ pod[d].status \in {"pending", "manual_review"}
          /\ \A t \in Session : ~Deciding(t, d)
          /\ pod' = [pod EXCEPT ![d].status = x]
          /\ UNCHANGED <<settlements, gate, lock, pc, work>>
        BY <1>3 DEF decide_pod, Undecided
    <2>2. pod[d] \in PodRow
        BY <2>1 DEF SettlementInv, Types
    <2>3. /\ pod'[d] \in PodRow /\ pod'[d] # None
          /\ pod'[d].status = x /\ pod'[d].order = pod[d].order
        BY <2>1, <2>2, NoneAssumption DEF SettlementInv, Types, PodRow
    <2>4. \A c \in Document : c # d => pod'[c] = pod[c]
        BY <2>1 DEF SettlementInv, Types
    <2>5. Types'
        BY <2>1, <2>3 DEF SettlementInv, Types
    <2>6. \A t \in Session : Transaction(t)'
        BY <2>1, <2>3, <2>4 DEF SettlementInv, Transaction, Deciding
    <2>7. OneDecision'
        BY <2>1 DEF SettlementInv, OneDecision, Deciding
    <2>8. GateHasDocument'
        BY <2>1, <2>3, <2>4 DEF SettlementInv, GateHasDocument
    <2>9. SettlementIffAccepted'
        <3>1. \A p \in Order : Accepted(p)' <=> Accepted(p)
            BY <2>1, <2>3, <2>4 DEF Accepted
        <3>. QED BY <2>1, <3>1 DEF SettlementInv, SettlementIffAccepted, Accepted
    <2>. QED BY <2>5, <2>6, <2>7, <2>8, <2>9 DEF SettlementInv
<1>4. ASSUME NEW s \in Session, NEW d \in Document, decide_pod(s, d, "accepted")
      PROVE  SettlementInv'
    <2>1. /\ pc[s] = "idle" /\ pod[d] # None /\ pod[d].status \in {"pending", "manual_review"}
          /\ \A t \in Session : ~Deciding(t, d)
          /\ UNCHANGED <<pod, settlements, gate, lock>>
          /\ pc' = [pc EXCEPT ![s] = "lock"]
          /\ work' = [work EXCEPT ![s] = [kind |-> "decide", order |-> pod[d].order, document |-> d]]
        BY <1>4 DEF decide_pod, Undecided, Begin
    <2>2. [kind |-> "decide", order |-> pod[d].order, document |-> d] \in WorkRow
        BY <2>1 DEF SettlementInv, Types, PodRow, WorkRow
    <2>3. Types' /\ Transaction(s)'
        BY <2>1, <2>2 DEF SettlementInv, Types, Transaction
    <2>4. \A t \in Session, c \in Document : Deciding(s, c)' /\ Deciding(t, c) => s = t
        BY <2>1 DEF SettlementInv, Types, Deciding
    <2>5. \A t \in Session \ {s} : UNCHANGED <<pc[t], work[t]>>
        BY <2>1 DEF SettlementInv, Types
    <2>. QED BY <2>1, <2>3, <2>4, <2>5, SessionStep
<1>5. ASSUME NEW s \in Session, NEW kind \in {"evaluate", "gate"}, NEW o \in Order,
             NEW d \in Document \cup {None}, Begin(s, kind, o, d),
             kind = "gate" => d \in Document /\ pod[d] # None,
             UNCHANGED <<pod, settlements, gate, lock>>
      PROVE  SettlementInv'
    <2>1. /\ pc[s] = "idle" /\ pc' = [pc EXCEPT ![s] = "lock"]
          /\ work' = [work EXCEPT ![s] = [kind |-> kind, order |-> o, document |-> d]]
        BY <1>5 DEF Begin
    <2>2. [kind |-> kind, order |-> o, document |-> d] \in WorkRow
        BY DEF WorkRow
    <2>3. Types' /\ Transaction(s)'
        BY <1>5, <2>1, <2>2 DEF SettlementInv, Types, Transaction
    <2>4. \A c \in Document : ~Deciding(s, c)'
        BY <2>1 DEF SettlementInv, Types, Deciding
    <2>5. \A t \in Session \ {s} : UNCHANGED <<pc[t], work[t]>>
        BY <2>1 DEF SettlementInv, Types
    <2>. QED BY <1>5, <2>3, <2>4, <2>5, SessionStep
<1>6. ASSUME NEW s \in Session, NEW d \in Document, pod_gate_handler(s, d) PROVE SettlementInv'
    <2>1. pod[d] # None /\ pod[d].order \in Order
        BY <1>6 DEF pod_gate_handler, SettlementInv, GateHasDocument, Types, PodRow
    <2>. QED BY <1>5, <1>6, <2>1 DEF pod_gate_handler, tableVars
<1>7. ASSUME NEW s \in Session, NEW o \in Order, evaluate_settlement(s, o) PROVE SettlementInv'
    BY <1>5, <1>7 DEF evaluate_settlement, tableVars
<1>8. ASSUME NEW s \in Session, LockOrder(s) PROVE SettlementInv'
    <2>1. /\ pc[s] = "lock" /\ lock[work[s].order] = None
          /\ lock' = [lock EXCEPT ![work[s].order] = s]
          /\ pc' = [pc EXCEPT ![s] = "read"]
          /\ UNCHANGED <<pod, settlements, gate, work>>
        BY <1>8 DEF LockOrder, Goto, tableVars
    <2>2. work[s].order \in Order
        BY <2>1 DEF SettlementInv, Transaction, WorkRow
    <2>3. Types' /\ Transaction(s)'
        BY <2>1, <2>2 DEF SettlementInv, Types, Transaction
    <2>4. \A t \in Session, c \in Document : Deciding(s, c)' /\ Deciding(t, c) => s = t
        BY <2>1 DEF SettlementInv, OneDecision, Deciding
    <2>5. /\ \A t \in Session \ {s} : UNCHANGED <<pc[t], work[t]>>
          /\ \A o \in Order, t \in Session \ {s} : lock[o] = t => lock'[o] = t
        BY <2>1, <2>2, NoneAssumption DEF SettlementInv, Types
    <2>. QED BY <2>1, <2>3, <2>4, <2>5, SessionStep
<1>9. ASSUME NEW s \in Session, ReadProjection(s) PROVE SettlementInv'
    <2> DEFINE o == work[s].order
    <2>1. pc[s] = "read" /\ work[s] \in WorkRow /\ o \in Order
        BY <1>9 DEF ReadProjection, SettlementInv, Transaction, WorkRow
    <2>2. settlements[o] = IF Accepted(o) THEN 1 ELSE 0
        BY <2>1 DEF SettlementInv, SettlementIffAccepted, Accepted
    <2>3. work[s].kind = "decide" => SeesAccepted(s) # {}
        BY <2>1 DEF SettlementInv, Transaction, SeesAccepted, Deciding
    <2>4. SeesAccepted(s) # {} => work[s].kind = "decide" \/ Accepted(o)
        BY DEF SeesAccepted, Deciding, Accepted
    <2>5. CASE settlements[o] > 0 \/ SeesAccepted(s) = {}
        <3>1. /\ UNCHANGED settlements /\ CommitWork(s) /\ End(s)
            BY <1>9, <2>5 DEF ReadProjection
        <3>2. settlements'[o] = 1 <=> (work[s].kind = "decide" \/ Accepted(o))
            BY <2>2, <2>3, <2>5, <3>1
        <3>3. settlements' = [settlements EXCEPT ![o] = settlements'[o]]
            BY <2>1, <3>1 DEF SettlementInv, Types
        <3>. QED BY <2>1, <2>2, <3>1, <3>2, <3>3, CommitStep
    <2>6. CASE settlements[o] = 0 /\ SeesAccepted(s) # {}
        <3>1. /\ UNCHANGED <<pod, settlements, gate, lock, work>>
              /\ pc' = [pc EXCEPT ![s] = "insert"]
            BY <1>9, <2>2, <2>6 DEF ReadProjection, Goto, tableVars
        <3>2. Types' /\ Transaction(s)'
            BY <2>1, <2>2, <2>4, <2>6, <3>1 DEF SettlementInv, Types, Transaction
        <3>3. \A t \in Session, c \in Document : Deciding(s, c)' /\ Deciding(t, c) => s = t
            BY <2>1, <3>1 DEF SettlementInv, OneDecision, Deciding
        <3>4. \A t \in Session \ {s} : UNCHANGED <<pc[t], work[t]>>
            BY <3>1 DEF SettlementInv, Types
        <3>. QED BY <3>1, <3>2, <3>3, <3>4, SessionStep
    <2>. QED BY <2>2, <2>5, <2>6
<1>10. ASSUME NEW s \in Session, InsertProjection(s) PROVE SettlementInv'
    <2> DEFINE o == work[s].order
    <2>1. /\ pc[s] = "insert" /\ work[s] \in WorkRow /\ o \in Order
          /\ settlements[o] = 0 /\ work[s].kind = "decide"
        BY <1>10 DEF InsertProjection, SettlementInv, Transaction, WorkRow
    <2>2. settlements' = [settlements EXCEPT ![o] = 1] /\ CommitWork(s) /\ End(s)
        BY <1>10, <2>1 DEF InsertProjection, SettlementInv, Types
    <2>3. settlements'[o] = 1
        BY <2>1, <2>2 DEF SettlementInv, Types
    <2>. QED BY <2>1, <2>2, <2>3, CommitStep
<1>11. ASSUME NEW s \in Session, ConnectionLost(s) PROVE SettlementInv'
    <2>1. End(s) /\ UNCHANGED <<pod, settlements, gate>>
        BY <1>11 DEF ConnectionLost, tableVars
    <2>2. Types' /\ Transaction(s)' /\ pc'[s] = "idle"
        BY <2>1 DEF End, SettlementInv, Types, Transaction
    <2>3. /\ \A t \in Session \ {s} : UNCHANGED <<pc[t], work[t]>>
          /\ \A o \in Order, t \in Session \ {s} : lock[o] = t => lock'[o] = t
        BY <2>1 DEF End, SettlementInv, Types
    <2>. QED BY <2>1, <2>2, <2>3, SessionStep
<1>12. ASSUME NEW o \in Order, CreateTrip(o) PROVE SettlementInv'
    BY <1>1, <1>12 DEF CreateTrip
<1>13. CASE UNCHANGED vars
    BY <1>1, <1>13 DEF vars, tableVars
<1>. QED
    BY <1>2, <1>3, <1>4, <1>6, <1>7, <1>8, <1>9, <1>10, <1>11, <1>12, <1>13 DEF Next, Step

\* An order has one settlement projection exactly when a document of it is
\* accepted, for any number of decisions, evaluations and gate tasks at once.
THEOREM SettlementIsExact == Spec => []SettlementIffAccepted
<1>1. Init => SettlementInv
    BY NoneAssumption
    DEF Init, SettlementInv, Types, Transaction, OneDecision, Deciding, GateHasDocument,
        SettlementIffAccepted
<1>2. SettlementInv => SettlementIffAccepted
    BY DEF SettlementInv
<1>. QED BY <1>1, <1>2, SettlementStep, PTL DEF Spec

----------------------------------------------------------------------------
(* The lifecycle store.                                                    *)

CONSTANT Client
VARIABLES pod_status, seen, answer

Store == INSTANCE PodLifecycle

\* Every row moves to its next status or stays.
Steps == \A o \in Order : pod_status'[o] # pod_status[o] => pod_status'[o] = pod_status[o] + 1

\* The PATCH of an allowed transition is one step of one row, or nothing.
LEMMA PatchIsAStep ==
    ASSUME Store!TypeOK, NEW p \in Order, NEW current, NEW target,
           Store!can_transition(current, target),
           pod_status' = Store!Patched(p, current, target)
    PROVE  pod_status' \in [Order -> Store!Position] /\ Steps
BY DEF Store!TypeOK, Store!Patched, Steps, Store!can_transition, Store!Position

\* Each call of a client keeps the types and moves rows by steps only.
LEMMA NextIsAStep ==
    ASSUME Store!TypeOK, [Store!Next]_(Store!vars)
    PROVE  Store!TypeOK' /\ Steps
<1>1. CASE UNCHANGED Store!vars
    BY <1>1 DEF Store!TypeOK, Store!vars, Steps
<1>2. ASSUME NEW c \in Client, NEW o \in Order, Store!get_order_status(c, o)
      PROVE  Store!TypeOK' /\ Steps
    BY <1>2 DEF Store!TypeOK, Store!get_order_status, Steps
<1>3. ASSUME NEW c \in Client, NEW target \in Store!Position, Store!advance_status(c, target)
      PROVE  Store!TypeOK' /\ Steps
    <2>1. seen' \in [Client -> [order : Order, status : Store!Position] \cup {None}]
        BY <1>3 DEF Store!TypeOK, Store!advance_status
    <2>2. seen[c].order \in Order
        BY <1>3 DEF Store!TypeOK, Store!advance_status
    <2>3. \/ pod_status' = pod_status
          \/ /\ Store!can_transition(seen[c].status, target)
             /\ pod_status' = Store!Patched(seen[c].order, seen[c].status, target)
        BY <1>3 DEF Store!advance_status
    <2>4. pod_status' \in [Order -> Store!Position] /\ Steps
        BY <2>2, <2>3, PatchIsAStep DEF Store!TypeOK, Steps
    <2>. QED BY <2>1, <2>4 DEF Store!TypeOK
<1>. QED BY <1>1, <1>2, <1>3 DEF Store!Next

\* The lifecycle advances step by step for every set of orders and clients.
THEOREM LifecycleInOrder == Store!Spec => Store!OneStepAtATime
<1>1. Store!Init => Store!TypeOK
    BY DEF Store!Init, Store!TypeOK
<1>2. Store!TypeOK /\ [Store!Next]_(Store!vars) => Store!TypeOK' /\ [Steps]_(Store!vars)
    BY NextIsAStep
<1>. QED BY <1>1, <1>2, PTL DEF Store!Spec, Store!OneStepAtATime, Steps

=============================================================================
