--------------------------- MODULE OrderApiProofs ---------------------------
(***************************************************************************)
(* Proofs about OrderApi: whatever requests race, are resent or cut off,   *)
(* the records of an order are one path of its transition rules, a key     *)
(* executes once, a reported success happened, and no update is lost; for  *)
(* any number of orders, keys, accounts and requests.                      *)
(***************************************************************************)
EXTENDS OrderApi, FiniteSetTheorems, TLAPS

Step == [from : OrderStatus, to : OrderStatus, key : Key]
OutboxKey == Key \cup ({"order.accepted"} \X Order)

Tables ==
    /\ status \in [Order -> OrderStatus \cup {"absent"}]
    /\ version \in [Order -> Nat]
    /\ transitions \in [Order -> Seq(Step)]
    /\ idempotency \subseteq [order : Order, key : Key, hash : TransitionRequest]
    /\ events \subseteq Order \X Nat
    /\ outbox \subseteq [order : Order, version : Nat, key : OutboxKey]

Before(o, i) == IF i = 0 THEN "pending" ELSE transitions[o][i].to

\* The history leads from pending to the status, along the rules.
Path(o) ==
    /\ status[o] = "absent" => transitions[o] = << >> /\ version[o] = 0
    /\ status[o] # "absent" =>
          /\ status[o] = Before(o, Len(transitions[o]))
          /\ version[o] = Len(transitions[o]) + 1
          /\ \A i \in 1..Len(transitions[o]) :
                /\ transitions[o][i].from = Before(o, i - 1)
                /\ <<transitions[o][i].from, transitions[o][i].to>> \in order_transition_rules

\* Its events are numbered without a gap.
Numbered(o) == \A n \in Nat : <<o, n>> \in events <=> n \in 1..version[o]

\* Its outbox rows are those of its intake and of its transitions.
Announced(o) ==
    /\ \A row \in outbox : row.order = o =>
          \/ row.version = 1 /\ row.key = <<"order.accepted", o>> /\ status[o] # "absent"
          \/ /\ row.version - 1 \in DOMAIN transitions[o]
             /\ row.key = transitions[o][row.version - 1].key
    /\ \A i \in DOMAIN transitions[o] :
          [order |-> o, version |-> i + 1, key |-> transitions[o][i].key] \in outbox

\* A record stands for the request that was executed under its key.
Recorded(p) == p.hash.order = p.order /\ p.hash.key = p.key /\ Executed(p.hash)

TablesInv ==
    /\ Tables
    /\ \A o \in Order : Path(o) /\ Numbered(o) /\ Announced(o)
    /\ KeyExecutesOnce
    /\ \A p \in idempotency : Recorded(p)

----------------------------------------------------------------------------
(* The two writers.                                                        *)

\* Nothing in the outbox belongs to an order that is not there yet.
LEMMA AbsentOrder ==
    ASSUME TablesInv, NEW o \in Order, status[o] = "absent"
    PROVE  \A row \in outbox : row.order # o /\ row.key # <<"order.accepted", o>>
<1>1. ASSUME NEW row \in outbox PROVE row.order # o
    BY <1>1 DEF TablesInv, Path, Announced
<1>2. ASSUME NEW row \in outbox, row.key = <<"order.accepted", o>> PROVE FALSE
    <2>1. row.order \in Order /\ row.order # o
        BY <1>1, <1>2 DEF TablesInv, Tables
    <2>2. CASE row.key = <<"order.accepted", row.order>>
        <3>1. <<"order.accepted", row.order>>[2] = row.order /\ <<"order.accepted", o>>[2] = o
            OBVIOUS
        <3>. QED BY <1>2, <2>1, <2>2, <3>1
    <2>3. CASE /\ row.version - 1 \in DOMAIN transitions[row.order]
               /\ row.key = transitions[row.order][row.version - 1].key
        <3>1. transitions[row.order] \in Seq(Step)
            BY <2>1 DEF TablesInv, Tables
        <3>2. transitions[row.order][row.version - 1] \in Step
            BY <2>3, <3>1
        <3>. QED BY <1>2, <2>3, <3>2, KeyAssumption DEF Step
    <2>. QED BY <2>1, <2>2, <2>3 DEF TablesInv, Announced
<1>. QED BY <1>1, <1>2

\* The intake of an order.
LEMMA InsertKeeps ==
    ASSUME TablesInv, NEW o \in Order, InsertOrder(o)
    PROVE  TablesInv'
<1> DEFINE row == [order |-> o, version |-> 1, key |-> <<"order.accepted", o>>]
<1>1. /\ status[o] = "absent" /\ status' = [status EXCEPT ![o] = "pending"]
      /\ version' = [version EXCEPT ![o] = 1] /\ version[o] = 0
      /\ events' = events \cup {<<o, 1>>} /\ outbox' = outbox \cup {row}
      /\ UNCHANGED <<transitions, idempotency>> /\ transitions[o] = << >>
    BY DEF InsertOrder, TablesInv, Path
<1>2. Tables'
    <2>1. row \in [order : Order, version : Nat, key : OutboxKey]
        BY DEF OutboxKey
    <2>2. status' \in [Order -> OrderStatus \cup {"absent"}] /\ version' \in [Order -> Nat]
        BY <1>1 DEF TablesInv, Tables, OrderStatus
    <2>3. events' \subseteq Order \X Nat
        BY <1>1 DEF TablesInv, Tables
    <2>4. outbox' \subseteq [order : Order, version : Nat, key : OutboxKey]
        BY <1>1, <2>1 DEF TablesInv, Tables
    <2>. QED BY <1>1, <2>2, <2>3, <2>4 DEF TablesInv, Tables
<1>3. ASSUME NEW p \in Order PROVE Path(p)'
    <2>1. CASE p = o
        BY <1>1, <2>1 DEF TablesInv, Tables, Path, Before
    <2>2. CASE p # o
        BY <1>1, <2>2 DEF TablesInv, Tables, Path, Before
    <2>. QED BY <2>1, <2>2
<1>4. ASSUME NEW p \in Order PROVE Numbered(p)'
    <2>1. CASE p = o
        <3>1. version'[o] = 1 /\ \A n \in Nat : <<o, n>> \notin events
            BY <1>1 DEF TablesInv, Tables, Numbered
        <3>2. \A n \in Nat : <<o, n>> = <<o, 1>> <=> n = 1
            OBVIOUS
        <3>. QED BY <1>1, <2>1, <3>1, <3>2 DEF Numbered
    <2>2. CASE p # o
        <3>1. version'[p] = version[p] /\ \A n \in Nat : <<p, n>> # <<o, 1>>
            BY <1>1, <2>2 DEF TablesInv, Tables
        <3>. QED BY <1>1, <3>1 DEF TablesInv, Numbered
    <2>. QED BY <2>1, <2>2
<1>5. ASSUME NEW p \in Order PROVE Announced(p)'
    <2>1. CASE p = o
        BY <1>1, <2>1, AbsentOrder DEF TablesInv, Tables, Announced
    <2>2. CASE p # o
        BY <1>1, <2>2 DEF TablesInv, Tables, Announced
    <2>. QED BY <2>1, <2>2
<1>6. KeyExecutesOnce'
    <2>1. \A r \in outbox : r.key # row.key
        BY <1>1, AbsentOrder
    <2>2. \A r1, r2 \in outbox' : r1.key = r2.key => r1 = r2
        BY <1>1, <2>1 DEF TablesInv, KeyExecutesOnce
    <2>3. \A p, k : Prior(p, k)' = Prior(p, k)
        BY <1>1 DEF Prior
    <2>. QED BY <1>1, <2>2, <2>3 DEF TablesInv, KeyExecutesOnce
<1>7. ASSUME NEW p \in idempotency' PROVE Recorded(p)'
    BY <1>1 DEF TablesInv, Recorded, Executed
<1>. QED BY <1>2, <1>3, <1>4, <1>5, <1>6, <1>7 DEF TablesInv

\* What an append leaves of a history.
LEMMA AppendFacts ==
    ASSUME NEW S, NEW h \in Seq(S), NEW x \in S
    PROVE  /\ Append(h, x) \in Seq(S)
           /\ Len(Append(h, x)) = Len(h) + 1
           /\ DOMAIN Append(h, x) = 1..(Len(h) + 1) /\ DOMAIN h = 1..Len(h)
           /\ Len(h) \in Nat
           /\ \A i \in 1..Len(h) : Append(h, x)[i] = h[i]
           /\ Append(h, x)[Len(h) + 1] = x
OBVIOUS

\* A transition that the database lets through, for a request that expects the
\* state that the order has.
LEMMA WriteKeeps ==
    ASSUME TablesInv, NEW r \in TransitionRequest,
           transition_order(r.order, r.expected_status, r.next, r.key, r),
           version[r.order] = r.expected_version
    PROVE  /\ TablesInv' /\ Executed(r)'
           /\ \A q \in TransitionRequest : Executed(q) => Executed(q)'
<1> DEFINE o == r.order
           h == transitions[o]
           new == [from |-> status[o], to |-> r.next, key |-> r.key]
           row == [order |-> o, version |-> version[o] + 1, key |-> r.key]
           record == [order |-> o, key |-> r.key, hash |-> r]
<1>1. o \in Order /\ r.key \in Key /\ r.next \in OrderStatus /\ r.expected_status \in OrderStatus
    BY TargetAssumption DEF TransitionRequest
<1>2. /\ Prior(o, r.key) = {} /\ status[o] = r.expected_status
      /\ <<status[o], r.next>> \in order_transition_rules /\ OutboxKeyFree(r.key)
      /\ status' = [status EXCEPT ![o] = r.next]
      /\ version' = [version EXCEPT ![o] = @ + 1]
      /\ transitions' = [transitions EXCEPT ![o] = Append(@, new)]
      /\ idempotency' = idempotency \cup {record}
      /\ events' = events \cup {<<o, version[o] + 1>>}
      /\ outbox' = outbox \cup {row}
    BY DEF transition_order, MayTransition, WriteTransition
<1>3. /\ status[o] # "absent" /\ h \in Seq(Step) /\ version[o] = Len(h) + 1
      /\ version[o] \in Nat /\ new \in Step
    BY <1>1, <1>2 DEF TablesInv, Tables, Path, OrderStatus, Step
<1>4. /\ transitions'[o] \in Seq(Step) /\ Len(transitions'[o]) = version[o]
      /\ DOMAIN transitions'[o] = 1..version[o] /\ DOMAIN h = 1..(version[o] - 1)
      /\ \A i \in DOMAIN h : transitions'[o][i] = h[i]
      /\ transitions'[o][version[o]] = new
      /\ \A p \in Order \ {o} : transitions'[p] = transitions[p]
    <2>1. transitions'[o] = Append(h, new) /\ \A p \in Order \ {o} : transitions'[p] = transitions[p]
        BY <1>1, <1>2 DEF TablesInv, Tables
    <2>. QED BY <1>3, <2>1, AppendFacts
<1>5. /\ status'[o] = r.next /\ version'[o] = version[o] + 1
      /\ \A p \in Order \ {o} : status'[p] = status[p] /\ version'[p] = version[p]
    BY <1>1, <1>2 DEF TablesInv, Tables
<1>6. Tables'
    <2>1. row \in [order : Order, version : Nat, key : OutboxKey]
        BY <1>1, <1>3 DEF OutboxKey
    <2>2. record \in [order : Order, key : Key, hash : TransitionRequest]
        BY <1>1
    <2>3. transitions' \in [Order -> Seq(Step)]
        BY <1>1, <1>2, <1>4 DEF TablesInv, Tables
    <2>. QED BY <1>1, <1>2, <1>3, <2>1, <2>2, <2>3 DEF TablesInv, Tables
<1>7. ASSUME NEW p \in Order PROVE Path(p)'
    <2>1. CASE p # o
        BY <1>4, <1>5, <2>1 DEF TablesInv, Path, Before
    <2>2. CASE p = o
        <3>1. status'[o] # "absent"
            BY <1>1, <1>5 DEF OrderStatus
        <3>2. status'[o] = transitions'[o][version[o]].to
            BY <1>4, <1>5
        <3>3. status[o] = Before(o, version[o] - 1)
            BY <1>1, <1>3 DEF TablesInv, Path
        <3>4. ASSUME NEW i \in 1..version[o]
              PROVE  /\ transitions'[o][i].from = Before(o, i - 1)'
                     /\ <<transitions'[o][i].from, transitions'[o][i].to>> \in order_transition_rules
            <4>1. Before(o, i - 1)' = Before(o, i - 1)
                <5>1. CASE i = 1
                    BY <5>1 DEF Before
                <5>2. CASE i # 1
                    <6>1. i - 1 \in DOMAIN h /\ i - 1 # 0
                        BY <1>3, <1>4, <5>2
                    <6>. QED BY <1>4, <6>1 DEF Before
                <5>. QED BY <5>1, <5>2
            <4>2. CASE i = version[o]
                <5>1. transitions'[o][i].from = status[o] /\ transitions'[o][i].to = r.next
                    BY <1>4, <4>2
                <5>. QED BY <1>2, <3>3, <4>1, <4>2, <5>1
            <4>3. CASE i # version[o]
                <5>1. i \in 1..Len(h) /\ i \in DOMAIN h
                    BY <1>3, <1>4, <4>3
                <5>2. /\ h[i].from = Before(o, i - 1)
                      /\ <<h[i].from, h[i].to>> \in order_transition_rules
                    BY <1>1, <1>3, <5>1 DEF TablesInv, Path
                <5>3. transitions'[o][i] = h[i]
                    BY <1>4, <5>1
                <5>. QED BY <4>1, <5>2, <5>3
            <4>. QED BY <4>2, <4>3
        <3>. QED BY <1>3, <1>4, <1>5, <2>2, <3>1, <3>2, <3>4 DEF Path, Before
    <2>. QED BY <2>1, <2>2
<1>8. ASSUME NEW p \in Order PROVE Numbered(p)'
    <2>1. CASE p = o
        <3>1. \A n \in Nat : <<o, n>> = <<o, version[o] + 1>> <=> n = version[o] + 1
            OBVIOUS
        <3>. QED BY SMTT(30), <1>1, <1>2, <1>3, <1>5, <2>1, <3>1 DEF TablesInv, Numbered
    <2>2. CASE p # o
        <3>1. \A n \in Nat : <<p, n>> # <<o, version[o] + 1>>
            BY <2>2
        <3>. QED BY <1>2, <1>5, <2>2, <3>1 DEF TablesInv, Numbered
    <2>. QED BY <2>1, <2>2
<1>9. ASSUME NEW p \in Order PROVE Announced(p)'
    <2>1. CASE p = o
        <3>1. ASSUME NEW x \in outbox', x.order = o
              PROVE  \/ x.version = 1 /\ x.key = <<"order.accepted", o>> /\ status'[o] # "absent"
                     \/ /\ x.version - 1 \in DOMAIN transitions'[o]
                        /\ x.key = transitions'[o][x.version - 1].key
            <4>1. status'[o] # "absent"
                BY <1>1, <1>5 DEF OrderStatus
            <4>2. CASE x = row
                BY <1>3, <1>4, <4>2
            <4>3. CASE x \in outbox
                BY SMTT(30), <1>1, <1>3, <1>4, <3>1, <4>1, <4>3 DEF TablesInv, Announced
            <4>. QED BY <1>2, <4>2, <4>3
        <3>2. ASSUME NEW i \in DOMAIN transitions'[o]
              PROVE  [order |-> o, version |-> i + 1, key |-> transitions'[o][i].key] \in outbox'
            <4>1. CASE i = version[o]
                BY <1>2, <1>4, <4>1
            <4>2. CASE i # version[o]
                <5>1. i \in DOMAIN h
                    BY <1>3, <1>4, <4>2
                <5>. QED BY SMTT(30), <1>1, <1>2, <1>4, <5>1 DEF TablesInv, Announced
            <4>. QED BY <4>1, <4>2
        <3>. QED BY <2>1, <3>1, <3>2 DEF Announced
    <2>2. CASE p # o
        BY <1>2, <1>4, <1>5, <2>2 DEF TablesInv, Announced
    <2>. QED BY <2>1, <2>2
<1>10. KeyExecutesOnce'
    <2>1. \A i \in DOMAIN h : h[i].key # r.key
        BY <1>1, <1>2 DEF TablesInv, KeyExecutesOnce
    <2>2. ASSUME NEW p \in Order, NEW i \in DOMAIN transitions'[p], NEW j \in DOMAIN transitions'[p],
                 transitions'[p][i].key = transitions'[p][j].key
          PROVE  i = j
        <3>1. CASE p # o
            BY <1>4, <2>2, <3>1 DEF TablesInv, KeyExecutesOnce
        <3>2. CASE p = o
            <4>1. \A l \in DOMAIN transitions'[o] : l # version[o] => l \in DOMAIN h
                BY <1>3, <1>4
            <4>2. transitions'[o][version[o]].key = r.key
                BY <1>4
            <4>3. \A l \in DOMAIN h : transitions'[o][l].key = h[l].key
                BY <1>4
            <4>4. \A l, m \in DOMAIN h : h[l].key = h[m].key => l = m
                BY <1>1 DEF TablesInv, KeyExecutesOnce
            <4>. QED BY <2>1, <2>2, <3>2, <4>1, <4>2, <4>3, <4>4
        <3>. QED BY <3>1, <3>2
    <2>3. ASSUME NEW p \in Order, NEW k \in Key
          PROVE  Prior(p, k)' # {} <=> \E i \in DOMAIN transitions'[p] : transitions'[p][i].key = k
        <3>1. Prior(p, k)' # {} <=> Prior(p, k) # {} \/ (p = o /\ k = r.key)
            <4>1. record.order = o /\ record.key = r.key
                OBVIOUS
            <4>2. Prior(p, k) \subseteq Prior(p, k)' /\ (p = o /\ k = r.key => record \in Prior(p, k)')
                BY <1>2, <4>1 DEF Prior
            <4>3. \A x \in Prior(p, k)' : x \in Prior(p, k) \/ (p = o /\ k = r.key)
                BY <1>2, <4>1 DEF Prior
            <4>. QED BY <4>2, <4>3
        <3>2. CASE p # o
            BY <1>4, <3>1, <3>2 DEF TablesInv, KeyExecutesOnce
        <3>3. CASE p = o
            <4>1. \A l \in DOMAIN transitions'[o] : l # version[o] => l \in DOMAIN h
                BY <1>3, <1>4
            <4>2. version[o] \in DOMAIN transitions'[o] /\ \A l \in DOMAIN h : l \in DOMAIN transitions'[o]
                BY <1>3, <1>4
            <4>3. transitions'[o][version[o]].key = r.key
                BY <1>4
            <4>4. \A l \in DOMAIN h : transitions'[o][l].key = h[l].key
                BY <1>4
            <4>5. Prior(o, k) # {} <=> \E l \in DOMAIN h : h[l].key = k
                BY <1>1 DEF TablesInv, KeyExecutesOnce
            <4>6. (\E l \in DOMAIN transitions'[o] : transitions'[o][l].key = k)
                     <=> (\E l \in DOMAIN h : h[l].key = k) \/ k = r.key
                BY <4>1, <4>2, <4>3, <4>4
            <4>. QED BY <3>1, <3>3, <4>5, <4>6
        <3>. QED BY <3>2, <3>3
    <2>4. \A r1, r2 \in outbox' : r1.key = r2.key => r1 = r2
        BY <1>2 DEF OutboxKeyFree, TablesInv, KeyExecutesOnce
    <2>. QED BY <2>2, <2>3, <2>4 DEF KeyExecutesOnce
<1>11. Executed(r)'
    BY <1>2, <1>3, <1>4 DEF Executed
<1>12. ASSUME NEW q, q.order \in Order, Executed(q) PROVE Executed(q)'
    <2>1. CASE q.order = o
        <3>1. q.expected_version \in DOMAIN h /\ h[q.expected_version] =
                 [from |-> q.expected_status, to |-> q.next, key |-> q.key]
            BY <1>12, <2>1 DEF Executed
        <3>2. q.expected_version \in DOMAIN transitions'[o]
            BY <1>3, <1>4, <3>1
        <3>. QED BY <1>4, <2>1, <3>1, <3>2 DEF Executed
    <2>2. CASE q.order # o
        BY <1>4, <1>12, <2>2 DEF Executed
    <2>. QED BY <2>1, <2>2
<1>13. ASSUME NEW p \in idempotency' PROVE Recorded(p)'
    <2>1. CASE p = record
        BY <1>11, <2>1 DEF Recorded, Executed
    <2>2. CASE p \in idempotency
        <3>1. Recorded(p) /\ p.hash.order \in Order
            BY <2>2 DEF TablesInv, Tables, TransitionRequest
        <3>2. Executed(p.hash)'
            BY <3>1, <1>12 DEF Recorded
        <3>. QED BY <3>1, <3>2 DEF Recorded, Executed
    <2>. QED BY <1>2, <2>1, <2>2
<1>14. \A q \in TransitionRequest : Executed(q) => Executed(q)'
    BY <1>12 DEF TransitionRequest
<1>. QED BY <1>6, <1>7, <1>8, <1>9, <1>10, <1>11, <1>13, <1>14 DEF TablesInv

----------------------------------------------------------------------------
(* The invariant of the whole API.                                         *)

Outcome == {"none", "accepted", "replayed", "done", "conflict", "forbidden",
            "unavailable", "error"}
Answer == [outcome : Outcome, order : Order \cup {None},
           status : OrderStatus \cup {"none"}, version : Nat]
Request == TransitionRequest \cup CreateRequest \cup {NoRequest}

Sessions ==
    /\ pc \in [Session -> {"idle", "look_up", "lock", "apply"}]
    /\ req \in [Session -> Request]
    /\ \A s \in Session : pc[s] # "idle" => req[s] \in TransitionRequest
    /\ member \in [Session -> BOOLEAN]
    /\ answer \in [Session -> Answer]
    /\ lock \in [Order -> Session \cup {None}]

\* Who is about to write holds the row lock, and the row is as it compared it.
Holds(s) ==
    pc[s] = "apply" =>
        /\ lock[req[s].order] = s
        /\ status[req[s].order] = req[s].expected_status
        /\ version[req[s].order] = req[s].expected_version

Truthful(s) ==
    /\ req[s].kind = "transition" /\ answer[s].outcome \in {"done", "replayed"}
         => Executed(req[s])
    /\ req[s].kind = "create" /\ answer[s].outcome \in {"accepted", "replayed"}
         => [account |-> req[s].account, key |-> req[s].key, body |-> req[s].body,
             order |-> answer[s].order] \in intake

IntakeRow == [account : Account, key : Key, body : Body, order : Order]

IntakeInv ==
    /\ intake \subseteq IntakeRow
    /\ tasks = {[key |-> r.key, order |-> r.order] : r \in intake}
    /\ \A r1, r2 \in intake : r1.account = r2.account /\ r1.key = r2.key => r1 = r2
    /\ \A r1, r2 \in intake : r1.order = r2.order => r1 = r2
    /\ \A o \in Order : status[o] # "absent" <=> \E r \in intake : r.order = o

OrdersInv ==
    /\ TablesInv
    /\ IntakeInv
    /\ Sessions
    /\ \A s \in Session : Holds(s) /\ Truthful(s)

\* What a request may never undo: what was executed or taken in stays so.
Lasting ==
    /\ \A q \in TransitionRequest : Executed(q) => Executed(q)'
    /\ intake \subseteq intake'

\* A step that writes no table leaves what holds of the tables.
LEMMA QuietKeeps ==
    ASSUME TablesInv, IntakeInv, UNCHANGED <<orderVars, intakeVars>>
    PROVE  TablesInv' /\ IntakeInv' /\ Lasting
<1>1. /\ UNCHANGED <<status, version, transitions, idempotency, events, outbox>>
      /\ UNCHANGED <<intake, tasks>>
    BY DEF orderVars, intakeVars
<1>2. \A q : Executed(q)' = Executed(q)
    BY <1>1 DEF Executed
<1>3. \A o : /\ Path(o)' = Path(o) /\ Numbered(o)' = Numbered(o)
             /\ Announced(o)' = Announced(o)
    BY <1>1 DEF Path, Before, Numbered, Announced
<1>4. Tables' /\ KeyExecutesOnce'
    BY <1>1 DEF TablesInv, Tables, KeyExecutesOnce, Prior
<1>5. \A p \in idempotency' : Recorded(p)'
    BY <1>1, <1>2 DEF TablesInv, Recorded
<1>6. IntakeInv'
    BY <1>1 DEF IntakeInv
<1>. QED BY <1>1, <1>2, <1>3, <1>4, <1>5, <1>6 DEF TablesInv, Lasting

\* The intake of an order leaves one more intake record, of that order.
LEMMA IntakeGrows ==
    ASSUME TablesInv, IntakeInv, NEW a \in Account, NEW k \in Key, NEW b \in Body,
           NEW o \in Order, IntakeRecord(a, k) = {}, InsertOrder(o), SaveIntake(a, k, b, o)
    PROVE  /\ TablesInv' /\ IntakeInv' /\ Lasting
           /\ [account |-> a, key |-> k, body |-> b, order |-> o] \in intake'
<1> DEFINE row == [account |-> a, key |-> k, body |-> b, order |-> o]
<1>1. /\ intake' = intake \cup {row}
      /\ tasks' = tasks \cup {[key |-> k, order |-> o]}
      /\ row \in IntakeRow /\ row.order = o /\ row.account = a /\ row.key = k
    BY DEF SaveIntake, IntakeRow
<1>2. status[o] = "absent" /\ status' = [status EXCEPT ![o] = "pending"] /\ UNCHANGED transitions
    BY DEF InsertOrder
<1>3. \A r \in intake : r.order # o /\ ~(r.account = a /\ r.key = k)
    BY <1>2 DEF IntakeInv, IntakeRecord
<1>4. IntakeInv'
    <2>1. tasks' = {[key |-> r.key, order |-> r.order] : r \in intake'}
        BY <1>1 DEF IntakeInv
    <2>2. \A r1, r2 \in intake' : r1.account = r2.account /\ r1.key = r2.key => r1 = r2
        BY <1>1, <1>3 DEF IntakeInv
    <2>3. \A r1, r2 \in intake' : r1.order = r2.order => r1 = r2
        BY <1>1, <1>3 DEF IntakeInv
    <2>4. ASSUME NEW p \in Order
          PROVE  status'[p] # "absent" <=> \E r \in intake' : r.order = p
        <3>1. CASE p = o
            BY <1>1, <1>2, <3>1 DEF TablesInv, Tables
        <3>2. CASE p # o
            BY <1>1, <1>2, <3>2 DEF TablesInv, Tables, IntakeInv
        <3>. QED BY <3>1, <3>2
    <2>. QED BY <1>1, <2>1, <2>2, <2>3, <2>4 DEF IntakeInv
<1>5. Lasting
    BY <1>1, <1>2 DEF Lasting, Executed
<1>. QED BY <1>1, <1>4, <1>5, InsertKeeps

\* The end of a session: it waits for nothing, and only its own locks are gone.
LEMMA RespondFacts ==
    ASSUME Sessions, NEW s \in Session, NEW outcome \in Outcome, NEW o \in Order \cup {None},
           NEW st \in OrderStatus \cup {"none"}, NEW v \in Nat, Respond(s, outcome, o, st, v)
    PROVE  /\ Sessions' /\ pc'[s] = "idle" /\ UNCHANGED req /\ answer'[s].outcome = outcome
           /\ \A z \in Session \ {s} :
                 /\ pc'[z] = pc[z] /\ answer'[z] = answer[z]
                 /\ \A x \in Order : lock[x] = z => lock'[x] = z
<1>1. /\ pc' = [pc EXCEPT ![s] = "idle"]
      /\ answer' = [answer EXCEPT ![s] =
                       [outcome |-> outcome, order |-> o, status |-> st, version |-> v]]
      /\ lock' = [x \in Order |-> IF lock[x] = s THEN None ELSE lock[x]]
      /\ UNCHANGED <<req, member>>
    BY DEF Respond
<1>2. [outcome |-> outcome, order |-> o, status |-> st, version |-> v] \in Answer
    BY DEF Answer
<1>3. answer' \in [Session -> Answer] /\ answer'[s].outcome = outcome
      /\ \A z \in Session \ {s} : answer'[z] = answer[z]
    BY <1>1, <1>2 DEF Sessions
<1>4. lock' \in [Order -> Session \cup {None}]
      /\ \A z \in Session \ {s} : \A x \in Order : lock[x] = z => lock'[x] = z
    BY <1>1 DEF Sessions
<1>5. /\ pc' \in [Session -> {"idle", "look_up", "lock", "apply"}] /\ pc'[s] = "idle"
      /\ \A z \in Session \ {s} : pc'[z] = pc[z]
    BY <1>1 DEF Sessions
<1>. QED BY <1>1, <1>3, <1>4, <1>5 DEF Sessions

\* Sessions that the step of another one leaves alone.
LEMMA OthersKeep ==
    ASSUME OrdersInv, Sessions', Lasting, NEW z \in Session,
           pc'[z] = pc[z], req'[z] = req[z], answer'[z] = answer[z],
           pc[z] = "apply" =>
               /\ lock[req[z].order] = z => lock'[req[z].order] = z
               /\ status'[req[z].order] = status[req[z].order]
               /\ version'[req[z].order] = version[req[z].order]
    PROVE  Holds(z)' /\ Truthful(z)'
<1>1. req[z] \in Request
    BY DEF OrdersInv, Sessions
<1>2. req[z].kind = "transition" => req[z] \in TransitionRequest
    BY <1>1 DEF Request, CreateRequest, NoRequest
<1>3. Truthful(z)'
    BY <1>2 DEF OrdersInv, Truthful, Lasting, Executed
<1>4. Holds(z)'
    BY DEF OrdersInv, Holds
<1>. QED BY <1>3, <1>4

\* A session that ends with anything but a success has nothing to show.
LEMMA RefusalKeeps ==
    ASSUME OrdersInv, NEW s \in Session, NEW outcome \in Outcome \ {"accepted", "replayed", "done"},
           Respond(s, outcome, None, "none", 0), UNCHANGED <<orderVars, intakeVars>>
    PROVE  OrdersInv'
<1>1. TablesInv' /\ IntakeInv' /\ Lasting
    BY QuietKeeps DEF OrdersInv
<1>2. /\ Sessions' /\ pc'[s] = "idle" /\ UNCHANGED req /\ answer'[s].outcome = outcome
      /\ \A z \in Session \ {s} :
            /\ pc'[z] = pc[z] /\ answer'[z] = answer[z]
            /\ \A x \in Order : lock[x] = z => lock'[x] = z
    BY RespondFacts DEF OrdersInv
<1>3. UNCHANGED <<status, version, transitions, intake>>
    BY DEF orderVars, intakeVars
<1>4. ASSUME NEW z \in Session PROVE Holds(z)' /\ Truthful(z)'
    <2>1. CASE z = s
        BY <1>2, <2>1 DEF Holds, Truthful
    <2>2. CASE z # s
        <3>1. pc[z] = "apply" => req[z].order \in Order
            BY DEF OrdersInv, Sessions, TransitionRequest
        <3>2. pc[z] = "apply" =>
                 /\ lock[req[z].order] = z => lock'[req[z].order] = z
                 /\ status'[req[z].order] = status[req[z].order]
                 /\ version'[req[z].order] = version[req[z].order]
            BY <1>2, <1>3, <2>2, <3>1
        <3>. QED BY <1>1, <1>2, <2>2, <3>2, OthersKeep
    <2>. QED BY <2>1, <2>2
<1>. QED BY <1>1, <1>2, <1>4 DEF OrdersInv

\* POST /orders, with its three outcomes.
LEMMA CreateStep ==
    ASSUME OrdersInv, NEW s \in Session, NEW a \in Account, NEW k \in Key, NEW b \in Body,
           CreateOrder(s, a, k, b)
    PROVE  OrdersInv'
<1> DEFINE r == [kind |-> "create", account |-> a, key |-> k, body |-> b]
           Finish(outcome, o) ==
              /\ req' = [req EXCEPT ![s] = r]
              /\ answer' = [answer EXCEPT ![s] =
                              [outcome |-> outcome, order |-> o, status |-> "pending", version |-> 1]]
              /\ UNCHANGED <<pc, member, lock>>
<1>1. PICK outcome \in Outcome, o \in Order \cup {None} :
         /\ Finish(outcome, o) /\ TablesInv' /\ IntakeInv' /\ Lasting
         /\ outcome \in {"accepted", "replayed"} =>
               [account |-> a, key |-> k, body |-> b, order |-> o] \in intake'
         /\ \A x \in Order : status[x] # "absent" =>
               status'[x] = status[x] /\ version'[x] = version[x]
    <2>1. CASE \E p \in IntakeRecord(a, k) :
                  /\ IF p.body = b THEN Finish("replayed", p.order) ELSE Finish("conflict", None)
                  /\ UNCHANGED <<orderVars, intakeVars>>
        <3>1. PICK p \in IntakeRecord(a, k) :
                  /\ IF p.body = b THEN Finish("replayed", p.order) ELSE Finish("conflict", None)
                  /\ UNCHANGED <<orderVars, intakeVars>>
            BY <2>1
        <3>2. /\ TablesInv' /\ IntakeInv' /\ Lasting
              /\ UNCHANGED <<status, version, intake>>
            BY <3>1, QuietKeeps DEF OrdersInv, orderVars, intakeVars
        <3>3. p \in intake /\ p \in IntakeRow /\ p.account = a /\ p.key = k
            BY DEF OrdersInv, IntakeInv, IntakeRecord
        <3>4. p = [account |-> a, key |-> k, body |-> p.body, order |-> p.order] /\ p.order \in Order
            BY <3>3 DEF IntakeRow
        <3>5. CASE p.body = b
            <4>1. Finish("replayed", p.order) /\ "replayed" \in Outcome
                BY <3>1, <3>5 DEF Outcome
            <4>2. [account |-> a, key |-> k, body |-> b, order |-> p.order] \in intake'
                BY <3>2, <3>3, <3>4, <3>5
            <4>. QED BY <3>2, <3>4, <4>1, <4>2
        <3>6. CASE p.body # b
            <4>1. Finish("conflict", None) /\ "conflict" \in Outcome
                BY <3>1, <3>6 DEF Outcome
            <4>. QED BY <3>2, <4>1
        <3>. QED BY <3>5, <3>6
    <2>2. CASE /\ Finish("error", None)
               /\ UNCHANGED <<orderVars, intakeVars>>
        <3>1. TablesInv' /\ IntakeInv' /\ Lasting /\ UNCHANGED <<status, version>>
            BY <2>2, QuietKeeps DEF OrdersInv, orderVars, intakeVars
        <3>. QED BY <2>2, <3>1 DEF Outcome
    <2>3. CASE /\ IntakeRecord(a, k) = {}
               /\ \E o \in Order :
                     InsertOrder(o) /\ SaveIntake(a, k, b, o) /\ Finish("accepted", o)
        <3>1. PICK o \in Order : InsertOrder(o) /\ SaveIntake(a, k, b, o) /\ Finish("accepted", o)
            BY <2>3
        <3>2. /\ TablesInv' /\ IntakeInv' /\ Lasting
              /\ [account |-> a, key |-> k, body |-> b, order |-> o] \in intake'
            BY <2>3, <3>1, IntakeGrows DEF OrdersInv
        <3>3. \A x \in Order : status[x] # "absent" =>
                  status'[x] = status[x] /\ version'[x] = version[x]
            BY <3>1 DEF InsertOrder, OrdersInv, TablesInv, Tables
        <3>. QED BY <3>1, <3>2, <3>3 DEF Outcome
    <2>. QED BY <2>1, <2>2, <2>3 DEF CreateOrder
<1>2. pc[s] = "idle"
    BY DEF CreateOrder
<1>3. /\ req' \in [Session -> Request] /\ req'[s] = r
      /\ answer' \in [Session -> Answer] /\ answer'[s].outcome = outcome /\ answer'[s].order = o
      /\ \A z \in Session \ {s} : req'[z] = req[z] /\ answer'[z] = answer[z]
    <2>1. r \in Request
        BY DEF Request, CreateRequest
    <2>2. [outcome |-> outcome, order |-> o, status |-> "pending", version |-> 1] \in Answer
        BY DEF Answer, OrderStatus
    <2>. QED BY <1>1, <2>1, <2>2 DEF OrdersInv, Sessions
<1>4. Sessions'
    BY <1>1, <1>2, <1>3 DEF OrdersInv, Sessions
<1>5. ASSUME NEW z \in Session PROVE Holds(z)' /\ Truthful(z)'
    <2>1. CASE z = s
        BY <1>1, <1>2, <1>3, <2>1 DEF Holds, Truthful
    <2>2. CASE z # s
        <3>1. pc[z] = "apply" => /\ req[z].order \in Order
                                 /\ status[req[z].order] # "absent"
            BY TargetAssumption DEF OrdersInv, Sessions, Holds, TransitionRequest, OrderStatus
        <3>. QED BY <1>1, <1>3, <1>4, <2>2, <3>1, OthersKeep
    <2>. QED BY <2>1, <2>2
<1>. QED BY <1>1, <1>4, <1>5 DEF OrdersInv

\* A session that starts, with a request of its own or one sent again.
LEMMA StartKeeps ==
    ASSUME OrdersInv, NEW s \in Session, NEW r \in TransitionRequest, NEW m \in BOOLEAN,
           req' = [req EXCEPT ![s] = r], member' = [member EXCEPT ![s] = m],
           answer' = [answer EXCEPT ![s] = NoAnswer], pc' = [pc EXCEPT ![s] = "look_up"],
           UNCHANGED <<orderVars, intakeVars, lock>>
    PROVE  OrdersInv'
<1>1. TablesInv' /\ IntakeInv' /\ Lasting /\ UNCHANGED <<status, version>>
    BY QuietKeeps DEF OrdersInv, orderVars
<1>2. NoAnswer \in Answer /\ NoAnswer.outcome = "none"
    BY DEF NoAnswer, Answer, Outcome
<1>3. Sessions'
    BY <1>2 DEF OrdersInv, Sessions, Request
<1>4. /\ pc'[s] = "look_up" /\ answer'[s].outcome = "none"
      /\ \A z \in Session \ {s} : pc'[z] = pc[z] /\ req'[z] = req[z] /\ answer'[z] = answer[z]
    BY <1>2 DEF OrdersInv, Sessions
<1>5. ASSUME NEW z \in Session PROVE Holds(z)' /\ Truthful(z)'
    <2>1. CASE z = s
        BY <1>4, <2>1 DEF Holds, Truthful
    <2>2. CASE z # s
        BY <1>1, <1>3, <1>4, <2>2, OthersKeep
    <2>. QED BY <2>1, <2>2
<1>. QED BY <1>1, <1>3, <1>5 DEF OrdersInv

\* A session that steps on while the tables stay as they are.
LEMMA WaitKeeps ==
    ASSUME OrdersInv, NEW s \in Session, NEW st \in {"lock", "apply"},
           pc[s] # "idle", pc' = [pc EXCEPT ![s] = st],
           UNCHANGED <<orderVars, intakeVars, req, member, answer>>,
           lock' \in [Order -> Session \cup {None}],
           \A z \in Session, x \in Order : lock[x] = z => lock'[x] = z,
           Holds(s)'
    PROVE  OrdersInv'
<1>1. TablesInv' /\ IntakeInv' /\ Lasting /\ UNCHANGED <<status, version, intake, transitions>>
    BY QuietKeeps DEF OrdersInv, orderVars, intakeVars
<1>2. Sessions' /\ \A z \in Session \ {s} : pc'[z] = pc[z]
    BY DEF OrdersInv, Sessions
<1>3. ASSUME NEW z \in Session PROVE Holds(z)' /\ Truthful(z)'
    <2>1. CASE z = s
        BY <1>1, <2>1 DEF OrdersInv, Truthful, Executed
    <2>2. CASE z # s
        <3>1. pc[z] = "apply" => req[z].order \in Order
            BY DEF OrdersInv, Sessions, TransitionRequest
        <3>. QED BY <1>1, <1>2, <2>2, <3>1, OthersKeep
    <2>. QED BY <2>1, <2>2
<1>. QED BY <1>1, <1>2, <1>3 DEF OrdersInv

\* A session that reports success for the request that was executed.
LEMMA SuccessKeeps ==
    ASSUME OrdersInv, NEW s \in Session, NEW outcome \in {"done", "replayed"},
           NEW st \in OrderStatus, NEW v \in Nat, req[s] \in TransitionRequest,
           Respond(s, outcome, req[s].order, st, v),
           TablesInv', IntakeInv', Lasting, UNCHANGED intake,
           req[s].expected_version \in DOMAIN transitions'[req[s].order],
           transitions'[req[s].order][req[s].expected_version] =
              [from |-> req[s].expected_status, to |-> req[s].next, key |-> req[s].key],
           \A x \in Order : status'[x] # status[x] \/ version'[x] # version[x] => lock[x] = s
    PROVE  OrdersInv'
<1>1. req[s].order \in Order /\ req[s].kind = "transition" /\ outcome \in Outcome
    BY DEF TransitionRequest, Outcome
<1>2. /\ Sessions' /\ pc'[s] = "idle" /\ UNCHANGED req
      /\ \A z \in Session \ {s} :
            /\ pc'[z] = pc[z] /\ answer'[z] = answer[z]
            /\ \A x \in Order : lock[x] = z => lock'[x] = z
    <2>1. Sessions /\ st \in OrderStatus \cup {"none"} /\ req[s].order \in Order \cup {None}
        BY <1>1 DEF OrdersInv
    <2>. QED BY <1>1, <2>1, RespondFacts
<1>3. ASSUME NEW z \in Session PROVE Holds(z)' /\ Truthful(z)'
    <2>1. CASE z = s
        BY <1>1, <1>2, <2>1 DEF Holds, Truthful, Executed
    <2>2. CASE z # s
        <3>1. pc[z] = "apply" => req[z].order \in Order /\ lock[req[z].order] = z
            BY DEF OrdersInv, Sessions, TransitionRequest, Holds
        <3>. QED BY <1>2, <2>2, <3>1, OthersKeep
    <2>. QED BY <2>1, <2>2
<1>. QED BY <1>2, <1>3 DEF OrdersInv

\* A replay reports success only on a record, and a record is of an execution.
LEMMA LookUpStep ==
    ASSUME OrdersInv, NEW s \in Session, LookUp(s)
    PROVE  OrdersInv'
<1>1. /\ pc[s] = "look_up" /\ req[s] \in TransitionRequest /\ UNCHANGED <<orderVars, intakeVars>>
      /\ req[s].order \in Order
    BY DEF LookUp, OrdersInv, Sessions, TransitionRequest
<1>2. CASE \E p \in Prior(req[s].order, req[s].key) :
              p.hash = req[s] /\ Respond(s, "replayed", req[s].order, status[req[s].order], version[req[s].order])
    <2>1. PICK p \in idempotency : p.hash = req[s]
        BY <1>2 DEF Prior
    <2>2. Executed(req[s])
        BY <2>1 DEF OrdersInv, TablesInv, Recorded
    <2>3. status[req[s].order] \in OrderStatus /\ version[req[s].order] \in Nat
        BY <1>1, <2>2 DEF OrdersInv, TablesInv, Tables, Path, Executed
    <2>4. TablesInv' /\ IntakeInv' /\ Lasting /\ UNCHANGED <<status, version, transitions, intake>>
        BY <1>1, QuietKeeps DEF OrdersInv, orderVars, intakeVars
    <2>. QED BY <1>1, <1>2, <2>2, <2>3, <2>4, SuccessKeeps DEF Executed
<1>3. CASE Respond(s, "conflict", None, "none", 0)
    BY <1>1, <1>3, RefusalKeeps DEF Outcome
<1>4. CASE pc' = [pc EXCEPT ![s] = "lock"] /\ UNCHANGED <<req, member, answer, lock>>
    <2>1. Holds(s)' /\ lock' \in [Order -> Session \cup {None}]
        BY <1>4 DEF Holds, OrdersInv, Sessions
    <2>. QED BY <1>1, <1>4, <2>1, WaitKeeps
<1>. QED BY <1>2, <1>3, <1>4 DEF LookUp

\* The lock is granted on the state that the request expects.
LEMMA LockStep ==
    ASSUME OrdersInv, NEW s \in Session, LockOrder(s)
    PROVE  OrdersInv'
<1>1. /\ pc[s] = "lock" /\ req[s] \in TransitionRequest /\ UNCHANGED <<orderVars, intakeVars>>
      /\ req[s].order \in Order
    BY DEF LockOrder, OrdersInv, Sessions, TransitionRequest
<1>2. CASE \E outcome \in {"forbidden", "conflict"} : Respond(s, outcome, None, "none", 0)
    BY <1>1, <1>2, RefusalKeeps DEF Outcome
<1>3. CASE /\ lock[req[s].order] = None
           /\ status[req[s].order] = req[s].expected_status
           /\ version[req[s].order] = req[s].expected_version
           /\ lock' = [lock EXCEPT ![req[s].order] = s]
           /\ pc' = [pc EXCEPT ![s] = "apply"] /\ UNCHANGED <<req, member, answer>>
    <2>1. /\ lock' \in [Order -> Session \cup {None}]
          /\ \A z \in Session, x \in Order : lock[x] = z => lock'[x] = z
        BY <1>1, <1>3, NoneAssumption DEF OrdersInv, Sessions
    <2>2. Holds(s)'
        BY <1>1, <1>3 DEF Holds, OrdersInv, Sessions, orderVars
    <2>. QED BY <1>1, <1>3, <2>1, <2>2, WaitKeeps
<1>. QED BY <1>2, <1>3 DEF LockOrder

\* The holder of the lock writes, or is refused, and is done.
LEMMA ApplyStep ==
    ASSUME OrdersInv, NEW s \in Session, Apply(s)
    PROVE  OrdersInv'
<1> DEFINE r == req[s]
<1>1. /\ pc[s] = "apply" /\ r \in TransitionRequest /\ UNCHANGED intakeVars /\ r.order \in Order
      /\ r.next \in OrderStatus /\ r.expected_version \in Nat
      /\ lock[r.order] = s /\ version[r.order] = r.expected_version
    BY TargetAssumption DEF Apply, OrdersInv, Sessions, TransitionRequest, Holds
<1>2. CASE /\ transition_order(r.order, r.expected_status, r.next, r.key, r)
           /\ Respond(s, "done", r.order, r.next, r.expected_version + 1)
    <2>1. /\ TablesInv' /\ \A q \in TransitionRequest : Executed(q) => Executed(q)'
          /\ r.expected_version \in DOMAIN transitions'[r.order]
          /\ transitions'[r.order][r.expected_version] =
                [from |-> r.expected_status, to |-> r.next, key |-> r.key]
        <3>1. PICK q \in TransitionRequest : q = r
            BY <1>1
        <3>2. /\ transition_order(q.order, q.expected_status, q.next, q.key, q)
              /\ version[q.order] = q.expected_version
            BY <1>1, <1>2, <3>1
        <3>3. TablesInv' /\ Executed(q)' /\ \A x \in TransitionRequest : Executed(x) => Executed(x)'
            BY <3>2, WriteKeeps DEF OrdersInv
        <3>. QED BY <3>1, <3>3 DEF Executed
    <2>2. UNCHANGED intake /\ UNCHANGED tasks
        BY <1>1 DEF intakeVars
    <2>3. /\ status' = [status EXCEPT ![r.order] = r.next]
          /\ version' = [version EXCEPT ![r.order] = @ + 1]
          /\ status[r.order] = r.expected_status /\ r.expected_status \in OrderStatus
        BY <1>1, <1>2 DEF transition_order, MayTransition, WriteTransition, TransitionRequest
    <2>4. \A x \in Order : status'[x] # status[x] \/ version'[x] # version[x] => lock[x] = s
        BY <1>1, <2>3 DEF OrdersInv, TablesInv, Tables
    <2>5. \A x \in Order : status'[x] # "absent" <=> status[x] # "absent"
        BY <1>1, <2>3 DEF OrdersInv, TablesInv, Tables, OrderStatus
    <2>6. IntakeInv' /\ Lasting
        BY <2>1, <2>2, <2>5 DEF OrdersInv, IntakeInv, Lasting
    <2>7. r.expected_version + 1 \in Nat /\ "done" \in {"done", "replayed"}
        BY <1>1
    <2>. QED BY <1>1, <1>2, <2>1, <2>2, <2>4, <2>6, <2>7, SuccessKeeps
<1>3. CASE Respond(s, "conflict", None, "none", 0) /\ UNCHANGED orderVars
    BY <1>1, <1>3, RefusalKeeps DEF Outcome
<1>. QED BY <1>2, <1>3 DEF Apply

\* The empty tables satisfy the invariant.
LEMMA InitHolds == Init => OrdersInv
<1> SUFFICES ASSUME Init PROVE OrdersInv
    OBVIOUS
<1>1. /\ status = [o \in Order |-> "absent"] /\ version = [o \in Order |-> 0]
      /\ transitions = [o \in Order |-> << >>] /\ idempotency = {} /\ events = {} /\ outbox = {}
      /\ intake = {} /\ tasks = {}
    BY DEF Init, OrderInit
<1>2. Tables
    <2>1. << >> \in Seq(Step)
        OBVIOUS
    <2>. QED BY <1>1, <2>1 DEF Tables
<1>3. \A o \in Order : Path(o) /\ Numbered(o) /\ Announced(o)
    <2>1. \A n \in Nat : n \notin 1..0
        OBVIOUS
    <2>. QED BY <1>1, <2>1 DEF Path, Numbered, Announced
<1>4. KeyExecutesOnce /\ \A p \in idempotency : Recorded(p)
    BY <1>1 DEF KeyExecutesOnce, Prior
<1>5. IntakeInv
    BY <1>1 DEF IntakeInv
<1>6. NoAnswer \in Answer /\ NoAnswer.outcome = "none" /\ NoRequest \in Request
    BY DEF NoAnswer, Answer, Outcome, Request
<1>7. Sessions
    BY <1>6 DEF Init, Sessions
<1>8. \A s \in Session : Holds(s) /\ Truthful(s)
    BY <1>6 DEF Init, Holds, Truthful
<1>. QED BY <1>2, <1>3, <1>4, <1>5, <1>7, <1>8 DEF OrdersInv, TablesInv

\* Every step of the API keeps it.
LEMMA StepKeeps == OrdersInv /\ [Next]_vars => OrdersInv'
<1> SUFFICES ASSUME OrdersInv, [Next]_vars PROVE OrdersInv'
    OBVIOUS
<1>1. CASE UNCHANGED vars
    <2>1. /\ TablesInv' /\ IntakeInv' /\ Lasting
          /\ UNCHANGED <<status, version, transitions, intake, pc, req, member, answer, lock>>
        BY <1>1, QuietKeeps DEF OrdersInv, vars, sessionVars, orderVars, intakeVars
    <2>2. Sessions' /\ \A s \in Session : Holds(s)' /\ Truthful(s)'
        BY <2>1 DEF OrdersInv, Sessions, Holds, Truthful, Executed
    <2>. QED BY <2>1, <2>2 DEF OrdersInv
<1>2. ASSUME NEW s \in Session, NEW a \in Account, NEW k \in Key, NEW b \in Body,
             CreateOrder(s, a, k, b)
      PROVE  OrdersInv'
    BY <1>2, CreateStep
<1>3. ASSUME NEW s \in Session, NEW o \in Order, NEW t \in Target, NEW k \in Key,
             NEW m \in BOOLEAN, Submit(s, o, t, k, m)
      PROVE  OrdersInv'
    <2>1. status[o] \in OrderStatus /\ version[o] \in Nat
        BY <1>3 DEF Submit, OrdersInv, TablesInv, Tables
    <2>2. PICK r \in TransitionRequest :
              r = [kind |-> "transition", order |-> o, expected_status |-> status[o],
                   expected_version |-> version[o], next |-> t, key |-> k]
        BY <2>1 DEF TransitionRequest
    <2>. QED BY <1>3, <2>2, StartKeeps DEF Submit
<1>4. ASSUME NEW s \in Session, NEW other \in Session, Resend(s, other)
      PROVE  OrdersInv'
    <2>1. req[other] \in TransitionRequest /\ member[other] \in BOOLEAN
        BY <1>4 DEF Resend, OrdersInv, Sessions, Request, CreateRequest, NoRequest
    <2>2. PICK r \in TransitionRequest, m \in BOOLEAN : r = req[other] /\ m = member[other]
        BY <2>1
    <2>. QED BY <1>4, <2>2, StartKeeps DEF Resend
<1>5. ASSUME NEW s \in Session, ConnectionLost(s) PROVE OrdersInv'
    BY <1>5, RefusalKeeps DEF ConnectionLost, Outcome
<1>. QED BY <1>1, <1>2, <1>3, <1>4, <1>5, LookUpStep, LockStep, ApplyStep DEF Next

\* The invariant holds in every reachable state.
LEMMA OrdersAreSound == Spec => []OrdersInv
<1>. QED BY InitHolds, StepKeeps, PTL DEF Spec

----------------------------------------------------------------------------
(* The theorems.                                                           *)

\* Every variable keeps its type, whatever the requests do.
THEOREM TypesHold == Spec => []TypeOK
<1>1. OrdersInv => TypeOK
    <2> SUFFICES ASSUME OrdersInv PROVE TypeOK
        OBVIOUS
    <2>1. tasks \subseteq [key : Key, order : Order]
        BY DEF OrdersInv, IntakeInv, IntakeRow
    <2>2. Tables /\ Sessions /\ intake \subseteq IntakeRow
        BY DEF OrdersInv, TablesInv, IntakeInv
    <2>. QED BY <2>1, <2>2 DEF TypeOK, Tables, Sessions, IntakeRow, Step, OutboxKey, Request,
                              Answer, Outcome
<1>. QED BY <1>1, OrdersAreSound, PTL

\* The records of an order are one path of the rules, numbered without a gap.
THEOREM HistoryIsOnePath == Spec => []HistoryIsPath
<1>1. OrdersInv => HistoryIsPath
    <2> SUFFICES ASSUME OrdersInv, NEW o \in Order
                 PROVE  LET h == transitions[o]
                            At(i) == IF i = 0 THEN "pending" ELSE h[i].to
                        IN  /\ status[o] = "absent" => h = << >> /\ version[o] = 0
                            /\ status[o] # "absent" =>
                                 /\ status[o] = At(Len(h)) /\ version[o] = Len(h) + 1
                                 /\ \A i \in 1..Len(h) :
                                       /\ h[i].from = At(i - 1)
                                       /\ <<h[i].from, h[i].to>> \in order_transition_rules
                            /\ {e[2] : e \in {x \in events : x[1] = o}} = 1..version[o]
                            /\ {<<r.version, r.key>> : r \in {x \in outbox : x.order = o /\ x.version > 1}}
                                 = {<<i + 1, h[i].key>> : i \in 1..Len(h)}
        BY DEF HistoryIsPath
    <2> DEFINE h == transitions[o]
               rows == {<<r.version, r.key>> : r \in {x \in outbox : x.order = o /\ x.version > 1}}
               steps == {<<i + 1, h[i].key>> : i \in 1..Len(h)}
    <2>1. Path(o) /\ Numbered(o) /\ Announced(o) /\ Tables
        BY DEF OrdersInv, TablesInv
    <2>2. h \in Seq(Step) /\ DOMAIN h = 1..Len(h) /\ Len(h) \in Nat /\ version[o] \in Nat
        BY <2>1 DEF Tables
    <2>3. {e[2] : e \in {x \in events : x[1] = o}} = 1..version[o]
        <3>1. ASSUME NEW e \in events, e[1] = o PROVE e[2] \in 1..version[o]
            <4>1. e = <<o, e[2]>> /\ e[2] \in Nat
                BY <2>1, <3>1 DEF Tables
            <4>. QED BY <2>1, <4>1 DEF Numbered
        <3>2. ASSUME NEW n \in 1..version[o]
              PROVE  n \in {e[2] : e \in {x \in events : x[1] = o}}
            <4>1. n \in Nat /\ <<o, n>> \in events /\ <<o, n>>[1] = o /\ <<o, n>>[2] = n
                BY <2>1, <2>2 DEF Numbered
            <4>. QED BY <4>1
        <3>. QED BY <3>1, <3>2
    <2>4. rows \subseteq steps
        <3>1. ASSUME NEW x \in outbox, x.order = o, x.version > 1
              PROVE  <<x.version, x.key>> \in steps
            <4>1. x.version \in Nat
                BY <2>1 DEF Tables
            <4>2. x.version - 1 \in DOMAIN h /\ x.key = h[x.version - 1].key
                BY <2>1, <3>1, <4>1 DEF Announced
            <4>3. x.version - 1 \in 1..Len(h) /\ (x.version - 1) + 1 = x.version
                BY <2>2, <4>1, <4>2
            <4>. QED BY <4>2, <4>3
        <3>. QED BY <3>1
    <2>5. steps \subseteq rows
        <3>1. ASSUME NEW i \in 1..Len(h) PROVE <<i + 1, h[i].key>> \in rows
            <4>1. PICK x \in outbox : x = [order |-> o, version |-> i + 1, key |-> h[i].key]
                BY <2>1, <2>2 DEF Announced
            <4>2. x.order = o /\ x.version = i + 1 /\ x.key = h[i].key /\ i + 1 > 1
                BY <4>1, <2>2
            <4>. QED BY <4>2
        <3>. QED BY <3>1
    <2>6. rows = steps
        BY <2>4, <2>5
    <2>. QED BY <2>1, <2>3, <2>6 DEF Path, Before
<1>. QED BY <1>1, OrdersAreSound, PTL

\* A key executes at most once, and exactly when its record exists.
THEOREM KeysExecuteOnce == Spec => []KeyExecutesOnce
<1>1. OrdersInv => KeyExecutesOnce
    BY DEF OrdersInv, TablesInv
<1>. QED BY <1>1, OrdersAreSound, PTL

\* A reported success, fresh or replayed, is one that took effect.
THEOREM SuccessIsTrue == Spec => []AnswersAreTrue
<1>1. OrdersInv => AnswersAreTrue
    BY DEF OrdersInv, AnswersAreTrue, Truthful
<1>. QED BY <1>1, OrdersAreSound, PTL

\* An order is taken in with exactly one record and one task, of one key.
THEOREM IntakeIsWhole == Spec => []IntakeComplete
<1>1. OrdersInv => IntakeComplete
    <2> SUFFICES ASSUME OrdersInv PROVE IntakeComplete
        OBVIOUS
    <2>1. ASSUME NEW o \in Order
          PROVE  Cardinality({r \in intake : r.order = o})
                    = IF status[o] = "absent" THEN 0 ELSE 1
        <3>1. CASE status[o] = "absent"
            <4>1. {r \in intake : r.order = o} = {}
                BY <3>1 DEF OrdersInv, IntakeInv
            <4>. QED BY <3>1, <4>1, FS_EmptySet
        <3>2. CASE status[o] # "absent"
            <4>1. PICK r \in intake : {x \in intake : x.order = o} = {r}
                BY <3>2 DEF OrdersInv, IntakeInv
            <4>. QED BY <3>2, <4>1, FS_Singleton
        <3>. QED BY <3>1, <3>2
    <2>. QED BY <2>1 DEF IntakeComplete, OrdersInv, IntakeInv
<1>. QED BY <1>1, OrdersAreSound, PTL

\* No update is lost: a change replaces the state that its client had read.
THEOREM NoLostUpdate == Spec => ChangesWereDecidedOn
<1> DEFINE Decided(o) ==
        version[o] > 0 /\ version'[o] # version[o] =>
          \E s \in Session :
              /\ pc[s] = "apply" /\ req[s].order = o
              /\ req[s].expected_version = version[o] /\ req[s].expected_status = status[o]
<1>1. OrdersInv /\ [Next]_vars => [\A o \in Order : Decided(o)]_vars
    <2> SUFFICES ASSUME OrdersInv, Next, NEW o \in Order, version[o] > 0, version'[o] # version[o]
                 PROVE  \E s \in Session :
                           /\ pc[s] = "apply" /\ req[s].order = o
                           /\ req[s].expected_version = version[o] /\ req[s].expected_status = status[o]
        OBVIOUS
    <2>1. Tables /\ Path(o)
        BY DEF OrdersInv, TablesInv
    <2>2. PICK s \in Session : \/ \E a \in Account, k \in Key, b \in Body : CreateOrder(s, a, k, b)
                               \/ Apply(s)
        BY DEF Next, Submit, Resend, LookUp, LockOrder, ConnectionLost, orderVars
    <2>3. CASE \E a \in Account, k \in Key, b \in Body : CreateOrder(s, a, k, b)
        <3>1. PICK x \in Order : status[x] = "absent" /\ version' = [version EXCEPT ![x] = 1]
            BY <2>3 DEF CreateOrder, InsertOrder, orderVars
        <3>2. Path(x)
            BY DEF OrdersInv, TablesInv
        <3>. QED BY <2>1, <3>1, <3>2 DEF Tables, Path
    <2>4. CASE Apply(s)
        <3>1. pc[s] = "apply" /\ Holds(s) /\ version' = [version EXCEPT ![req[s].order] = @ + 1]
            BY <2>4 DEF Apply, transition_order, WriteTransition, orderVars, OrdersInv
        <3>. QED BY <2>1, <3>1 DEF Tables, Holds
    <2>. QED BY <2>2, <2>3, <2>4
<1>. QED BY <1>1, OrdersAreSound, PTL DEF Spec, ChangesWereDecidedOn

=============================================================================
