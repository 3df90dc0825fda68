------------------------------ MODULE OrderApi ------------------------------
(***************************************************************************)
(* POST /orders and POST /orders/{id}/transitions: concurrent requests     *)
(* against the order tables, each one database transaction under READ      *)
(* COMMITTED.  A transition request runs in the three steps that other     *)
(* transactions can interleave with: the unlocked look-up of its           *)
(* idempotency key, SELECT ... FOR UPDATE of the order with the comparison *)
(* of the expected state, and zippy.transition_order() with the commit.    *)
(* Clients build requests from a state they have read and may send one     *)
(* again at any time; a lost connection rolls the transaction back.        *)
(***************************************************************************)
EXTENDS OrderTables

CONSTANTS Session,   \* API requests in flight at the same time
          Account,   \* customer accounts
          Body,      \* fingerprints of order intake requests
          Target     \* the statuses that clients ask for

ASSUME TargetAssumption == Target \subseteq OrderStatus
ASSUME NoneAssumption == None \notin Session

VARIABLES
    intake,   \* idempotency_records of POST /orders: [account, key, body, order]
    tasks,    \* durable_tasks of type order_intake: [key, order]
    pc,       \* session: "idle", "look_up", "lock" or "apply"
    req,      \* session: the request in work, or answered last
    member,   \* session: the actor is the booking customer or an admin
    answer,   \* session: the answer to req
    lock      \* orders: the session holding the row lock, or None

intakeVars  == <<intake, tasks>>
sessionVars == <<pc, req, member, answer>>
vars == <<orderVars, intakeVars, sessionVars, lock>>

NoAnswer == [outcome |-> "none", order |-> None, status |-> "none", version |-> 0]
NoRequest == [kind |-> "none"]

Init ==
    /\ OrderInit
    /\ intake = {}
    /\ tasks = {}
    /\ pc = [s \in Session |-> "idle"]
    /\ req = [s \in Session |-> NoRequest]
    /\ member = [s \in Session |-> TRUE]
    /\ answer = [s \in Session |-> NoAnswer]
    /\ lock = [o \in Order |-> None]

\* The session is over: its answer is out and the locks it held are released.
Respond(s, outcome, o, st, v) ==
    /\ pc' = [pc EXCEPT ![s] = "idle"]
    /\ answer' = [answer EXCEPT ![s] =
                     [outcome |-> outcome, order |-> o, status |-> st, version |-> v]]
    /\ lock' = [x \in Order |-> IF lock[x] = s THEN None ELSE lock[x]]
    /\ UNCHANGED <<req, member>>

----------------------------------------------------------------------------
(* Order intake.                                                           *)

\* Mutant: the operation scope leaves out the account.
IntakeRecordAnyAccount(a, k) == {r \in intake : r.key = k}

\* The idempotency record of scope POST:/api/v1/orders:<account>.
IntakeRecord(a, k) == {r \in intake : r.account = a /\ r.key = k}

\* Mutant: the intake task is left to a later transaction.
SaveIntakeWithoutTask(a, k, b, o) ==
    /\ intake' = intake \cup {[account |-> a, key |-> k, body |-> b, order |-> o]}
    /\ UNCHANGED tasks

\* The idempotency record with its result, and the order_intake task.
SaveIntake(a, k, b, o) ==
    /\ intake' = intake \cup {[account |-> a, key |-> k, body |-> b, order |-> o]}
    /\ tasks' = tasks \cup {[key |-> k, order |-> o]}

\* INSERT ... ON CONFLICT DO NOTHING waits for a concurrent insert of the same
\* key, so that the whole transaction is one step.  The task key is unique per
\* platform: the same key from another account raises UniqueViolation, which
\* nobody catches (500), and rolls back.
CreateOrder(s, a, k, b) ==
    LET r == [kind |-> "create", account |-> a, key |-> k, body |-> b]
        prior == IntakeRecord(a, k)
        Finish(outcome, o) ==
            /\ req' = [req EXCEPT ![s] = r]
            /\ answer' = [answer EXCEPT ![s] =
                            [outcome |-> outcome, order |-> o, status |-> "pending", version |-> 1]]
            /\ UNCHANGED <<pc, member, lock>>
    IN  /\ pc[s] = "idle"
        /\ \/ \E p \in prior :
                 /\ IF p.body = b THEN Finish("replayed", p.order) ELSE Finish("conflict", None)
                 /\ UNCHANGED <<orderVars, intakeVars>>
           \/ /\ prior = {} /\ \E t \in tasks : t.key = k
              /\ Finish("error", None)
              /\ UNCHANGED <<orderVars, intakeVars>>
           \/ /\ prior = {} /\ \A t \in tasks : t.key # k
              /\ \E o \in Order :
                    /\ InsertOrder(o)
                    /\ SaveIntake(a, k, b, o)
                    /\ Finish("accepted", o)

----------------------------------------------------------------------------
(* Order transitions.                                                      *)

\* A client asks for a change of the state it has just read.
Submit(s, o, next, k, m) ==
    /\ pc[s] = "idle"
    /\ status[o] # "absent"
    /\ req' = [req EXCEPT ![s] =
                  [kind |-> "transition", order |-> o, expected_status |-> status[o],
                   expected_version |-> version[o], next |-> next, key |-> k]]
    /\ member' = [member EXCEPT ![s] = m]
    /\ answer' = [answer EXCEPT ![s] = NoAnswer]
    /\ pc' = [pc EXCEPT ![s] = "look_up"]
    /\ UNCHANGED <<orderVars, intakeVars, lock>>

\* The client (or a proxy) sends a request again, while the first one is still
\* in work or after it was answered.
Resend(s, other) ==
    /\ pc[s] = "idle"
    /\ req[other].kind = "transition"
    /\ req' = [req EXCEPT ![s] = req[other]]
    /\ member' = [member EXCEPT ![s] = member[other]]
    /\ answer' = [answer EXCEPT ![s] = NoAnswer]
    /\ pc' = [pc EXCEPT ![s] = "look_up"]
    /\ UNCHANGED <<orderVars, intakeVars, lock>>

\* Mutant: the request hash is not compared.
LookUpByKeyOnly(s) ==
    LET r == req[s]
    IN  /\ pc[s] = "look_up"
        /\ \/ /\ Prior(r.order, r.key) # {}
              /\ Respond(s, "replayed", r.order, status[r.order], version[r.order])
           \/ /\ Prior(r.order, r.key) = {}
              /\ pc' = [pc EXCEPT ![s] = "lock"]
              /\ UNCHANGED <<req, member, answer, lock>>
        /\ UNCHANGED <<orderVars, intakeVars>>

\* The first SELECT, without a lock: the record is joined with the order as it
\* is now.
LookUp(s) ==
    LET r == req[s]
    IN  /\ pc[s] = "look_up"
        /\ \/ \E p \in Prior(r.order, r.key) :
                 \/ /\ p.hash = r
                    /\ Respond(s, "replayed", r.order, status[r.order], version[r.order])
                 \/ /\ p.hash # r
                    /\ Respond(s, "conflict", None, "none", 0)
           \/ /\ Prior(r.order, r.key) = {}
              /\ pc' = [pc EXCEPT ![s] = "lock"]
              /\ UNCHANGED <<req, member, answer, lock>>
        /\ UNCHANGED <<orderVars, intakeVars>>

\* Mutant: nothing is compared, and the row's own status is passed on as the
\* expected one.
LockAndAdopt(s) ==
    LET r == req[s]
    IN  /\ pc[s] = "lock" /\ member[s] /\ lock[r.order] = None
        /\ lock' = [lock EXCEPT ![r.order] = s]
        /\ pc' = [pc EXCEPT ![s] = "apply"]
        /\ req' = [req EXCEPT ![s].expected_status = status[r.order]]
        /\ UNCHANGED <<orderVars, intakeVars, member, answer>>
\* SELECT ... FOR UPDATE OF orders, restricted to orders the actor may see (no
\* row, no lock), then the comparison with the state the client expects.
LockOrder(s) ==
    LET r == req[s]
        asExpected == status[r.order] = r.expected_status
                        /\ version[r.order] = r.expected_version
    IN  /\ pc[s] = "lock"
        /\ \/ /\ ~member[s]
              /\ Respond(s, "forbidden", None, "none", 0)
           \/ /\ member[s] /\ lock[r.order] = None /\ ~asExpected
              /\ Respond(s, "conflict", None, "none", 0)
           \/ /\ member[s] /\ lock[r.order] = None /\ asExpected
              /\ lock' = [lock EXCEPT ![r.order] = s]
              /\ pc' = [pc EXCEPT ![s] = "apply"]
              /\ UNCHANGED <<req, member, answer>>
        /\ UNCHANGED <<orderVars, intakeVars>>

\* Mutant: a rejected request keeps its transaction, and its lock, open.
ApplyWithoutRollback(s) ==
    LET r == req[s]
    IN  /\ pc[s] = "apply"
        /\ \/ /\ transition_order(r.order, r.expected_status, r.next, r.key, r)
              /\ Respond(s, "done", r.order, r.next, r.expected_version + 1)
           \/ /\ ~MayTransition(r.order, r.expected_status, r.next, r.key)
              /\ pc' = [pc EXCEPT ![s] = "idle"]
              /\ UNCHANGED <<orderVars, req, member, answer, lock>>
        /\ UNCHANGED intakeVars

\* zippy.transition_order() and the commit.  CheckViolation (no such rule),
\* SerializationFailure and UniqueViolation become a conflict.
Apply(s) ==
    LET r == req[s]
    IN  /\ pc[s] = "apply"
        /\ \/ /\ transition_order(r.order, r.expected_status, r.next, r.key, r)
              /\ Respond(s, "done", r.order, r.next, r.expected_version + 1)
           \/ /\ ~MayTransition(r.order, r.expected_status, r.next, r.key)
              /\ Respond(s, "conflict", None, "none", 0)
              /\ UNCHANGED orderVars
        /\ UNCHANGED intakeVars

\* The connection breaks: 503, and the database rolls back.
ConnectionLost(s) ==
    /\ pc[s] # "idle"
    /\ Respond(s, "unavailable", None, "none", 0)
    /\ UNCHANGED <<orderVars, intakeVars>>

----------------------------------------------------------------------------

Next ==
    \E s \in Session :
        \/ \E a \in Account, k \in Key, b \in Body : CreateOrder(s, a, k, b)
        \/ \E o \in Order, t \in Target, k \in Key, m \in BOOLEAN : Submit(s, o, t, k, m)
        \/ \E other \in Session : Resend(s, other)
        \/ LookUp(s)
        \/ LockOrder(s)
        \/ Apply(s)
        \/ ConnectionLost(s)

Spec == Init /\ [][Next]_vars

\* A request in work takes its steps.  Row locks are granted in the order of
\* their requests, so that a waiting session is not passed over for ever.
Fairness == \A s \in Session : /\ WF_vars(LookUp(s)) /\ WF_vars(Apply(s))
                               /\ SF_vars(LockOrder(s))

FairSpec == Spec /\ Fairness

----------------------------------------------------------------------------
(* Properties.                                                             *)

TransitionRequest ==
    [kind : {"transition"}, order : Order, expected_status : OrderStatus,
     expected_version : Nat, next : Target, key : Key]
CreateRequest == [kind : {"create"}, account : Account, key : Key, body : Body]

TypeOK ==
    /\ status \in [Order -> OrderStatus \cup {"absent"}]
    /\ version \in [Order -> Nat]
    /\ transitions \in [Order -> Seq([from : OrderStatus, to : OrderStatus, key : Key])]
    /\ idempotency \subseteq [order : Order, key : Key, hash : TransitionRequest]
    /\ events \subseteq Order \X Nat
    /\ outbox \subseteq [order : Order, version : Nat,
                         key : Key \cup ({"order.accepted"} \X Order)]
    /\ intake \subseteq [account : Account, key : Key, body : Body, order : Order]
    /\ tasks \subseteq [key : Key, order : Order]
    /\ pc \in [Session -> {"idle", "look_up", "lock", "apply"}]
    /\ req \in [Session -> TransitionRequest \cup CreateRequest \cup {NoRequest}]
    /\ \A s \in Session : pc[s] # "idle" => req[s] \in TransitionRequest
    /\ member \in [Session -> BOOLEAN]
    /\ answer \in [Session -> [outcome : {"none", "accepted", "replayed", "done", "conflict",
                                          "forbidden", "unavailable", "error"},
                               order : Order \cup {None},
                               status : OrderStatus \cup {"none"}, version : Nat]]
    /\ lock \in [Order -> Session \cup {None}]

\* The history of an order is a path of the transition rules from pending to
\* its status, and version, events and outbox count exactly its steps: no
\* interleaving of requests loses, doubles or misorders one of the four records
\* that transition_order() writes.
HistoryIsPath ==
    \A o \in Order :
        LET h == transitions[o]
            At(i) == IF i = 0 THEN "pending" ELSE h[i].to
        IN  /\ status[o] = "absent" => h = << >> /\ version[o] = 0
            /\ status[o] # "absent" =>
                 /\ status[o] = At(Len(h)) /\ version[o] = Len(h) + 1
                 /\ \A i \in 1..Len(h) :
                       /\ h[i].from = At(i - 1)
                       /\ <<h[i].from, h[i].to>> \in order_transition_rules
            /\ {e[2] : e \in {x \in events : x[1] = o}} = 1..version[o]
            /\ {<<r.version, r.key>> : r \in {x \in outbox : x.order = o /\ x.version > 1}}
                 = {<<i + 1, h[i].key>> : i \in 1..Len(h)}

\* An idempotency key executes at most once per order, and exactly when its
\* record exists; no outbox key is used twice on the platform.
KeyExecutesOnce ==
    /\ \A o \in Order : \A i, j \in DOMAIN transitions[o] :
          transitions[o][i].key = transitions[o][j].key => i = j
    /\ \A o \in Order, k \in Key :
          Prior(o, k) # {} <=> \E i \in DOMAIN transitions[o] : transitions[o][i].key = k
    /\ \A r1, r2 \in outbox : r1.key = r2.key => r1 = r2

\* The request r is the step of the history that starts at its expected version.
Executed(r) ==
    /\ r.expected_version \in DOMAIN transitions[r.order]
    /\ transitions[r.order][r.expected_version] =
          [from |-> r.expected_status, to |-> r.next, key |-> r.key]

\* A success, fresh or replayed, is only reported for a request that took
\* effect as that client sent it, and an order only to the account that created
\* it with this body.
AnswersAreTrue ==
    \A s \in Session :
        /\ req[s].kind = "transition" /\ answer[s].outcome \in {"done", "replayed"}
             => Executed(req[s])
        /\ req[s].kind = "create" /\ answer[s].outcome \in {"accepted", "replayed"}
             => [account |-> req[s].account, key |-> req[s].key, body |-> req[s].body,
                 order |-> answer[s].order] \in intake

\* Every order has exactly one intake record and one intake task, of the same
\* key, and they exist for no other order.
IntakeComplete ==
    /\ \A o \in Order : Cardinality({r \in intake : r.order = o})
                          = IF status[o] = "absent" THEN 0 ELSE 1
    /\ tasks = {[key |-> r.key, order |-> r.order] : r \in intake}
    /\ \A r1, r2 \in intake : r1.account = r2.account /\ r1.key = r2.key => r1 = r2

\* No lost update: every committed change replaces the very state that the
\* client of the request had read.
ChangesWereDecidedOn ==
    [][\A o \in Order : version[o] > 0 /\ version'[o] # version[o] =>
          \E s \in Session :
              /\ pc[s] = "apply" /\ req[s].order = o
              /\ req[s].expected_version = version[o] /\ req[s].expected_status = status[o]]_vars

\* Every request is answered: nobody waits for ever on a row lock.
EveryRequestAnswered == \A s \in Session : pc[s] # "idle" ~> pc[s] = "idle"

=============================================================================
