---------------------------- MODULE PodLifecycle ----------------------------
(***************************************************************************)
(* api/pod_lifecycle.py: clients that read the verification status of an   *)
(* order's proof of delivery and advance it by a conditional PATCH of the  *)
(* row.  The PATCH asks for a minimal answer, so that it looks the same    *)
(* whether a row matched or not.  Nothing in the repository calls the      *)
(* store yet; the hosted table is modelled from the calls it makes.        *)
(***************************************************************************)
EXTENDS Naturals

CONSTANTS Order,
          Client,  \* callers of a PODStore
          None

\* PODStatus; the lifecycle is its order.
Lifecycle == <<"POD_UPLOADED", "POD_VERIFICATION_PENDING", "POD_VERIFIED",
               "DELIVERY_CONFIRMED", "SETTLEMENT_ELIGIBLE">>
Position == 1 .. 5

VARIABLES
    pod_status,  \* orders.pod_status, as a position in the lifecycle
    seen,        \* client: the order and the status it read, or None
    answer       \* client: what its last advance_status() returned, or None

vars == <<pod_status, seen, answer>>

Init ==
    /\ pod_status \in [Order -> Position]
    /\ seen = [c \in Client |-> None]
    /\ answer = [c \in Client |-> None]

\* POD_TRANSITIONS
can_transition(from, to) == to = from + 1 /\ to \in Position

\* The answer is the status of the row; errors answer nothing and are left out.
get_order_status(c, o) ==
    /\ seen' = [seen EXCEPT ![c] = [order |-> o, status |-> pod_status[o]]]
    /\ answer' = [answer EXCEPT ![c] = None]
    /\ UNCHANGED pod_status

\* The PATCH with the filter pod_status = eq.current.
Patched(o, current, target) ==
    IF pod_status[o] = current THEN [pod_status EXCEPT ![o] = target] ELSE pod_status

\* advance_status(): a status of 204 is a success, whatever was patched; the
\* request or its answer may also be lost, which is a failure.
advance_status(c, target) ==
    /\ seen[c] # None
    /\ LET o == seen[c].order
           current == seen[c].status
       IN  \/ /\ can_transition(current, target)
              /\ \/ /\ pod_status' = Patched(o, current, target)
                    /\ answer' = [answer EXCEPT ![c] =
                                     [success |-> TRUE, order |-> o, target |-> target]]
                 \/ /\ pod_status' \in {pod_status, Patched(o, current, target)}
                    /\ answer' = [answer EXCEPT ![c] =
                                     [success |-> FALSE, order |-> o, target |-> target]]
           \/ /\ ~can_transition(current, target)
              /\ answer' = [answer EXCEPT ![c] =
                               [success |-> FALSE, order |-> o, target |-> target]]
              /\ UNCHANGED pod_status
    /\ seen' = [seen EXCEPT ![c] = None]

Next ==
    \E c \in Client :
        \/ \E o \in Order : get_order_status(c, o)
        \/ \E target \in Position : advance_status(c, target)

Spec == Init /\ [][Next]_vars

----------------------------------------------------------------------------
(* Properties.                                                             *)

TypeOK ==
    /\ pod_status \in [Order -> Position]
    /\ seen \in [Client -> [order : Order, status : Position] \cup {None}]

\* "If the row wasn't updated, the status has changed since read": a call that
\* reports success is the one that moved the row to the status it names.
SuccessMoved ==
    [][\A c \in Client :
          answer'[c] # answer[c] /\ answer'[c] # None /\ answer'[c].success
            => /\ pod_status'[answer'[c].order] = answer'[c].target
               /\ pod_status[answer'[c].order] # answer'[c].target]_vars

\* However old the status is that a client read, a row only ever moves to the
\* next status of the lifecycle: no step is skipped, repeated or undone.
OneStepAtATime ==
    [][\A o \in Order : pod_status'[o] # pod_status[o] =>
          pod_status'[o] = pod_status[o] + 1]_vars

=============================================================================
