------------------------------ MODULE StagingRun ----------------------------
(***************************************************************************)
(* Invocations of run_oms_recommendation.py: a one-time grant, consumed by *)
(* an exclusive file; the circuit of marker files under a lock that denies *)
(* instead of waiting; the single provider request inside the grant's      *)
(* window; and the outcome that releases the circuit or latches it.  A     *)
(* system call may fail, an invocation may die, and the machine may crash  *)
(* and keep or lose what was not yet synchronized.                         *)
(***************************************************************************)
EXTENDS Recommendations, Naturals

CONSTANTS Run,         \* invocations of the script
          Grant,
          Registered,  \* APPROVED_STAGING_GRANTS
          Window,      \* not_before and expires_at of each grant
          Timeout,     \* settings.timeout_seconds; even
          Shown,       \* SYNTHETIC_MATCHES
          None,
          Horizon,     \* bound: end of time
          MaxMishaps   \* bound: failed calls, deaths and crashes

ASSUME StagingAssumption ==
    /\ Registered \subseteq Grant
    /\ Window \in [Grant -> [from : Nat, until : Nat]]
    /\ Timeout \in Nat \ {0} /\ Timeout % 2 = 0
    /\ {Horizon, MaxMishaps} \subseteq Nat
    /\ None \notin Run

VARIABLES
    now,
    grant,     \* the approval each invocation names; never changes
    pc,        \* where each invocation stands
    lock,      \* holder of deepseek-circuit.lock
    dir,       \* the files of the claim directory: their kind and whose they are
    disk,      \* the part of it that is synchronized
    permits,   \* invocations that reserve() let through
    deadline,  \* execution_deadline of the invocation
    requests_started,
    failure,   \* what finish() will record: TRUE stands for any CircuitFailure
    mishaps

local == <<pc, permits, deadline, requests_started, failure>>
vars == <<now, grant, lock, dir, disk, local, mishaps>>

File == [kind : {"consumed"}, of : Grant] \cup [kind : {"active", "releasing", "open"}, of : Run]
Mine(r, kind) == [kind |-> kind, of |-> r]
Exists(kind) == \E f \in dir : f.kind = kind

Unlocked == {"authorize", "consume", "consume_sync", "reserve",
             "prepare", "rank", "call", "close", "finish"}
Locked == {"inspect", "active_sync", "token", "releasing", "open", "guard_sync",
           "unlink_active", "gone_sync", "unlink_releasing"}
Ended == {"denied", "clean", "failed", "dead"}
SystemCalls == (Locked \cup {"consume", "consume_sync", "reserve", "prepare", "finish"})

Init ==
    /\ now = 0
    /\ grant \in [Run -> Grant]
    /\ pc = [r \in Run |-> "authorize"]
    /\ lock = None
    /\ dir = {} /\ disk = {}
    /\ permits = {}
    /\ deadline = [r \in Run |-> 0]
    /\ requests_started = [r \in Run |-> 0]
    /\ failure = [r \in Run |-> TRUE]
    /\ mishaps = 0

Goto(r, l) == pc' = [pc EXCEPT ![r] = l]

\* Mutant: an exception leaves the lock file locked.
UnlockForgotten(r) == UNCHANGED lock

\* The end of the with block, on every way out.
Unlock(r) == lock' = IF lock = r THEN None ELSE lock

\* An exception: before the permit it denies the run, inside _run_provider()
\* it leads to finish(SAFETY), inside finish() it ends the run.
Raise(r) ==
    /\ Goto(r, IF r \notin permits THEN "denied"
               ELSE IF pc[r] \in {"prepare", "rank", "call", "close"} THEN "finish" ELSE "failed")
    /\ failure' = [failure EXCEPT ![r] = TRUE]
    /\ Unlock(r)

----------------------------------------------------------------------------
(* The grant.                                                              *)

ensure_execution_window(g) == now + Timeout <= Window[g].until

\* validate_and_consume_grant() up to the claim; what an invocation binds
\* (uid, digest, endpoint, limits, evidence) matches the grant or does not.
assert_staging_authorized(r) ==
    LET g == grant[r]
    IN  /\ pc[r] = "authorize"
        /\ \/ /\ g \in Registered
              /\ Window[g].from <= now /\ now < Window[g].until
              /\ ensure_execution_window(g)
              /\ Goto(r, "consume")
           \/ Goto(r, "denied")
        /\ UNCHANGED <<now, grant, lock, dir, disk, permits, deadline, requests_started, failure,
                       mishaps>>

\* Mutant: the claim is not exclusive.
ClaimAlways(r) == TRUE

\* O_EXCL: the name is still free.
ClaimIsFirst(r) == [kind |-> "consumed", of |-> grant[r]] \notin dir

consume(r) ==
    /\ pc[r] = "consume"
    /\ \/ /\ ClaimIsFirst(r)
          /\ dir' = dir \cup {[kind |-> "consumed", of |-> grant[r]]}
          /\ Goto(r, "consume_sync")
       \/ /\ ~ClaimIsFirst(r)
          /\ Goto(r, "denied")
          /\ UNCHANGED dir
    /\ UNCHANGED <<now, grant, lock, disk, permits, deadline, requests_started, failure, mishaps>>

----------------------------------------------------------------------------
(* The circuit.                                                            *)

\* fsync of the directory.
Sync(r, from, to) ==
    /\ pc[r] = from
    /\ disk' = dir
    /\ Goto(r, to)
    /\ UNCHANGED <<now, grant, lock, dir, permits, deadline, requests_started, failure, mishaps>>

\* _locked(): whoever finds the lock taken is refused.
TakeLock(r, from, to) ==
    /\ pc[r] = from
    /\ \/ /\ lock = None
          /\ lock' = r
          /\ Goto(r, to)
          /\ UNCHANGED failure
       \/ /\ lock # None
          /\ Raise(r)
    /\ UNCHANGED <<now, grant, dir, disk, permits, deadline, requests_started, mishaps>>

\* reserve() under the lock.
reserve(r) ==
    /\ pc[r] = "inspect"
    /\ \/ /\ ~Exists("open") /\ ~Exists("releasing") /\ ~Exists("active")
          /\ dir' = dir \cup {Mine(r, "active")}
          /\ Goto(r, "active_sync")
          /\ UNCHANGED <<lock, failure>>
       \/ /\ Exists("open") \/ Exists("releasing") \/ Exists("active")
          /\ Raise(r)
          /\ UNCHANGED dir
    /\ UNCHANGED <<now, grant, disk, permits, deadline, requests_started, mishaps>>

Admit(r) ==
    /\ pc[r] = "active_sync"
    /\ disk' = dir
    /\ permits' = permits \cup {r}
    /\ Unlock(r)
    /\ Goto(r, "prepare")
    /\ UNCHANGED <<now, grant, dir, deadline, requests_started, failure, mishaps>>

\* Mutant: a success removes the reservation without a guard.
ReleaseUnguarded(r) == IF failure[r] THEN "open" ELSE "unlink_active"

\* A guard is written first: .releasing for a success, .open for a failure.
FirstMarker(r) == IF failure[r] THEN "open" ELSE "releasing"

\* finish() under the lock: the reservation must be there and its own.
CheckToken(r) ==
    /\ pc[r] = "token"
    /\ \/ /\ Mine(r, "active") \in dir
          /\ Goto(r, FirstMarker(r))
          /\ UNCHANGED <<lock, failure>>
       \/ /\ Mine(r, "active") \notin dir
          /\ Raise(r)
    /\ UNCHANGED <<now, grant, dir, disk, permits, deadline, requests_started, mishaps>>

WriteMarker(r) ==
    /\ pc[r] \in {"releasing", "open"}
    /\ \/ /\ ~Exists(pc[r])
          /\ dir' = dir \cup {Mine(r, pc[r])}
          /\ Goto(r, "guard_sync")
          /\ UNCHANGED <<lock, failure>>
       \/ /\ Exists(pc[r])
          /\ Raise(r)
          /\ UNCHANGED dir
    /\ UNCHANGED <<now, grant, disk, permits, deadline, requests_started, mishaps>>

UnlinkActive(r) ==
    /\ pc[r] = "unlink_active"
    /\ dir' = dir \ {Mine(r, "active")}
    /\ Goto(r, "gone_sync")
    /\ UNCHANGED <<now, grant, lock, disk, permits, deadline, requests_started, failure, mishaps>>

\* The removal is synchronized; a failure ends here with its marker.
ActiveIsGone(r) ==
    /\ pc[r] = "gone_sync"
    /\ disk' = dir
    /\ Goto(r, IF failure[r] THEN "failed" ELSE "unlink_releasing")
    /\ IF failure[r] THEN Unlock(r) ELSE UNCHANGED lock
    /\ UNCHANGED <<now, grant, dir, permits, deadline, requests_started, failure, mishaps>>

\* The last step of a success is deliberately not synchronized.
UnlinkReleasing(r) ==
    /\ pc[r] = "unlink_releasing"
    /\ dir' = dir \ {Mine(r, "releasing")}
    /\ Unlock(r)
    /\ Goto(r, "clean")
    /\ UNCHANGED <<now, grant, disk, permits, deadline, requests_started, failure, mishaps>>

----------------------------------------------------------------------------
(* The request.                                                            *)

\* _run_provider(): credential, second look at the window, the deadline.
Prepare(r) ==
    LET until == Window[grant[r]].until
    IN  /\ pc[r] = "prepare"
        /\ \/ /\ ensure_execution_window(grant[r])
              /\ deadline' = [deadline EXCEPT ![r] =
                                 IF now + Timeout < until THEN now + Timeout ELSE until]
              /\ Goto(r, "rank")
              /\ UNCHANGED <<lock, failure>>
           \/ /\ ~ensure_execution_window(grant[r])
              /\ Raise(r)
              /\ UNCHANGED deadline
        /\ UNCHANGED <<now, grant, dir, disk, permits, requests_started, mishaps>>

\* rank() sends at most one request, and only in the first half of the time.
rank(r) ==
    /\ pc[r] = "rank"
    /\ \/ /\ requests_started[r] = 0
          /\ now < deadline[r] - Timeout \div 2
          /\ requests_started' = [requests_started EXCEPT ![r] = @ + 1]
          /\ Goto(r, "call")
       \/ /\ now >= deadline[r] - Timeout \div 2
          /\ Goto(r, "close")
          /\ UNCHANGED requests_started
    /\ UNCHANGED <<now, grant, lock, dir, disk, permits, deadline, failure, mishaps>>

\* The outcome of the request, and what recommend_drivers() sees of it.
AnswerOf ==
    [TIMEOUT |-> "timeout", RATE_LIMITED |-> "os_error", HTTP_REJECTED |-> "os_error",
     UNAVAILABLE |-> "os_error", MALFORMED_RESPONSE |-> "failure",
     RESPONSE_TOO_LARGE |-> "failure", CANCELLED |-> "timeout", RESPONSE_RECEIVED |-> "ranking"]

\* The deadline of recommend_drivers() may pass over an answer already there.
Respond(r) ==
    /\ pc[r] = "call"
    /\ \E o \in DOMAIN AnswerOf, k \in {Shown, << >>} :
       \E end \in {AnswerOf[o], "timeout"} :
          LET advisory == recommend_drivers(Shown, Answer(end, k))
          IN  failure' = [failure EXCEPT ![r] = ~(/\ advisory.reason_code = "RECOMMENDED"
                                                  /\ o = "RESPONSE_RECEIVED"
                                                  /\ requests_started[r] = 1)]
    /\ Goto(r, "close")
    /\ UNCHANGED <<now, grant, lock, dir, disk, permits, deadline, requests_started, mishaps>>

\* aclose(), in time or not, and a cancellation held back until it is over.
Close(r) ==
    /\ pc[r] = "close"
    /\ \/ Goto(r, "finish") /\ UNCHANGED <<lock, failure>>
       \/ Raise(r)
    /\ UNCHANGED <<now, grant, dir, disk, permits, deadline, requests_started, mishaps>>

----------------------------------------------------------------------------
(* What may go wrong at any time.                                          *)

Mishap == mishaps < MaxMishaps /\ mishaps' = mishaps + 1

SystemCallFails(r) ==
    /\ pc[r] \in SystemCalls
    /\ Mishap
    /\ Raise(r)
    /\ UNCHANGED <<now, grant, dir, disk, permits, deadline, requests_started>>

\* A killed process loses its lock and nothing else.
Die(r) ==
    /\ pc[r] \notin Ended
    /\ Mishap
    /\ Goto(r, "dead")
    /\ Unlock(r)
    /\ UNCHANGED <<now, grant, dir, disk, permits, deadline, requests_started, failure>>

\* What was created or removed since the last synchronization is there or not.
MachineCrash ==
    /\ Mishap
    /\ \E kept \in SUBSET ((dir \ disk) \cup (disk \ dir)) :
          /\ dir' = (dir \cap disk) \cup kept
          /\ disk' = dir'
    /\ pc' = [r \in Run |-> IF pc[r] \in Ended \cup {"authorize"} THEN pc[r] ELSE "dead"]
    /\ lock' = None
    /\ UNCHANGED <<now, grant, permits, deadline, requests_started, failure>>

\* The timers of a run fire: nothing of it is left when its deadline is over.
Tick ==
    /\ now < Horizon
    /\ \A r \in Run :
          /\ pc[r] = "call" => now < deadline[r] - Timeout \div 2
          /\ pc[r] = "close" => now < deadline[r]
    /\ now' = now + 1
    /\ UNCHANGED <<grant, lock, dir, disk, local, mishaps>>

Invocation(r) ==
    \/ assert_staging_authorized(r)
    \/ consume(r)
    \/ Sync(r, "consume_sync", "reserve")
    \/ TakeLock(r, "reserve", "inspect")
    \/ reserve(r)
    \/ Admit(r)
    \/ Prepare(r)
    \/ rank(r)
    \/ Respond(r)
    \/ Close(r)
    \/ TakeLock(r, "finish", "token")
    \/ CheckToken(r)
    \/ WriteMarker(r)
    \/ Sync(r, "guard_sync", "unlink_active")
    \/ UnlinkActive(r)
    \/ ActiveIsGone(r)
    \/ UnlinkReleasing(r)

Next ==
    \/ \E r \in Run : Invocation(r) \/ SystemCallFails(r) \/ Die(r)
    \/ MachineCrash
    \/ Tick

Spec == Init /\ [][Next]_vars

----------------------------------------------------------------------------
(* Properties.                                                             *)

\* The state is well typed, and the lock is held by exactly the invocation that
\* is inside reserve() or finish().
TypeOK ==
    /\ now \in 0 .. Horizon
    /\ grant \in [Run -> Grant]
    /\ pc \in [Run -> Unlocked \cup Locked \cup Ended]
    /\ \A r \in Run : lock = r <=> pc[r] \in Locked
    /\ lock \in Run \cup {None}
    /\ dir \subseteq File /\ disk \subseteq File
    /\ permits \subseteq Run
    /\ deadline \in [Run -> Nat]
    /\ requests_started \in [Run -> Nat]
    /\ failure \in [Run -> BOOLEAN]
    /\ mishaps \in 0 .. MaxMishaps

\* StrictProviderCircuit: one run at a time, and once a run has been let through
\* and did not end with a clean release - it failed, its release failed, it
\* died or the machine crashed under it - no other run is ever let through.
LatchHolds ==
    \A r, q \in permits : r = q \/ pc[r] = "clean" \/ pc[q] = "clean"

\* A grant pays for one request, whatever dies or crashes, and the request is
\* over before the grant expires, with time left to clean up.
OneCallPerGrant ==
    /\ \A r, q \in Run :
          /\ requests_started[r] <= 1
          /\ r # q /\ grant[r] = grant[q] => requests_started[r] + requests_started[q] <= 1
    /\ \A r \in Run : pc[r] = "call" => now < Window[grant[r]].until

=============================================================================
