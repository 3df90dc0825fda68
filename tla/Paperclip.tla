----------------------------- MODULE Paperclip -----------------------------
(***************************************************************************)
(* Paperclip governance (db/paperclip/migrations/0001_governance.up.sql,   *)
(* api/services/paperclip.py, synthetic_executor.py): an agent proposes an *)
(* action, the owner decides it, an admin has a grant issued for it and    *)
(* the executor consumes the grant, once, with the envelope that the API   *)
(* signed for it.  A loop guard blocks equivalent proposals that come too  *)
(* fast, decision locks and failed invariants hold grants back, and a      *)
(* budget bounds what an agent may spend.                                  *)
(*                                                                         *)
(* Each privileged SQL function is one transaction and one action; row     *)
(* locks, advisory locks and unique indexes make them atomic.  Only the    *)
(* executor works in two transactions, and may die between them.  Denials  *)
(* write audit and outbox rows only, and are left out.  Agents and the     *)
(* policy are active: no code of the system changes that.                  *)
(***************************************************************************)
EXTENDS Integers, FiniteSets

CONSTANTS Key,        \* idempotency keys; a proposal and its grant are named by theirs
          Agent,
          Content,    \* action, target, entity and payload; equal contents share a fingerprint
          Holder,     \* admins that hold decision locks
          Result,     \* invariant results that admins record
          Verdict,    \* statuses that the owner decides
          Owner,      \* the configured owner subject
          Report,     \* statuses the executor reports through the attempts route
          Cost,       \* token costs
          Life,       \* how long proposals and approvals may last
          Session,    \* executor requests in flight at the same time
          RunKey,     \* run keys of heartbeats
          None,
          Budget,     \* monthly_budget_usd of an agent
          LoopLimit,  \* 3 in the code: this equivalent proposal is the first blocked one
          LoopWindow, \* ten minutes
          GrantTtl,   \* five minutes
          MaxBlocks,  \* bound: events of one blocked proposal
          MaxWait,    \* bound: how long a proposal may wait for the advisory lock
          MaxTime     \* bound: the last instant

AttemptStatus == {"CONSUMED", "ATTEMPTED", "SUCCEEDED", "FAILED"}

ASSUME NumberAssumption ==
    /\ Budget \in Nat /\ LoopLimit \in Nat \ {0} /\ LoopWindow \in Nat
    /\ GrantTtl \in Nat /\ MaxWait \in Nat /\ MaxTime \in Nat /\ MaxBlocks \in Nat
    /\ Cost \subseteq Nat /\ Life \subseteq Nat \ {0}
ASSUME KeyAssumption == IsFiniteSet(Key)
ASSUME InputAssumption ==
    /\ Report \subseteq AttemptStatus
    /\ Result \subseteq {"passed", "failed"}
    /\ Verdict \subseteq {"APPROVED", "REJECTED"}

(* The rows, and what an envelope and an executor carry.                   *)
Proposal == [agent : Agent, content : Content, blocked : BOOLEAN, created : Nat, expires : Nat]
Decision == [status : {"APPROVED", "REJECTED"}, expires : Nat]
Grant == [agent : Agent, content : Content, status : {"open", "consumed", "revoked"},
          expires : Nat]
Envelope == [agent : Agent, content : Content]
Work == [key : Key, agent : Agent, content : Content]

ASSUME NoneAssumption == None \notin Grant \cup Proposal

VARIABLES
    now,
    proposal,    \* action_proposals row, or None
    invariant,   \* result recorded for the proposal
    lock,        \* holder of the active decision lock, or None
    loop_guard_events, \* number of BLOCK events of the proposal
    decision,    \* decision of the proposal with its human_approvals row, or None
    grant,       \* execution_grants row, or None
    envelope,    \* grant envelope that clients still have and that is not expired, or None
    attempt,     \* status of the execution_attempts row per grant and fingerprint
    spent,       \* sum of the token_cost_ledger per agent
    exhausted,   \* agents with budget_exhausted
    heartbeat,   \* the agent whose heartbeat a run key names, or None
    executor,    \* session: the envelope whose grant it has consumed, or None
    completions  \* per proposal: executions that were answered as recorded

reviewVars  == <<proposal, loop_guard_events, invariant, lock, decision>>
grantVars   == <<grant, envelope, attempt, executor, completions>>
budgetVars  == <<spent, exhausted, heartbeat>>
vars == <<now, reviewVars, grantVars, budgetVars>>

\* The fingerprint an attempt is recorded under: the payload hash of the grant, which
\* the consumption uses, or the hash that the executor derives for the completion.
Fingerprint == {"payload", "complete"}

Later(t) == t > now

Init ==
    /\ now = 0
    /\ proposal = [k \in Key |-> None]
    /\ loop_guard_events = [k \in Key |-> 0]
    /\ invariant = [k \in Key |-> "none"]
    /\ lock = [k \in Key |-> None]
    /\ decision = [k \in Key |-> None]
    /\ grant = [k \in Key |-> None]
    /\ envelope = [k \in Key |-> None]
    /\ attempt = [k \in Key |-> [f \in Fingerprint |-> "none"]]
    /\ spent = [a \in Agent |-> 0]
    /\ exhausted = {}
    /\ heartbeat = [r \in RunKey |-> None]
    /\ executor = [s \in Session |-> None]
    /\ completions = [k \in Key |-> 0]

-----------------------------------------------------------------------------
(* Proposals and their review.                                             *)

\* Proposals that the loop guard counts for a proposal with content x whose
\* transaction started at t: now() is the start, not the end of the wait for the lock.
Equivalent(x, t) ==
    {k \in Key : /\ proposal[k] # None
                 /\ proposal[k].content = x
                 /\ proposal[k].created > t - LoopWindow}

\* Mutant of Blocks: the guard blocks one proposal too late.
BlocksLate(x, t) == Cardinality(Equivalent(x, t)) >= LoopLimit

Blocks(x, t) == Cardinality(Equivalent(x, t)) + 1 >= LoopLimit

\* A known key returns the existing proposal and changes nothing, whatever the content.
\* A blocked proposal stays, with its event.
create_proposal(k, a, x, started, life) ==
    /\ proposal[k] = None
    /\ proposal' = [proposal EXCEPT ![k] =
            [agent |-> a, content |-> x, blocked |-> Blocks(x, started),
             created |-> started, expires |-> started + life]]
    /\ loop_guard_events' =
            [loop_guard_events EXCEPT ![k] = IF Blocks(x, started) THEN 1 ELSE 0]
    /\ UNCHANGED <<now, invariant, lock, decision, grantVars, budgetVars>>

\* Nothing makes the events of a proposal unique: each evaluation adds one.
evaluate_loop_guard(k) ==
    /\ proposal[k] # None /\ proposal[k].blocked
    /\ loop_guard_events[k] < MaxBlocks
    /\ loop_guard_events' = [loop_guard_events EXCEPT ![k] = @ + 1]
    /\ UNCHANGED <<now, proposal, invariant, lock, decision, grantVars, budgetVars>>

\* The first result of an invariant stays (ON CONFLICT DO NOTHING).
record_invariant(k, result) ==
    /\ proposal[k] # None
    /\ invariant[k] = "none"
    /\ invariant' = [invariant EXCEPT ![k] = result]
    /\ UNCHANGED <<now, proposal, loop_guard_events, lock, decision, grantVars, budgetVars>>

acquire_decision_lock(k, h) ==
    /\ proposal[k] # None
    /\ lock[k] = None
    /\ lock' = [lock EXCEPT ![k] = h]
    /\ UNCHANGED <<now, proposal, loop_guard_events, invariant, decision, grantVars, budgetVars>>

release_decision_lock(k, h) ==
    /\ lock[k] = h
    /\ lock' = [lock EXCEPT ![k] = None]
    /\ UNCHANGED <<now, proposal, loop_guard_events, invariant, decision, grantVars, budgetVars>>

\* Only the owner decides, once; nothing looks at locks or at the expiry of the proposal.
decide(k, status, expires) ==
    /\ proposal[k] # None
    /\ decision[k] = None
    /\ proposal[k].agent # Owner
    /\ decision' = [decision EXCEPT ![k] = [status |-> status, expires |-> expires]]
    /\ UNCHANGED <<now, proposal, loop_guard_events, invariant, lock, grantVars, budgetVars>>

-----------------------------------------------------------------------------
(* Grants.                                                                 *)

Approved(k) == decision[k] # None /\ decision[k].status = "APPROVED"

Issuable(k) ==
    /\ proposal[k] # None
    /\ grant[k] = None
    /\ ~proposal[k].blocked
    /\ lock[k] = None
    /\ invariant[k] # "failed"
    /\ proposal[k].agent \notin exhausted
    /\ Approved(k) /\ Later(decision[k].expires)

\* The route takes agent and content of the grant envelope from a proposal envelope; a
\* replay of create_proposal signs one for the agent and the content of the replay.
Signed(a, x) == [agent |-> a, content |-> x]

issue_grant(k, a, x) ==
    /\ Issuable(k)
    /\ grant' = [grant EXCEPT ![k] =
            [agent |-> proposal[k].agent, content |-> proposal[k].content, status |-> "open",
             expires |-> IF proposal[k].expires < now + GrantTtl
                         THEN proposal[k].expires ELSE now + GrantTtl]]
    /\ envelope' = [envelope EXCEPT ![k] = Signed(a, x)]
    /\ UNCHANGED <<now, reviewVars, attempt, executor, completions, budgetVars>>

\* Mutant of Usable: expires_at is not compared.
UsableForEver(k) == grant[k] # None /\ grant[k].status = "open"

Usable(k) == grant[k] # None /\ grant[k].status = "open" /\ Later(grant[k].expires)

revoke_grant(k) ==
    /\ Usable(k)
    /\ grant' = [grant EXCEPT ![k].status = "revoked"]
    /\ UNCHANGED <<now, reviewVars, envelope, attempt, executor, completions, budgetVars>>

\* Mutant of Bound: the payload hash of the envelope is not compared.
BoundToAgent(k) == grant[k].agent = envelope[k].agent

Bound(k) ==
    /\ grant[k].agent = envelope[k].agent
    /\ grant[k].content = envelope[k].content

\* Mutant of consume_grant: a consumed grant is accepted, and its attempt kept.
ConsumeAgain(s, k) ==
    /\ executor[s] = None
    /\ envelope[k] # None
    /\ grant[k].status # "revoked" /\ Later(grant[k].expires)
    /\ Bound(k)
    /\ grant' = [grant EXCEPT ![k].status = "consumed"]
    /\ attempt' = [attempt EXCEPT ![k]["payload"] = "CONSUMED"]
    /\ executor' = [executor EXCEPT ![s] =
            [key |-> k, agent |-> envelope[k].agent, content |-> envelope[k].content]]
    /\ UNCHANGED <<now, reviewVars, envelope, completions, budgetVars>>

\* An attempt that was reported under the payload hash makes the INSERT of the
\* consumption fail, which undoes the whole call.
consume_grant(s, k) ==
    /\ executor[s] = None
    /\ envelope[k] # None
    /\ Usable(k)
    /\ Bound(k)
    /\ attempt[k]["payload"] = "none"
    /\ grant' = [grant EXCEPT ![k].status = "consumed"]
    /\ attempt' = [attempt EXCEPT ![k]["payload"] = "CONSUMED"]
    /\ executor' = [executor EXCEPT ![s] =
            [key |-> k, agent |-> envelope[k].agent, content |-> envelope[k].content]]
    /\ UNCHANGED <<now, reviewVars, envelope, completions, budgetVars>>

\* ON CONFLICT DO NOTHING: the first status of a fingerprint stays.
Recorded(k, f, status) ==
    [attempt EXCEPT ![k][f] = IF @ = "none" THEN status ELSE @]

\* The second transaction of the executor.
record_completion(s) ==
    /\ executor[s] # None
    /\ LET k == executor[s].key IN
        /\ attempt' = Recorded(k, "complete", "SUCCEEDED")
        /\ completions' = [completions EXCEPT ![k] = @ + 1]
    /\ executor' = [executor EXCEPT ![s] = None]
    /\ UNCHANGED <<now, reviewVars, grant, envelope, budgetVars>>

\* The attempts route asks for an envelope of the grant, not for a consumed grant, and
\* compares everything but the payload hash.
record_execution_attempt(k, f, status) ==
    /\ envelope[k] # None
    /\ grant[k].agent = envelope[k].agent
    /\ attempt' = Recorded(k, f, status)
    /\ UNCHANGED <<now, reviewVars, grant, envelope, executor, completions, budgetVars>>

ExecutorDies(s) ==
    /\ executor[s] # None
    /\ executor' = [executor EXCEPT ![s] = None]
    /\ UNCHANGED <<now, reviewVars, grant, envelope, attempt, completions, budgetVars>>

\* The envelope expires, or the answer that carried it was lost; none is signed again.
EnvelopeGone(k) ==
    /\ envelope[k] # None
    /\ envelope' = [envelope EXCEPT ![k] = None]
    /\ UNCHANGED <<now, reviewVars, grant, attempt, executor, completions, budgetVars>>

-----------------------------------------------------------------------------
(* Budgets and time.                                                       *)

Affordable(a, c) == a \notin exhausted /\ Budget - spent[a] - c >= 0

\* Mutant of record_token_cost: the ledger is netted with the wrong sign.
CreditTokenCost(a, c) ==
    /\ Affordable(a, c)
    /\ spent' = [spent EXCEPT ![a] = @ - c]
    /\ UNCHANGED <<now, reviewVars, grantVars, exhausted, heartbeat>>

record_token_cost(a, c) ==
    /\ \/ /\ Affordable(a, c)
          /\ spent' = [spent EXCEPT ![a] = @ + c]
          /\ UNCHANGED exhausted
       \/ /\ ~Affordable(a, c)
          /\ exhausted' = exhausted \cup {a}
          /\ UNCHANGED spent
    /\ UNCHANGED <<now, reviewVars, grantVars, heartbeat>>

\* A run key that another agent has used is a duplicate, too.
record_heartbeat(a, r) ==
    /\ heartbeat[r] = None
    /\ heartbeat' = [heartbeat EXCEPT ![r] = a]
    /\ UNCHANGED <<now, reviewVars, grantVars, spent, exhausted>>

Tick ==
    /\ now < MaxTime
    /\ now' = now + 1
    /\ UNCHANGED <<reviewVars, grantVars, budgetVars>>

\* The routes: each resolves its caller in a transaction of the order database and
\* then calls one privileged function; a denial is answered 403 or 409.
PostProposal(k) ==
    \E a \in Agent, x \in Content, wait \in 0..MaxWait, life \in Life :
        wait <= now /\ create_proposal(k, a, x, now - wait, life)

PostInvariant(k) == \E result \in Result : record_invariant(k, result)

ChangeDecisionLock(k) == \E h \in Holder : acquire_decision_lock(k, h) \/ release_decision_lock(k, h)

PostDecision(k) == \E status \in Verdict, life \in Life : decide(k, status, now + life)

PostLoopGuard(k) == evaluate_loop_guard(k)

Review(k) == PostProposal(k) \/ PostInvariant(k) \/ ChangeDecisionLock(k) \/ PostDecision(k)

PostRevocation(k) == revoke_grant(k)

PostAttempt(k) == \E f \in Fingerprint, status \in Report : record_execution_attempt(k, f, status)

Granting(k) ==
    \/ \E a \in Agent, x \in Content : issue_grant(k, a, x)
    \/ PostRevocation(k)
    \/ PostAttempt(k)
    \/ EnvelopeGone(k)

PostConsumption(s) == \E k \in Key : consume_grant(s, k)

Executing(s) ==
    \/ PostConsumption(s)
    \/ record_completion(s)
    \/ ExecutorDies(s)

PostTokenCost == \E a \in Agent, c \in Cost : record_token_cost(a, c)

PostHeartbeat == \E a \in Agent, r \in RunKey : record_heartbeat(a, r)

Reporting == PostHeartbeat \/ PostTokenCost \/ \E k \in Key : PostLoopGuard(k)

Next ==
    \/ \E k \in Key : Review(k) \/ Granting(k)
    \/ \E s \in Session : Executing(s)
    \/ Reporting
    \/ Tick

Spec == Init /\ [][Next]_vars

-----------------------------------------------------------------------------
(* Properties.                                                             *)

\* Every row has its columns, and grants and envelopes belong to proposals.
TypeOK ==
    /\ now \in Nat
    /\ proposal \in [Key -> Proposal \cup {None}]
    /\ invariant \in [Key -> {"none", "passed", "failed"}]
    /\ lock \in [Key -> Holder \cup {None}]
    /\ decision \in [Key -> Decision \cup {None}]
    /\ grant \in [Key -> Grant \cup {None}]
    /\ envelope \in [Key -> Envelope \cup {None}]
    /\ attempt \in [Key -> [Fingerprint -> AttemptStatus \cup {"none"}]]
    /\ spent \in [Agent -> Nat]
    /\ exhausted \subseteq Agent
    /\ heartbeat \in [RunKey -> Agent \cup {None}]
    /\ loop_guard_events \in [Key -> Nat]
    /\ executor \in [Session -> Work \cup {None}]
    /\ completions \in [Key -> Nat]

\* What the executor carries out is the agent's own proposal, byte for byte, which the
\* owner approved and the loop guard let pass, although envelopes are signed for any
\* content that a replay of the proposal names.
ExecutedAsApproved ==
    \A s \in Session : executor[s] # None =>
        LET p == proposal[executor[s].key] IN
        /\ p # None
        /\ executor[s].agent = p.agent
        /\ executor[s].content = p.content
        /\ ~p.blocked
        /\ Approved(executor[s].key)

Working(k) == {s \in Session : executor[s] # None /\ executor[s].key = k}

\* An approved action is executed at most once, by one executor, on a grant that stays
\* consumed, however many requests, deaths and reported attempts there are.
ExecutedOnce ==
    \A k \in Key :
        /\ \A s, t \in Working(k) : s = t
        /\ completions[k] <= 1
        /\ completions[k] = 1 => Working(k) = {}
        /\ completions[k] = 1 \/ Working(k) # {} =>
              grant[k] # None /\ grant[k].status = "consumed"

\* A grant that was issued is never issued again, moved to other content, extended, or
\* taken out of its final status; one that has run out can be used for nothing.
GrantsAreOneShot ==
    [][\A k \in Key : grant[k] # None /\ grant'[k] # grant[k] =>
            /\ grant[k].status = "open" /\ now < grant[k].expires
            /\ grant'[k] \in {[grant[k] EXCEPT !.status = "consumed"],
                              [grant[k] EXCEPT !.status = "revoked"]}]_vars

PassedIn(x, t) ==
    {k \in Key : /\ proposal[k] # None
                 /\ proposal[k].content = x
                 /\ ~proposal[k].blocked
                 /\ proposal[k].created <= t
                 /\ proposal[k].created > t - LoopWindow}

NoFullWindow ==
    \A x \in Content, t \in 0..MaxTime : Cardinality(PassedIn(x, t)) < LoopLimit

BlocksAreRecorded ==
    \A k \in Key : loop_guard_events[k] > 0 <=> proposal[k] # None /\ proposal[k].blocked

\* No window of ten minutes holds LoopLimit equivalent proposals that passed the guard,
\* although transactions that wait for the lock are recorded with an earlier time than
\* others that were committed before them; and exactly the blocked proposals have events.
LoopGuardHolds == NoFullWindow /\ BlocksAreRecorded

=============================================================================
