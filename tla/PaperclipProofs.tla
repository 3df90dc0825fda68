-------------------------- MODULE PaperclipProofs --------------------------
(***************************************************************************)
(* Theorems about Paperclip for all sets of keys, agents, contents and     *)
(* sessions, all budgets, limits and windows.                              *)
(***************************************************************************)
EXTENDS Paperclip, FiniteSetTheorems, TLAPS

(* Every step is one of the actions, or a stutter: the case split that the *)
(* proofs below share.                                                     *)
Step ==
    \/ \E k \in Key, a \in Agent, x \in Content, started \in Nat, life \in Life :
          create_proposal(k, a, x, started, life)
    \/ \E k \in Key, result \in Result : record_invariant(k, result)
    \/ \E k \in Key, h \in Holder : acquire_decision_lock(k, h)
    \/ \E k \in Key, h \in Holder : release_decision_lock(k, h)
    \/ \E k \in Key, status \in Verdict, life \in Life : decide(k, status, now + life)
    \/ \E k \in Key, a \in Agent, x \in Content : issue_grant(k, a, x)
    \/ \E k \in Key : revoke_grant(k)
    \/ \E k \in Key, f \in Fingerprint, status \in Report :
          record_execution_attempt(k, f, status)
    \/ \E k \in Key : EnvelopeGone(k)
    \/ \E s \in Session, k \in Key : consume_grant(s, k)
    \/ \E s \in Session : record_completion(s)
    \/ \E s \in Session : ExecutorDies(s)
    \/ \E a \in Agent, c \in Cost : record_token_cost(a, c)
    \/ \E a \in Agent, r \in RunKey : record_heartbeat(a, r)
    \/ \E k \in Key : evaluate_loop_guard(k)
    \/ Tick
    \/ UNCHANGED vars

LEMMA NextIsStep ==
    ASSUME TypeOK, [Next]_vars
    PROVE  Step
<1>1. \A wait \in 0..MaxWait : wait <= now => now - wait \in Nat
    BY NumberAssumption DEF TypeOK
<1>2. CASE \E k \in Key : Review(k)
    BY <1>1, <1>2 DEF Review, PostProposal, PostInvariant, ChangeDecisionLock, PostDecision, Step
<1>3. CASE \E k \in Key : Granting(k)
    BY <1>3 DEF Granting, PostRevocation, PostAttempt, Step
<1>4. CASE \E s \in Session : Executing(s)
    BY <1>4 DEF Executing, PostConsumption, Step
<1>5. CASE Reporting
    BY <1>5 DEF Reporting, PostTokenCost, PostHeartbeat, PostLoopGuard, Step
<1>6. CASE Tick
    BY <1>6 DEF Step
<1>7. CASE UNCHANGED vars
    BY <1>7 DEF Step
<1>8. QED
    BY <1>2, <1>3, <1>4, <1>5, <1>6, <1>7 DEF Next

-----------------------------------------------------------------------------
(* Types.                                                                  *)

LEMMA TypeInit == Init => TypeOK
    BY NumberAssumption DEF Init, TypeOK

LEMMA TypeStep ==
    ASSUME TypeOK, [Next]_vars
    PROVE  TypeOK'
<1>0. Step
    BY NextIsStep
<1> USE DEF TypeOK, reviewVars, grantVars, budgetVars
<1>1. ASSUME NEW k \in Key, NEW a \in Agent, NEW x \in Content, NEW started \in Nat,
             NEW life \in Life, create_proposal(k, a, x, started, life)
      PROVE  TypeOK'
    <2>1. started + life \in Nat
        BY NumberAssumption
    <2>2. Blocks(x, started) \in BOOLEAN
        BY DEF Blocks
    <2>3. [agent |-> a, content |-> x, blocked |-> Blocks(x, started),
           created |-> started, expires |-> started + life] \in Proposal
        BY <2>1, <2>2 DEF Proposal
    <2>4. QED
        BY <1>1, <2>3 DEF create_proposal
<1>2. ASSUME NEW k \in Key, NEW result \in Result, record_invariant(k, result)
      PROVE  TypeOK'
    BY <1>2, InputAssumption DEF record_invariant
<1>3. ASSUME NEW k \in Key, NEW h \in Holder, acquire_decision_lock(k, h)
      PROVE  TypeOK'
    BY <1>3 DEF acquire_decision_lock
<1>4. ASSUME NEW k \in Key, NEW h \in Holder, release_decision_lock(k, h)
      PROVE  TypeOK'
    BY <1>4 DEF release_decision_lock
<1>5. ASSUME NEW k \in Key, NEW status \in Verdict, NEW life \in Life,
             decide(k, status, now + life)
      PROVE  TypeOK'
    <2>1. [status |-> status, expires |-> now + life] \in Decision
        BY NumberAssumption, InputAssumption DEF Decision
    <2>2. QED
        BY <1>5, <2>1 DEF decide
<1>6. ASSUME NEW k \in Key, NEW a \in Agent, NEW x \in Content, issue_grant(k, a, x)
      PROVE  TypeOK'
    <2>1. proposal[k] \in Proposal
        BY <1>6 DEF issue_grant, Issuable
    <2>2. [agent |-> proposal[k].agent, content |-> proposal[k].content, status |-> "open",
           expires |-> IF proposal[k].expires < now + GrantTtl
                       THEN proposal[k].expires ELSE now + GrantTtl] \in Grant
        BY <2>1, NumberAssumption DEF Proposal, Grant
    <2>3. Signed(a, x) \in Envelope
        BY DEF Signed, Envelope
    <2>4. QED
        BY <1>6, <2>2, <2>3 DEF issue_grant
<1>7. ASSUME NEW k \in Key, revoke_grant(k)
      PROVE  TypeOK'
    <2>1. grant[k] \in Grant
        BY <1>7 DEF revoke_grant, Usable
    <2>2. [grant[k] EXCEPT !.status = "revoked"] \in Grant
        BY <2>1 DEF Grant
    <2>3. QED
        BY <1>7, <2>2 DEF revoke_grant
<1>8. ASSUME NEW k \in Key, NEW f \in Fingerprint, NEW status \in Report,
             record_execution_attempt(k, f, status)
      PROVE  TypeOK'
    BY <1>8, InputAssumption DEF record_execution_attempt, Recorded
<1>9. ASSUME NEW k \in Key, EnvelopeGone(k)
      PROVE  TypeOK'
    BY <1>9 DEF EnvelopeGone
<1>10. ASSUME NEW s \in Session, NEW k \in Key, consume_grant(s, k)
       PROVE  TypeOK'
    <2>1. grant[k] \in Grant /\ envelope[k] \in Envelope
        BY <1>10 DEF consume_grant, Usable
    <2>2. [grant[k] EXCEPT !.status = "consumed"] \in Grant
        BY <2>1 DEF Grant
    <2>3. [key |-> k, agent |-> envelope[k].agent, content |-> envelope[k].content] \in Work
        BY <2>1 DEF Envelope, Work
    <2>4. attempt' \in [Key -> [Fingerprint -> AttemptStatus \cup {"none"}]]
        BY <1>10 DEF consume_grant, AttemptStatus
    <2>5. QED
        BY <1>10, <2>2, <2>3, <2>4 DEF consume_grant
<1>11. ASSUME NEW s \in Session, record_completion(s)
       PROVE  TypeOK'
    <2>1. executor[s].key \in Key
        BY <1>11 DEF record_completion, Work
    <2>2. attempt' \in [Key -> [Fingerprint -> AttemptStatus \cup {"none"}]]
        BY ZenonT(30), <1>11, <2>1 DEF record_completion, Recorded, AttemptStatus
    <2>3. QED
        BY <1>11, <2>1, <2>2 DEF record_completion
<1>12. ASSUME NEW s \in Session, ExecutorDies(s)
       PROVE  TypeOK'
    BY <1>12 DEF ExecutorDies
<1>13. ASSUME NEW a \in Agent, NEW c \in Cost, record_token_cost(a, c)
       PROVE  TypeOK'
    <2>1. spent' \in [Agent -> Nat]
        BY <1>13, NumberAssumption DEF record_token_cost
    <2>2. exhausted' \subseteq Agent
        BY <1>13 DEF record_token_cost
    <2>3. QED
        BY <1>13, <2>1, <2>2 DEF record_token_cost
<1>14. ASSUME NEW a \in Agent, NEW r \in RunKey, record_heartbeat(a, r)
       PROVE  TypeOK'
    BY <1>14 DEF record_heartbeat
<1>15. ASSUME NEW k \in Key, evaluate_loop_guard(k)
       PROVE  TypeOK'
    BY <1>15 DEF evaluate_loop_guard
<1>16. CASE Tick
    BY <1>16 DEF Tick
<1>17. CASE UNCHANGED vars
    BY <1>17 DEF vars
<1>18. QED
    BY <1>0, <1>1, <1>2, <1>3, <1>4, <1>5, <1>6, <1>7, <1>8, <1>9, <1>10, <1>11, <1>12,
       <1>13, <1>14, <1>15, <1>16, <1>17 DEF Step

(* Every state of the governance database and of its executors is well     *)
(* typed.                                                                  *)
THEOREM TypeCorrect == Spec => []TypeOK
<1>1. QED
    BY TypeInit, TypeStep, PTL DEF Spec

-----------------------------------------------------------------------------
(* The grant carries the decision from the review to the executor: what it *)
(* says of a proposal stays true, because proposals and decisions never    *)
(* change once they are there.                                             *)

GrantSound ==
    \A k \in Key : grant[k] # None =>
        /\ proposal[k] # None
        /\ grant[k].agent = proposal[k].agent
        /\ grant[k].content = proposal[k].content
        /\ ~proposal[k].blocked
        /\ Approved(k)

ApprovalInv == GrantSound /\ ExecutedAsApproved

LEMMA ApprovalInit == Init => ApprovalInv
    BY DEF Init, ApprovalInv, GrantSound, ExecutedAsApproved

LEMMA ReviewIsKept ==
    ASSUME TypeOK, [Next]_vars,
           NEW k \in Key, proposal[k] # None, Approved(k)
    PROVE  proposal'[k] = proposal[k] /\ Approved(k)'
<1>0. Step
    BY NextIsStep
<1>1. ASSUME NEW j \in Key, NEW a \in Agent, NEW x \in Content, NEW started \in Nat,
             NEW life \in Life, create_proposal(j, a, x, started, life)
      PROVE  proposal'[k] = proposal[k] /\ Approved(k)'
    BY <1>1 DEF create_proposal, Approved, TypeOK
<1>2. ASSUME NEW j \in Key, NEW status \in Verdict, NEW life \in Life,
             decide(j, status, now + life)
      PROVE  proposal'[k] = proposal[k] /\ Approved(k)'
    BY <1>2 DEF decide, Approved, TypeOK
<1>3. CASE UNCHANGED <<proposal, decision>>
    BY <1>3 DEF Approved
<1>4. QED
    BY <1>0, <1>1, <1>2, <1>3
    DEF Step, vars, reviewVars, record_invariant, acquire_decision_lock,
        release_decision_lock, issue_grant, revoke_grant, record_execution_attempt,
        EnvelopeGone, consume_grant, record_completion, ExecutorDies, record_token_cost, record_heartbeat,
        evaluate_loop_guard, Tick

LEMMA ApprovalStep ==
    ASSUME TypeOK, ApprovalInv, [Next]_vars
    PROVE  ApprovalInv'
<1>0. Step
    BY NextIsStep
<1>1. \A k \in Key : grant[k] # None =>
         proposal[k] # None /\ proposal'[k] = proposal[k] /\ Approved(k)'
    BY ReviewIsKept DEF ApprovalInv, GrantSound
<1>2. \A s \in Session : executor[s] # None =>
         /\ proposal'[executor[s].key] = proposal[executor[s].key]
         /\ decision'[executor[s].key] # None
         /\ decision'[executor[s].key].status = "APPROVED"
    <2> SUFFICES ASSUME NEW s \in Session, executor[s] # None, NEW k \in Key,
                        k = executor[s].key
                 PROVE  /\ proposal'[k] = proposal[k]
                        /\ decision'[k] # None /\ decision'[k].status = "APPROVED"
        BY DEF TypeOK, Work
    <2>1. proposal[k] # None /\ Approved(k)
        BY DEF ApprovalInv, ExecutedAsApproved
    <2>2. QED
        BY <2>1, ReviewIsKept DEF Approved
<1>3. CASE UNCHANGED <<grant, executor>>
    BY <1>1, <1>2, <1>3 DEF ApprovalInv, GrantSound, ExecutedAsApproved, Approved
<1>4. ASSUME NEW k \in Key, NEW a \in Agent, NEW x \in Content, issue_grant(k, a, x)
      PROVE  ApprovalInv'
    <2>1. UNCHANGED <<proposal, decision, executor>>
        BY <1>4 DEF issue_grant, reviewVars
    <2>2. ExecutedAsApproved'
        BY <2>1 DEF ApprovalInv, ExecutedAsApproved, Approved
    <2>3. GrantSound'
        BY <1>4, <2>1 DEF ApprovalInv, GrantSound, issue_grant, Issuable, Approved, TypeOK
    <2>4. QED
        BY <2>2, <2>3 DEF ApprovalInv
<1>5. ASSUME NEW k \in Key, revoke_grant(k)
      PROVE  ApprovalInv'
    <2>1. UNCHANGED <<proposal, decision, executor>>
        BY <1>5 DEF revoke_grant, reviewVars
    <2>2. ExecutedAsApproved'
        BY <2>1 DEF ApprovalInv, ExecutedAsApproved, Approved
    <2>3. GrantSound'
        BY <1>5, <2>1 DEF ApprovalInv, GrantSound, revoke_grant, Usable, Approved, TypeOK, Grant
    <2>4. QED
        BY <2>2, <2>3 DEF ApprovalInv
<1>6. ASSUME NEW s \in Session, NEW k \in Key, consume_grant(s, k)
      PROVE  ApprovalInv'
    <2>1. UNCHANGED <<proposal, decision>>
        BY <1>6 DEF consume_grant, reviewVars
    <2>2. GrantSound'
        BY <1>6, <2>1 DEF ApprovalInv, GrantSound, consume_grant, Usable, Approved, TypeOK, Grant
    <2>3. /\ executor' = [executor EXCEPT ![s] =
                [key |-> k, agent |-> envelope[k].agent, content |-> envelope[k].content]]
          /\ envelope[k].agent = proposal[k].agent
          /\ envelope[k].content = proposal[k].content
          /\ proposal[k] # None /\ ~proposal[k].blocked /\ Approved(k)
        BY <1>6 DEF consume_grant, Usable, Bound, ApprovalInv, GrantSound
    <2>4. ExecutedAsApproved'
        BY <2>1, <2>3 DEF ApprovalInv, ExecutedAsApproved, Approved, TypeOK
    <2>5. QED
        BY <2>2, <2>4 DEF ApprovalInv
<1>7. ASSUME NEW s \in Session, executor' = [executor EXCEPT ![s] = None],
             UNCHANGED <<proposal, decision, grant>>
      PROVE  ApprovalInv'
    BY <1>7 DEF ApprovalInv, GrantSound, ExecutedAsApproved, Approved, TypeOK
<1>8. QED
    BY <1>0, <1>3, <1>4, <1>5, <1>6, <1>7
    DEF Step, vars, reviewVars, grantVars, create_proposal, record_invariant,
        acquire_decision_lock, release_decision_lock, decide, record_execution_attempt,
        EnvelopeGone, record_completion, ExecutorDies, record_token_cost, record_heartbeat,
        evaluate_loop_guard, Tick

(* What an executor carries out is the proposal that the owner approved:   *)
(* its agent, its content, not blocked by the loop guard.                  *)
THEOREM ExecutionIsApproved == Spec => []ExecutedAsApproved
<1>1. TypeOK /\ ApprovalInv /\ [Next]_vars => ApprovalInv'
    BY ApprovalStep
<1>2. ApprovalInv => ExecutedAsApproved
    BY DEF ApprovalInv
<1>3. QED
    BY ApprovalInit, TypeCorrect, <1>1, <1>2, PTL DEF Spec

-----------------------------------------------------------------------------
(* Single use.  ExecutedOnce is inductive: a grant that is open has nobody *)
(* working for it and no completion, and leaves that state for good.       *)

LEMMA OnceInit == Init => ExecutedOnce
    BY DEF Init, ExecutedOnce, Working

LEMMA OnceStep ==
    ASSUME TypeOK, ExecutedOnce, [Next]_vars
    PROVE  ExecutedOnce'
<1>0. Step
    BY NextIsStep
<1>1. CASE UNCHANGED <<grant, executor, completions>>
    BY <1>1 DEF ExecutedOnce, Working
<1>2. ASSUME NEW k \in Key, NEW a \in Agent, NEW x \in Content, issue_grant(k, a, x)
      PROVE  ExecutedOnce'
    <2>1. grant[k] = None /\ UNCHANGED <<executor, completions>>
        BY <1>2 DEF issue_grant, Issuable
    <2>2. \A j \in Key : j # k => grant'[j] = grant[j]
        BY <1>2 DEF issue_grant, TypeOK
    <2>3. QED
        BY <2>1, <2>2 DEF ExecutedOnce, Working
<1>3. ASSUME NEW k \in Key, revoke_grant(k)
      PROVE  ExecutedOnce'
    <2>1. grant[k].status = "open" /\ UNCHANGED <<executor, completions>>
        BY <1>3 DEF revoke_grant, Usable
    <2>2. \A j \in Key : j # k => grant'[j] = grant[j]
        BY <1>3 DEF revoke_grant, TypeOK
    <2>3. QED
        BY <2>1, <2>2 DEF ExecutedOnce, Working
<1>4. ASSUME NEW s \in Session, NEW k \in Key, consume_grant(s, k)
      PROVE  ExecutedOnce'
    <2> DEFINE w == [key |-> k, agent |-> envelope[k].agent, content |-> envelope[k].content]
    <2>1. /\ executor[s] = None /\ grant[k] # None /\ grant[k].status = "open"
          /\ executor' = [executor EXCEPT ![s] = w]
          /\ grant' = [grant EXCEPT ![k].status = "consumed"]
          /\ UNCHANGED completions
        BY <1>4 DEF consume_grant, Usable
    <2>2. Working(k) = {} /\ completions[k] # 1 /\ completions[k] <= 1
        BY <2>1 DEF ExecutedOnce
    <2>3. \A j \in Key : j # k => grant'[j] = grant[j] /\ Working(j)' = Working(j)
        BY <2>1 DEF TypeOK, Working
    <2>4. Working(k)' \subseteq {s}
        BY <2>1, <2>2 DEF TypeOK, Working
    <2>5. grant[k] \in Grant
        BY <2>1 DEF TypeOK
    <2>6. grant'[k].status = "consumed"
        BY <2>1, <2>5 DEF TypeOK, Grant
    <2>7. grant'[k] # None
        <3>1. grant'[k] = [grant[k] EXCEPT !.status = "consumed"]
            BY <2>1 DEF TypeOK
        <3>2. [grant[k] EXCEPT !.status = "consumed"] \in Grant
            BY <2>5 DEF Grant
        <3>3. QED
            BY <3>1, <3>2, NoneAssumption
    <2>8. QED
        BY <2>1, <2>2, <2>3, <2>4, <2>6, <2>7 DEF ExecutedOnce
<1>5. ASSUME NEW s \in Session, record_completion(s)
      PROVE  ExecutedOnce'
    <2> SUFFICES ASSUME NEW k \in Key, k = executor[s].key
                 PROVE  ExecutedOnce'
        BY <1>5 DEF record_completion, TypeOK, Work
    <2>1. /\ executor[s] # None
          /\ executor' = [executor EXCEPT ![s] = None]
          /\ completions' = [completions EXCEPT ![k] = @ + 1]
          /\ UNCHANGED grant
        BY <1>5 DEF record_completion
    <2>2. s \in Working(k)
        BY <2>1 DEF Working
    <2>3. /\ \A t \in Working(k) : t = s
          /\ completions[k] = 0
          /\ grant[k] # None /\ grant[k].status = "consumed"
        <3>1. Working(k) # {}
            BY <2>2
        <3>2. \A t \in Working(k) : t = s
            BY <2>2 DEF ExecutedOnce
        <3>3. completions[k] <= 1 /\ completions[k] # 1 /\ completions[k] \in Nat
            BY <3>1 DEF ExecutedOnce, TypeOK
        <3>4. grant[k] # None /\ grant[k].status = "consumed"
            BY <3>1 DEF ExecutedOnce
        <3>5. QED
            BY <3>2, <3>3, <3>4
    <2>4. Working(k)' = {} /\ completions'[k] = 1
        BY <2>1, <2>3 DEF Working, TypeOK
    <2>5. \A j \in Key : j # k => Working(j)' = Working(j) /\ completions'[j] = completions[j]
        BY <2>1 DEF Working, TypeOK
    <2>6. QED
        BY <2>1, <2>3, <2>4, <2>5 DEF ExecutedOnce
<1>6. ASSUME NEW s \in Session, ExecutorDies(s)
      PROVE  ExecutedOnce'
    <2>1. UNCHANGED <<grant, completions>> /\ executor' = [executor EXCEPT ![s] = None]
        BY <1>6 DEF ExecutorDies
    <2>2. \A j \in Key : Working(j)' \subseteq Working(j)
        BY <2>1 DEF Working, TypeOK
    <2>3. QED
        BY <2>1, <2>2 DEF ExecutedOnce
<1>7. QED
    BY <1>0, <1>1, <1>2, <1>3, <1>4, <1>5, <1>6
    DEF Step, vars, grantVars, create_proposal, record_invariant, acquire_decision_lock,
        release_decision_lock, decide, record_execution_attempt, EnvelopeGone,
        record_token_cost, record_heartbeat, evaluate_loop_guard, Tick

(* An approved action is executed at most once and by one executor.        *)
THEOREM ExecutionIsOnce == Spec => []ExecutedOnce
<1>1. TypeOK /\ ExecutedOnce /\ [Next]_vars => ExecutedOnce'
    BY OnceStep
<1>2. QED
    BY OnceInit, TypeCorrect, <1>1, PTL DEF Spec

-----------------------------------------------------------------------------
(* The life of a grant.                                                    *)

OneShotStep ==
    \A k \in Key : grant[k] # None /\ grant'[k] # grant[k] =>
        /\ grant[k].status = "open" /\ now < grant[k].expires
        /\ grant'[k] \in {[grant[k] EXCEPT !.status = "consumed"],
                          [grant[k] EXCEPT !.status = "revoked"]}

LEMMA OneShot ==
    ASSUME TypeOK, [Next]_vars
    PROVE  OneShotStep
<1>0. Step
    BY NextIsStep
<1>1. ASSUME NEW k \in Key, NEW a \in Agent, NEW x \in Content, issue_grant(k, a, x)
      PROVE  OneShotStep
    BY <1>1 DEF issue_grant, Issuable, OneShotStep, TypeOK
<1>2. ASSUME NEW k \in Key, revoke_grant(k)
      PROVE  OneShotStep
    <2>1. /\ grant[k].status = "open" /\ grant[k].expires > now /\ grant[k] \in Grant
          /\ grant' = [grant EXCEPT ![k].status = "revoked"]
        BY <1>2 DEF revoke_grant, Usable, Later, TypeOK
    <2>2. QED
        BY <2>1 DEF OneShotStep, TypeOK, Grant
<1>3. ASSUME NEW s \in Session, NEW k \in Key, consume_grant(s, k)
      PROVE  OneShotStep
    <2>1. /\ grant[k].status = "open" /\ grant[k].expires > now /\ grant[k] \in Grant
          /\ grant' = [grant EXCEPT ![k].status = "consumed"]
        BY <1>3 DEF consume_grant, Usable, Later, TypeOK
    <2>2. QED
        BY <2>1 DEF OneShotStep, TypeOK, Grant
<1>4. CASE UNCHANGED grant
    BY <1>4 DEF OneShotStep
<1>5. QED
    BY <1>0, <1>1, <1>2, <1>3, <1>4
    DEF Step, vars, grantVars, create_proposal, record_invariant, acquire_decision_lock,
        release_decision_lock, decide, record_execution_attempt, EnvelopeGone,
        record_completion, ExecutorDies, record_token_cost, record_heartbeat,
        evaluate_loop_guard, Tick

(* A grant never changes but from open to consumed or to revoked, and only *)
(* before it expires.                                                      *)
THEOREM GrantsAreUsedOnce == Spec => GrantsAreOneShot
<1>1. TypeOK /\ [Next]_vars => [OneShotStep]_vars
    BY OneShot
<1>2. Spec => [][OneShotStep]_vars
    BY TypeCorrect, <1>1, PTL DEF Spec
<1>3. QED
    BY <1>2 DEF GrantsAreOneShot, OneShotStep

-----------------------------------------------------------------------------
(* The loop guard.  Whatever the order in which proposals with different   *)
(* start times commit, the last one of a window to commit has counted all  *)
(* others of that window.                                                  *)

LEMMA ProposalsAreFinite ==
    ASSUME NEW S, S \subseteq Key
    PROVE  IsFiniteSet(S) /\ Cardinality(S) \in Nat
    BY KeyAssumption, FS_Subset, FS_CardinalityType

LEMMA GuardInit == Init => NoFullWindow
<1> SUFFICES ASSUME Init, NEW x \in Content, NEW t \in 0..MaxTime
             PROVE  Cardinality(PassedIn(x, t)) < LoopLimit
    BY DEF NoFullWindow
<1>1. PassedIn(x, t) = {}
    BY DEF Init, PassedIn
<1>2. QED
    BY <1>1, FS_EmptySet, NumberAssumption

LEMMA GuardStep ==
    ASSUME TypeOK, NoFullWindow, [Next]_vars
    PROVE  NoFullWindow'
<1>0. Step
    BY NextIsStep
<1>1. ASSUME NEW k \in Key, NEW a \in Agent, NEW c \in Content, NEW started \in Nat,
             NEW life \in Life, create_proposal(k, a, c, started, life)
      PROVE  NoFullWindow'
    <2> SUFFICES ASSUME NEW x \in Content, NEW t \in 0..MaxTime
                 PROVE  Cardinality(PassedIn(x, t)') < LoopLimit
        BY DEF NoFullWindow
    <2>1. /\ proposal' = [proposal EXCEPT ![k] =
                [agent |-> a, content |-> c, blocked |-> Blocks(c, started),
                 created |-> started, expires |-> started + life]]
          /\ proposal[k] = None
        BY <1>1 DEF create_proposal
    <2>2. \A j \in Key : j # k => proposal'[j] = proposal[j]
        BY <2>1 DEF TypeOK
    <2>3. CASE k \notin PassedIn(x, t)'
        <3>1. PassedIn(x, t)' \subseteq PassedIn(x, t)
            BY <2>2, <2>3 DEF PassedIn
        <3>2. Cardinality(PassedIn(x, t)') <= Cardinality(PassedIn(x, t))
            BY <3>1, FS_Subset, ProposalsAreFinite DEF PassedIn
        <3>3. Cardinality(PassedIn(x, t)) < LoopLimit
            BY DEF NoFullWindow
        <3>4. PassedIn(x, t) \subseteq Key /\ PassedIn(x, t)' \subseteq Key
            BY DEF PassedIn
        <3>5. QED
            BY <3>2, <3>3, <3>4, ProposalsAreFinite, NumberAssumption
    <2>4. CASE k \in PassedIn(x, t)'
        <3>1. /\ c = x /\ ~Blocks(x, started)
              /\ started <= t /\ started > t - LoopWindow
            BY <2>1, <2>4 DEF PassedIn, TypeOK
        <3>2. PassedIn(x, t)' \ {k} \subseteq Equivalent(x, started)
            <4> SUFFICES ASSUME NEW j \in PassedIn(x, t)', j # k
                         PROVE  j \in Equivalent(x, started)
                OBVIOUS
            <4>1. /\ j \in Key /\ proposal[j] # None /\ proposal[j].content = x
                  /\ proposal[j].created > t - LoopWindow
                BY <2>2 DEF PassedIn
            <4>2. proposal[j].created \in Nat
                BY <4>1 DEF TypeOK, Proposal
            <4>3. proposal[j].created > started - LoopWindow
                BY <3>1, <4>1, <4>2, NumberAssumption
            <4>4. QED
                BY <4>1, <4>3 DEF Equivalent
        <3> DEFINE E == Equivalent(x, started)
        <3>3. E \subseteq Key /\ PassedIn(x, t)' \subseteq E \cup {k}
            BY <3>2 DEF Equivalent
        <3>4. IsFiniteSet(E \cup {k}) /\ Cardinality(E \cup {k}) <= Cardinality(E) + 1
            BY <3>3, ProposalsAreFinite, FS_AddElement
        <3>5. Cardinality(PassedIn(x, t)') <= Cardinality(E \cup {k})
            BY <3>3, <3>4, FS_Subset
        <3>6. Cardinality(E) + 1 < LoopLimit
            BY <3>1, <3>3, ProposalsAreFinite, NumberAssumption DEF Blocks
        <3>7. /\ Cardinality(E) \in Nat /\ Cardinality(E \cup {k}) \in Nat
              /\ Cardinality(PassedIn(x, t)') \in Nat
            BY <3>3, ProposalsAreFinite, FS_CardinalityType, <3>4 DEF PassedIn
        <3> HIDE DEF E
        <3>8. QED
            BY <3>4, <3>5, <3>6, <3>7, NumberAssumption
    <2>5. QED
        BY <2>3, <2>4
<1>2. CASE UNCHANGED proposal
    BY <1>2 DEF NoFullWindow, PassedIn
<1>3. QED
    BY <1>0, <1>1, <1>2
    DEF Step, vars, reviewVars, record_invariant, acquire_decision_lock,
        release_decision_lock, decide, issue_grant, revoke_grant, record_execution_attempt,
        EnvelopeGone, consume_grant, record_completion, ExecutorDies, record_token_cost, record_heartbeat,
        evaluate_loop_guard, Tick

(* A proposal is blocked when it is created, with its event, or never.     *)

LEMMA RecordedStep ==
    ASSUME TypeOK, BlocksAreRecorded, [Next]_vars
    PROVE  BlocksAreRecorded'
<1>0. Step
    BY NextIsStep
<1>1. ASSUME NEW k \in Key, NEW a \in Agent, NEW x \in Content, NEW started \in Nat,
             NEW life \in Life, create_proposal(k, a, x, started, life)
      PROVE  BlocksAreRecorded'
    <2> DEFINE row == [agent |-> a, content |-> x, blocked |-> Blocks(x, started),
                       created |-> started, expires |-> started + life]
    <2>1. /\ proposal' = [proposal EXCEPT ![k] = row]
          /\ loop_guard_events' =
                [loop_guard_events EXCEPT ![k] = IF Blocks(x, started) THEN 1 ELSE 0]
        BY <1>1 DEF create_proposal
    <2>2. row # None
        <3>1. started + life \in Nat /\ Blocks(x, started) \in BOOLEAN
            BY NumberAssumption DEF Blocks
        <3>2. row \in Proposal
            BY <3>1 DEF Proposal
        <3>3. QED
            BY <3>2, NoneAssumption
    <2>3. row.blocked = Blocks(x, started)
        OBVIOUS
    <2> HIDE DEF row
    <2>4. QED
        BY <2>1, <2>2, <2>3 DEF BlocksAreRecorded, TypeOK
<1>2. ASSUME NEW k \in Key, evaluate_loop_guard(k)
      PROVE  BlocksAreRecorded'
    BY <1>2 DEF evaluate_loop_guard, BlocksAreRecorded, TypeOK
<1>3. CASE UNCHANGED <<proposal, loop_guard_events>>
    BY <1>3 DEF BlocksAreRecorded
<1>4. QED
    BY <1>0, <1>1, <1>2, <1>3
    DEF Step, vars, reviewVars, record_invariant, acquire_decision_lock,
        release_decision_lock, decide, issue_grant, revoke_grant, record_execution_attempt,
        EnvelopeGone, consume_grant, record_completion, ExecutorDies, record_token_cost,
        record_heartbeat, Tick

(* No window holds LoopLimit equivalent proposals that passed the guard,   *)
(* and the blocked ones are those with events.                             *)
THEOREM GuardIsTight == Spec => []LoopGuardHolds
<1>1. TypeOK /\ NoFullWindow /\ [Next]_vars => NoFullWindow'
    BY GuardStep
<1>2. TypeOK /\ BlocksAreRecorded /\ [Next]_vars => BlocksAreRecorded'
    BY RecordedStep
<1>3. Init => BlocksAreRecorded
    BY DEF Init, BlocksAreRecorded
<1>4. NoFullWindow /\ BlocksAreRecorded => LoopGuardHolds
    BY DEF LoopGuardHolds
<1>5. QED
    BY GuardInit, TypeCorrect, <1>1, <1>2, <1>3, <1>4, PTL DEF Spec

=============================================================================
