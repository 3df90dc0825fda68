------------------------------- MODULE Reviews ------------------------------
(***************************************************************************)
(* FakeReviewStore: reviews of advisory rankings, created across an await, *)
(* decided once or expired.  Review ids deduplicate creations, submission  *)
(* keys deduplicate decisions; time is the caller's and need not advance   *)
(* from call to call.                                                      *)
(***************************************************************************)
EXTENDS Recommendations, Naturals

CONSTANTS Review,    \* review ids
          Caller,    \* coroutines that create reviews
          Snapshot,
          ShownIn,   \* the shortlist of each snapshot
          Agent,     \* FakeShadowAgents: the answers they are made to give
          Reviewer,  \* FakeReviewer
          Human,     \* those of them who may decide
          Key,       \* submission keys
          None,
          LastTime   \* bound: times are 0 .. LastTime

VARIABLES
    records,      \* _records
    creations,    \* _creations: inputs of the first creation of each id
    submissions,  \* _submissions: inputs and result of each key
    awaiting      \* the creation a caller is suspended in

vars == <<records, creations, submissions, awaiting>>

Time == 0 .. LastTime
Creation == [snapshot : Snapshot, agent : Agent, created_at : Time, expires_at : Time]
Candidate == UNION {ToSet(ShownIn[s]) : s \in Snapshot}
Submission ==
    [id : Review, snapshot : Snapshot, reviewer : Reviewer, decision : {"accepted", "rejected"},
     preference : Candidate \cup {None}]

\* The answer of the agent, unless the time is over before it.
evaluate_shadow(creation) ==
    {recommend_drivers(ShownIn[creation.snapshot], answer) :
        answer \in {creation.agent, Answer("timeout", << >>)}}

ReviewRecord ==
    [snapshot : Snapshot, recommendation : UNION {evaluate_shadow(c) : c \in Creation},
     created_at : Time, expires_at : Time, updated_at : Time,
     status : {"pending", "accepted", "rejected", "expired"}, reviewer : Human \cup {None},
     advisory_preference : Candidate \cup {None}, idempotency_key : Key \cup {None}]
Submitted == [submission : Submission, result : ReviewRecord]
Awaited == [id : Review, creation : Creation]

Init ==
    /\ records = [i \in Review |-> None]
    /\ creations = [i \in Review |-> None]
    /\ submissions = [k \in Key |-> None]
    /\ awaiting = [c \in Caller |-> None]

----------------------------------------------------------------------------
(* Creation.                                                               *)

\* create() up to evaluate_shadow(); a known id answers at once.
create(c, i, creation) ==
    /\ awaiting[c] = None
    /\ creation.created_at < creation.expires_at
    /\ creations[i] = None
    /\ awaiting' = [awaiting EXCEPT ![c] = [id |-> i, creation |-> creation]]
    /\ UNCHANGED <<records, creations, submissions>>

\* Mutant: the id is not looked up again after the await.
StillNewUnchecked(i) == TRUE

\* The second look: somebody may have created the review in the meantime.
StillNew(i) == creations[i] = None

\* create() from the answer of evaluate_shadow(): the record, or what
\* _replay_creation() answers, which changes nothing.
Created(c) ==
    LET i == awaiting[c].id
        creation == awaiting[c].creation
    IN  /\ awaiting[c] # None
        /\ awaiting' = [awaiting EXCEPT ![c] = None]
        /\ \/ /\ StillNew(i)
              /\ \E advisory \in evaluate_shadow(creation) :
                    records' = [records EXCEPT ![i] =
                        [snapshot |-> creation.snapshot, recommendation |-> advisory,
                         created_at |-> creation.created_at, expires_at |-> creation.expires_at,
                         updated_at |-> creation.created_at, status |-> "pending",
                         reviewer |-> None, advisory_preference |-> None,
                         idempotency_key |-> None]]
              /\ creations' = [creations EXCEPT ![i] = creation]
           \/ /\ ~StillNew(i)
              /\ UNCHANGED <<records, creations>>
        /\ UNCHANGED submissions

\* evaluate_shadow() raises or the caller is cancelled.
CreationAborted(c) ==
    /\ awaiting[c] # None
    /\ awaiting' = [awaiting EXCEPT ![c] = None]
    /\ UNCHANGED <<records, creations, submissions>>

----------------------------------------------------------------------------
(* Reading and deciding.                                                   *)

\* _validate_time
Current(i, now) == records[i] # None /\ records[i].updated_at <= now

\* What get() returns and stores: a pending review past its time is expired.
Read(i, now) ==
    IF records[i].status = "pending" /\ now >= records[i].expires_at
    THEN [records[i] EXCEPT !.status = "expired", !.updated_at = records[i].expires_at]
    ELSE records[i]

get(i, now) ==
    /\ Current(i, now)
    /\ records' = [records EXCEPT ![i] = Read(i, now)]
    /\ UNCHANGED <<creations, submissions, awaiting>>

\* The checks of review() that precede the look at the key: the snapshot is
\* the reviewed one; an acceptance names a candidate, a rejection none.
Submittable(s, now) ==
    LET record == records[s.id]
    IN  /\ s.reviewer \in Human
        /\ Current(s.id, now)
        /\ s.snapshot = record.snapshot
        /\ IF s.decision = "accepted"
           THEN s.preference \in ToSet(record.recommendation.candidate_ids)
           ELSE s.preference = None

\* review(): a known key changes nothing, and a review that expired or is
\* decided stores at most its expiry.
review(k, s, now) ==
    LET found == Read(s.id, now)
        decided == [found EXCEPT !.status = s.decision, !.reviewer = s.reviewer,
                                 !.advisory_preference = s.preference,
                                 !.idempotency_key = k, !.updated_at = now]
    IN  /\ Submittable(s, now)
        /\ submissions[k] = None
        /\ \/ /\ found.status = "pending"
              /\ records' = [records EXCEPT ![s.id] = decided]
              /\ submissions' = [submissions EXCEPT ![k] = [submission |-> s, result |-> decided]]
           \/ /\ found.status # "pending"
              /\ records' = [records EXCEPT ![s.id] = found]
              /\ UNCHANGED submissions
        /\ UNCHANGED <<creations, awaiting>>

Next ==
    \/ \E c \in Caller :
          \/ \E i \in Review, creation \in Creation : create(c, i, creation)
          \/ Created(c)
          \/ CreationAborted(c)
    \/ \E now \in Time :
          \/ \E i \in Review : get(i, now)
          \/ \E k \in Key, s \in Submission : review(k, s, now)

Spec == Init /\ [][Next]_vars

----------------------------------------------------------------------------
(* Properties.                                                             *)

\* Records, creations and submissions are well typed, and a record shows in its
\* status, key and times how far it has come.
TypeOK ==
    /\ records \in [Review -> ReviewRecord \cup {None}]
    /\ creations \in [Review -> Creation \cup {None}]
    /\ submissions \in [Key -> Submitted \cup {None}]
    /\ awaiting \in [Caller -> Awaited \cup {None}]
    /\ \A i \in Review :
          /\ creations[i] = None <=> records[i] = None
          /\ records[i] # None =>
                /\ records[i].created_at <= records[i].updated_at
                /\ records[i].status = "expired" => records[i].updated_at = records[i].expires_at

\* What the store takes for granted: None is no row, and times are numbers.
RowsAreRows ==
    /\ None \notin ReviewRecord \cup Creation \cup Submitted \cup Awaited
    /\ LastTime \in Nat

\* "Concurrent identical creations must not overwrite an intervening decision":
\* what a submission key was answered stays what the record of its review says,
\* a decision was taken by a human within the life of the review that was
\* created, and every decision can be found under the key it names.
DecisionsStand ==
    /\ \A k \in Key : submissions[k] # None =>
          records[submissions[k].submission.id] = submissions[k].result
    /\ \A i \in Review : creations[i] # None =>
          LET record == records[i] IN
          /\ record.snapshot = creations[i].snapshot
          /\ record.created_at = creations[i].created_at
          /\ record.expires_at = creations[i].expires_at
          /\ record.status \in {"accepted", "rejected"} =>
                /\ record.updated_at < record.expires_at
                /\ record.reviewer \in Human
                /\ submissions[record.idempotency_key].result = record

=============================================================================
