-------------------------- MODULE MCRecommendations -------------------------
(* The two users of recommend_drivers() for TLC: invocations of the staging *)
(* script in one situation, the review store in the other.                  *)
EXTENDS RecommendationService, TLC

CONSTANTS r1, r2, r3, g1, g2, g3, s1, s2, c1, c2, i1, i2

VARIABLE situation

MCRegistered == {g1, g2}
MCWindow == g1 :> [from |-> 0, until |-> 3] @@ g2 :> [from |-> 1, until |-> 4]
              @@ g3 :> [from |-> 0, until |-> 4]
MCShown == <<c1, c2>>
MCReview == {i1, i2}
MCSnapshot == {s1, s2}
MCShownIn == s1 :> <<c1>> @@ s2 :> << >>
MCAgent == {[end |-> "ranking", ranking |-> <<c1>>]}

storeVars == <<records, creations, submissions, awaiting>>

MCInit ==
    /\ situation \in {"staging", "reviews"}
    /\ Init
    /\ Store!Init
    \* Up to the names of the invocations; all three never name the same grant.
    /\ grant[r1] = g1 /\ grant[r2] \in {g1, g2} /\ grant[r3] \in {g2, g3}

\* The second review is only there for keys that are used for both.
OneCreationOf(i) ==
    \A c \in Caller : awaiting'[c] # None /\ awaiting'[c].id = i =>
        awaiting'[c].creation = [snapshot |-> s1, agent |-> CHOOSE a \in Agent : TRUE,
                                 created_at |-> 0, expires_at |-> LastTime]

MCNext ==
    \/ situation = "staging" /\ Next /\ UNCHANGED <<situation, storeVars>>
    \/ situation = "reviews" /\ Store!Next /\ OneCreationOf(i2) /\ UNCHANGED <<situation, vars>>

MCSpec == MCInit /\ [][MCNext]_<<situation, vars, storeVars>>

\* Coroutines and submission keys are interchangeable.
Interchangeable == Permutations(Caller) \cup Permutations(Key)

=============================================================================
