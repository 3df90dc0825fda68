----------------------- MODULE RecommendationService ------------------------
(***************************************************************************)
(* The two users of recommend_drivers() side by side: the invocations of   *)
(* the staging script, and the review store, which share no state.         *)
(***************************************************************************)
EXTENDS StagingRun

\* Of the review store; see Reviews.
CONSTANTS Review, Caller, Snapshot, ShownIn, Agent, Reviewer, Human, Key, LastTime
VARIABLES records, creations, submissions, awaiting

Store == INSTANCE Reviews

ASSUME ReviewsAssumption == Store!RowsAreRows

\* Both components are well typed.
WellTyped == TypeOK /\ Store!TypeOK

\* No decision on a review is lost, overwritten or taken too late.
DecisionsStand == Store!DecisionsStand

=============================================================================
