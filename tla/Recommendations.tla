--------------------------- MODULE Recommendations --------------------------
(***************************************************************************)
(* What recommend_drivers() makes of an agent's answer: the agent's        *)
(* ranking when it orders exactly the candidates shown, and their original *)
(* order in every other case.                                              *)
(***************************************************************************)
EXTENDS Sequences, SequencesExt, FiniteSets

\* How rank() may end: not at all in time, by an exception, or with a ranking.
Ends == {"absent", "timeout", "os_error", "failure", "ranking"}

\* An answer that carries a ranking, or the end that it came to.
Answer(end, ranking) == [end |-> end, ranking |-> ranking]

Result(ids, source, reason) ==
    [candidate_ids |-> ids, source |-> source, reason_code |-> reason]

\* AgentRanking and the comparison with the shortlist: nobody twice, nobody
\* left out and nobody new.
CompleteRanking(shown, ranking) ==
    /\ Len(ranking) = Len(shown)
    /\ ToSet(ranking) = ToSet(shown)

Fallback(shown, reason) == Result(shown, "deterministic", reason)

ReasonOf == [absent |-> "AGENT_UNAVAILABLE", timeout |-> "AGENT_TIMEOUT",
             os_error |-> "AGENT_UNAVAILABLE", failure |-> "AGENT_FAILURE",
             ranking |-> "MALFORMED_OUTPUT"]

recommend_drivers(shown, answer) ==
    IF shown = << >> THEN Fallback(shown, "NO_CANDIDATES")
    ELSE IF answer.end = "ranking" /\ CompleteRanking(shown, answer.ranking)
    THEN Result(answer.ranking, "agent", "RECOMMENDED")
    ELSE Fallback(shown, ReasonOf[answer.end])

=============================================================================
