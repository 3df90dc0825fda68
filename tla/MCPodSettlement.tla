--------------------------- MODULE MCPodSettlement --------------------------
(* PodSettlement for TLC.                                                  *)
EXTENDS PodSettlement, TLC

Symmetry == Permutations(Session) \cup Permutations(Document) \cup Permutations(Order)

=============================================================================
