----------------------------- MODULE MCDispatch -----------------------------
(* Dispatch for TLC: all parties suit all orders.                      *)
EXTENDS Dispatch, TLC

AllSuitable == Order \X Vehicle \X Driver
Symmetry == Permutations(Offer) \cup Permutations(Session)

=============================================================================
