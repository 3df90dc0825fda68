---------------------------- MODULE MCPaperclip ----------------------------
(* Paperclip governance for TLC, in one of three situations: "grants",      *)
(* where one proposal takes its whole way, "limits", where proposals of one *)
(* agent come fast, and "reports", where agents beat and spend.             *)
EXTENDS Paperclip, TLC

VARIABLE situation

MCInit == Init /\ situation \in {"grants", "limits", "reports"}

\* Keys are interchangeable, and are taken in their order.
KeysInOrder == \A k \in Key \ {1} : proposal'[k] # None => proposal'[k - 1] # None

OneProposal ==
    /\ now' <= 3 /\ heartbeat' = heartbeat
    /\ \A k \in Key \ {1} : proposal'[k] = None
    /\ proposal'[1] # proposal[1] => proposal'[1].created = now
OnlyProposals ==
    /\ <<invariant, lock, decision, grantVars, budgetVars>>'
          = <<invariant, lock, decision, grantVars, budgetVars>>
    /\ \A k \in Key \ {LoopLimit} : loop_guard_events'[k] <= 1
    /\ \A k \in Key : proposal'[k] # None =>
          /\ proposal'[k].expires = proposal'[k].created + 1
          /\ proposal'[k].agent = proposal'[1].agent

OnlyReports == <<now, reviewVars, grantVars>>' = <<now, reviewVars, grantVars>>

MCNext ==
    /\ Next
    /\ KeysInOrder
    /\ CASE situation = "grants"  -> OneProposal
         [] situation = "limits"  -> OnlyProposals
         [] situation = "reports" -> OnlyReports
    /\ UNCHANGED situation
MCSpec == MCInit /\ [][MCNext]_<<vars, situation>>

Symmetry == Permutations(Agent) \cup Permutations(Content) \cup Permutations(Session)

=============================================================================
