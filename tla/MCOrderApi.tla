----------------------------- MODULE MCOrderApi -----------------------------
(* OrderApi for TLC, in one of two situations: "requests", where two         *)
(* sessions change one order, and "intake", where one session takes in       *)
(* orders of two accounts.                                                   *)
EXTENDS OrderApi, TLC

CONSTANTS o1, s1, a1, b1

VARIABLE situation

MCInit == Init /\ situation \in {"requests", "intake"}

OneOrder ==
    /\ \A o \in Order \ {o1} : status'[o] = "absent"
    /\ \A s \in Session : req'[s].kind = "create" => req'[s].account = a1 /\ req'[s].body = b1
OneSession ==
    /\ \A s \in Session \ {s1} : req'[s] = NoRequest
    /\ req'[s1].kind = "transition" => req'[s1].next = "quoted"

MCNext ==
    /\ Next
    /\ IF situation = "requests" THEN OneOrder ELSE OneSession
    /\ UNCHANGED situation
MCSpec == MCInit /\ [][MCNext]_<<vars, situation>> /\ Fairness

=============================================================================
