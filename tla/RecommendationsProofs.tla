------------------------ MODULE RecommendationsProofs ------------------------
(***************************************************************************)
(* Proofs about the users of recommend_drivers().  StagingRun: the circuit *)
(* lets nobody through after an unclean end, and a grant pays for one      *)
(* request, for any number of invocations, grants, deaths and crashes.     *)
(* Reviews: no decision is lost or overwritten, for any number of          *)
(* coroutines that create and humans that decide.                          *)
(***************************************************************************)
EXTENDS RecommendationService, TLAPS

----------------------------------------------------------------------------
(* The staging run: types and the lock.                                    *)

Phase == Unlocked \cup Locked \cup Ended
LockHeld == \A r \in Run : lock = r <=> pc[r] \in Locked

\* Every step of the system keeps the types and the lock.
LEMMA TypeStep == ASSUME TypeOK, [Next]_vars PROVE TypeOK'
<1>. USE StagingAssumption DEF TypeOK, Goto, Unlock, Raise, Unlocked, Locked, Ended
<1>1. CASE UNCHANGED vars
    BY <1>1 DEF vars, local
<1>2. ASSUME NEW r \in Run, assert_staging_authorized(r) PROVE TypeOK'
    BY <1>2 DEF assert_staging_authorized
<1>3. ASSUME NEW r \in Run, consume(r) PROVE TypeOK'
    <2>1. dir' \subseteq File
        BY <1>3 DEF consume, File
    <2>2. pc' \in [Run -> Phase] /\ lock' \in Run \cup {None} /\ LockHeld'
        BY <1>3 DEF consume, File, LockHeld, Phase
    <2>. QED BY <1>3, <2>1, <2>2 DEF consume, File, LockHeld, Phase
<1>4. ASSUME NEW r \in Run,
             Sync(r, "consume_sync", "reserve") \/ Sync(r, "guard_sync", "unlink_active")
      PROVE  TypeOK'
    BY <1>4 DEF Sync
<1>5. ASSUME NEW r \in Run, TakeLock(r, "reserve", "inspect") \/ TakeLock(r, "finish", "token")
      PROVE  TypeOK'
    BY ZenonT(30), <1>5 DEF TakeLock
<1>6. ASSUME NEW r \in Run, reserve(r) PROVE TypeOK'
    <2>1. dir' \subseteq File
        BY <1>6 DEF reserve, File, Mine
    <2>2. pc' \in [Run -> Phase] /\ lock' \in Run \cup {None} /\ LockHeld'
        BY ZenonT(30), <1>6 DEF reserve, File, Mine, LockHeld, Phase
    <2>. QED BY <1>6, <2>1, <2>2 DEF reserve, File, Mine, LockHeld, Phase
<1>7. ASSUME NEW r \in Run, Admit(r) PROVE TypeOK'
    BY <1>7 DEF Admit
<1>8. ASSUME NEW r \in Run, Prepare(r) PROVE TypeOK'
    <2>1. deadline' \in [Run -> Nat]
        BY <1>8 DEF Prepare
    <2>2. pc' \in [Run -> Phase] /\ lock' \in Run \cup {None} /\ LockHeld'
        BY <1>8 DEF Prepare, LockHeld, Phase
    <2>. QED BY <1>8, <2>1, <2>2 DEF Prepare, LockHeld, Phase
<1>9. ASSUME NEW r \in Run, rank(r) PROVE TypeOK'
    <2>1. requests_started' \in [Run -> Nat]
        BY <1>9 DEF rank
    <2>2. pc' \in [Run -> Phase] /\ lock' \in Run \cup {None} /\ LockHeld'
        BY <1>9 DEF rank, LockHeld, Phase
    <2>. QED BY <1>9, <2>1, <2>2 DEF rank, LockHeld, Phase
<1>10. ASSUME NEW r \in Run, Respond(r) PROVE TypeOK'
    BY <1>10 DEF Respond
<1>11. ASSUME NEW r \in Run, Close(r) PROVE TypeOK'
    BY ZenonT(30), <1>11 DEF Close
<1>12. ASSUME NEW r \in Run, CheckToken(r) PROVE TypeOK'
    <2>1. dir' \subseteq File
        BY <1>12 DEF CheckToken, FirstMarker
    <2>2. pc' \in [Run -> Phase] /\ lock' \in Run \cup {None} /\ LockHeld'
        BY SMTT(30), <1>12 DEF CheckToken, FirstMarker, LockHeld, Phase
    <2>. QED BY <1>12, <2>1, <2>2 DEF CheckToken, FirstMarker, LockHeld, Phase
<1>13. ASSUME NEW r \in Run, WriteMarker(r) PROVE TypeOK'
    <2>1. dir' \subseteq File
        BY <1>13 DEF WriteMarker, File, Mine
    <2>2. pc' \in [Run -> Phase] /\ lock' \in Run \cup {None} /\ LockHeld'
        BY <1>13 DEF WriteMarker, File, Mine, LockHeld, Phase
    <2>. QED BY <1>13, <2>1, <2>2 DEF WriteMarker, File, Mine, LockHeld, Phase
<1>14. ASSUME NEW r \in Run, UnlinkActive(r) PROVE TypeOK'
    BY <1>14 DEF UnlinkActive
<1>19. ASSUME NEW r \in Run, ActiveIsGone(r) PROVE TypeOK'
    BY <1>19 DEF ActiveIsGone
<1>20. ASSUME NEW r \in Run, UnlinkReleasing(r) PROVE TypeOK'
    BY <1>20 DEF UnlinkReleasing
<1>15. ASSUME NEW r \in Run, SystemCallFails(r) PROVE TypeOK'
    BY <1>15 DEF SystemCallFails, Mishap
<1>16. ASSUME NEW r \in Run, Die(r) PROVE TypeOK'
    BY <1>16 DEF Die, Mishap
<1>17. ASSUME MachineCrash PROVE TypeOK'
    BY <1>17 DEF MachineCrash, Mishap
<1>18. ASSUME Tick PROVE TypeOK'
    BY <1>18 DEF Tick, local
<1>. QED
    BY <1>1, <1>2, <1>3, <1>4, <1>5, <1>6, <1>7, <1>8, <1>9, <1>10, <1>11, <1>12, <1>13,
       <1>14, <1>15, <1>16, <1>17, <1>18, <1>19, <1>20 DEF Next, Invocation

\* Every state of the staging runs is well typed, and the lock is held by the
\* invocation that is in the circuit, by nobody else.
THEOREM TypeCorrect == Spec => []TypeOK
<1>1. Init => TypeOK
    BY StagingAssumption DEF Init, TypeOK, Unlocked, Locked, Ended
<1>. QED BY <1>1, TypeStep, PTL DEF Spec

----------------------------------------------------------------------------
(* The circuit.                                                            *)

Marker == {"releasing", "open"}
Has(r, kinds, files) == \E k \in kinds : Mine(r, k) \in files
Kept == dir \cap disk

\* Where an invocation may be once it was let through.
Through == {"prepare", "rank", "call", "close", "finish", "token", "releasing", "open",
            "guard_sync", "unlink_active", "gone_sync", "unlink_releasing",
            "clean", "failed", "dead"}

\* An invocation that was let through has left a file that no crash takes away,
\* until its end is clean; before it unlinks its reservation there is another.
Guarded(r) ==
    /\ pc[r] \in Through
    /\ pc[r] # "clean" => Has(r, Marker \cup {"active"}, Kept)
    /\ pc[r] = "guard_sync" => Has(r, Marker, dir)
    /\ pc[r] = "unlink_active" => Has(r, Marker, Kept)

\* Between the look at the directory and the permit everybody else is clean.
Alone(r) ==
    pc[r] = "active_sync" =>
        /\ Mine(r, "active") \in dir
        /\ \A q \in permits : pc[q] = "clean"

CircuitInv ==
    /\ \A r \in permits : Guarded(r)
    /\ \A r \in Run : Alone(r)
    /\ LatchHolds

\* A step that lets nobody through, removes no file and moves no invocation to
\* the places where more is asked keeps the circuit.
LEMMA QuietStep ==
    ASSUME TypeOK, CircuitInv, permits' = permits, Kept \subseteq Kept', dir \subseteq dir',
           \A q \in Run : \/ pc'[q] = pc[q]
                          \/ /\ pc[q] # "clean"
                             /\ pc'[q] \notin {"active_sync", "guard_sync", "unlink_active"}
                             /\ q \in permits => pc'[q] \in Through
    PROVE  CircuitInv'
<1>1. ASSUME NEW r \in permits PROVE Guarded(r)'
    BY <1>1 DEF TypeOK, CircuitInv, Guarded, Has, Mine
<1>2. ASSUME NEW r \in Run PROVE Alone(r)'
    BY <1>2 DEF TypeOK, CircuitInv, Alone, Mine
<1>3. LatchHolds'
    BY DEF TypeOK, CircuitInv, LatchHolds
<1>. QED BY <1>1, <1>2, <1>3 DEF CircuitInv

LEMMA CircuitStep == ASSUME TypeOK, CircuitInv, [Next]_vars PROVE CircuitInv'
<1>. USE DEF Goto, Unlock, Raise
<1>1. CASE UNCHANGED vars
    BY <1>1, QuietStep DEF vars, local, Kept
<1>2. ASSUME NEW r \in Run, assert_staging_authorized(r) PROVE CircuitInv'
    BY <1>2, QuietStep DEF assert_staging_authorized, Kept, TypeOK, CircuitInv, Guarded, Through
<1>3. ASSUME NEW r \in Run, consume(r) PROVE CircuitInv'
    BY <1>3, QuietStep DEF consume, Kept, TypeOK, CircuitInv, Guarded, Through
<1>4. ASSUME NEW r \in Run, Sync(r, "consume_sync", "reserve") PROVE CircuitInv'
    BY <1>4, QuietStep DEF Sync, Kept, TypeOK, CircuitInv, Guarded, Through
<1>5. ASSUME NEW r \in Run, TakeLock(r, "reserve", "inspect") \/ TakeLock(r, "finish", "token")
      PROVE  CircuitInv'
    BY ZenonT(30), <1>5, QuietStep DEF TakeLock, Kept, TypeOK, CircuitInv, Guarded, Through
<1>6. ASSUME NEW r \in Run, reserve(r) PROVE CircuitInv'
    <2>1. r \notin permits
        BY <1>6 DEF reserve, CircuitInv, Guarded, Through
    <2>2. CASE Exists("open") \/ Exists("releasing") \/ Exists("active")
        <3>1. /\ permits' = permits /\ dir' = dir /\ disk' = disk
              /\ pc[r] = "inspect" /\ pc' = [pc EXCEPT ![r] = "denied"]
            BY <1>6, <2>1, <2>2 DEF reserve
        <3>. QED BY <2>1, <3>1, QuietStep DEF Kept, TypeOK
    <2>3. CASE ~Exists("open") /\ ~Exists("releasing") /\ ~Exists("active")
        <3>1. \A q \in permits : pc[q] = "clean"
            BY <2>3 DEF CircuitInv, Guarded, Has, Kept, Exists, Mine, Marker
        <3>2. /\ permits' = permits /\ \A q \in permits : pc'[q] = "clean"
              /\ pc'[r] # "active_sync" \/ Mine(r, "active") \in dir'
              /\ \A q \in Run : q # r => pc'[q] = pc[q]
              /\ dir \subseteq dir'
            BY <1>6, <2>1, <3>1 DEF reserve, TypeOK
        <3>3. CircuitInv'
            BY <3>2 DEF CircuitInv, Guarded, Alone, LatchHolds, Through, Mine
        <3>. QED BY <3>3
    <2>. QED BY <1>6, <2>2, <2>3 DEF reserve
<1>7. ASSUME NEW r \in Run, Admit(r) PROVE CircuitInv'
    <2>1. /\ \A q \in permits : pc[q] = "clean"
          /\ \A q \in Run : q # r => pc[q] # "active_sync"
          /\ Mine(r, "active") \in dir
        BY <1>7 DEF Admit, CircuitInv, Alone, TypeOK, Locked
    <2>2. /\ permits' = permits \cup {r} /\ pc' = [pc EXCEPT ![r] = "prepare"]
          /\ dir' = dir /\ disk' = dir
        BY <1>7 DEF Admit
    <2>3. r \notin permits
        BY <1>7, <2>1 DEF Admit
    <2>4. Guarded(r)'
        BY <2>1, <2>2 DEF Guarded, Has, Kept, Through, TypeOK
    <2>5. \A q \in permits : pc'[q] = "clean"
        BY <2>1, <2>2, <2>3 DEF TypeOK
    <2>. QED
        BY <2>1, <2>2, <2>4, <2>5 DEF CircuitInv, Guarded, Alone, LatchHolds, Through, TypeOK
<1>8. ASSUME NEW r \in Run, Prepare(r) \/ rank(r) \/ Respond(r) \/ Close(r) \/ CheckToken(r)
      PROVE  CircuitInv'
    BY ZenonT(30), <1>8, QuietStep
    DEF Prepare, rank, Respond, Close, CheckToken, FirstMarker, Kept, TypeOK, CircuitInv,
        Guarded, Through
<1>9. ASSUME NEW r \in Run, WriteMarker(r) PROVE CircuitInv'
    <2>1. CASE Exists(pc[r])
        <3>1. /\ permits' = permits /\ dir' = dir /\ disk' = disk
              /\ pc[r] # "clean" /\ pc' = [pc EXCEPT ![r] = IF r \in permits THEN "failed" ELSE "denied"]
            BY <1>9, <2>1 DEF WriteMarker
        <3>. QED BY <3>1, QuietStep DEF Kept, TypeOK, Through
    <2>2. CASE ~Exists(pc[r])
        <3>1. /\ permits' = permits /\ dir \subseteq dir' /\ Kept \subseteq Kept'
              /\ Has(r, Marker, dir') /\ pc[r] \in Marker
              /\ pc' = [pc EXCEPT ![r] = "guard_sync"]
            BY <1>9, <2>2 DEF WriteMarker, Kept, Has, Marker
        <3>. QED
            BY <3>1 DEF CircuitInv, Guarded, Alone, LatchHolds, Has, Marker, Through, TypeOK
    <2>. QED BY <1>9, <2>1, <2>2 DEF WriteMarker
<1>10. ASSUME NEW r \in Run, Sync(r, "guard_sync", "unlink_active") PROVE CircuitInv'
    <2>1. /\ permits' = permits /\ pc' = [pc EXCEPT ![r] = "unlink_active"]
          /\ dir' = dir /\ Kept' = dir /\ pc[r] = "guard_sync"
        BY <1>10 DEF Sync, Kept
    <2>. QED
        BY <2>1 DEF CircuitInv, Guarded, Alone, LatchHolds, Has, Through, Kept, TypeOK
<1>11. ASSUME NEW r \in Run, UnlinkActive(r) PROVE CircuitInv'
    <2>1. /\ permits' = permits /\ pc' = [pc EXCEPT ![r] = "gone_sync"]
          /\ pc[r] = "unlink_active"
          /\ dir' = dir \ {Mine(r, "active")} /\ Kept' = Kept \ {Mine(r, "active")}
        BY <1>11 DEF UnlinkActive, Kept
    <2>2. ASSUME NEW q \in permits PROVE Guarded(q)'
        BY <2>1, <2>2 DEF CircuitInv, Guarded, Has, Mine, Marker, Through, TypeOK
    <2>. QED
        BY <2>1, <2>2 DEF CircuitInv, Alone, LatchHolds, Mine, TypeOK
<1>12. ASSUME NEW r \in Run, ActiveIsGone(r) PROVE CircuitInv'
    BY <1>12, QuietStep DEF ActiveIsGone, Kept, TypeOK, CircuitInv, Guarded, Through
<1>13. ASSUME NEW r \in Run, UnlinkReleasing(r) PROVE CircuitInv'
    <2>1. /\ permits' = permits /\ pc' = [pc EXCEPT ![r] = "clean"]
          /\ pc[r] = "unlink_releasing"
          /\ dir' = dir \ {Mine(r, "releasing")} /\ Kept' = Kept \ {Mine(r, "releasing")}
        BY <1>13 DEF UnlinkReleasing, Kept
    <2>2. ASSUME NEW q \in permits PROVE Guarded(q)'
        BY <2>1, <2>2 DEF CircuitInv, Guarded, Has, Mine, Marker, Through, TypeOK
    <2>. QED
        BY <2>1, <2>2 DEF CircuitInv, Alone, LatchHolds, Mine, TypeOK
<1>14. ASSUME NEW r \in Run, SystemCallFails(r) \/ Die(r) PROVE CircuitInv'
    BY ZenonT(30), <1>14, QuietStep
    DEF SystemCallFails, SystemCalls, Locked, Die, Ended, Kept, TypeOK, CircuitInv, Guarded, Through
<1>15. ASSUME MachineCrash PROVE CircuitInv'
    <2>1. /\ permits' = permits /\ Kept \subseteq dir' /\ disk' = dir'
          /\ pc' = [r \in Run |-> IF pc[r] \in Ended \cup {"authorize"} THEN pc[r] ELSE "dead"]
        BY <1>15 DEF MachineCrash, Kept
    <2>. QED
        BY <2>1 DEF CircuitInv, Guarded, Alone, LatchHolds, Has, Kept, Through, Ended, TypeOK
<1>16. ASSUME Tick PROVE CircuitInv'
    BY <1>16, QuietStep DEF Tick, local, Kept
<1>. QED
    BY <1>1, <1>2, <1>3, <1>4, <1>5, <1>6, <1>7, <1>8, <1>9, <1>10, <1>11, <1>12, <1>13,
       <1>14, <1>15, <1>16 DEF Next, Invocation

\* StrictProviderCircuit lets nobody through after an unclean end, whatever
\* fails, dies or crashes at whichever step.
THEOREM CircuitLatches == Spec => []LatchHolds
<1>1. Init => CircuitInv
    BY DEF Init, CircuitInv, Alone, LatchHolds
<1>2. CircuitInv => LatchHolds
    BY DEF CircuitInv
<1>. QED BY <1>1, <1>2, CircuitStep, TypeCorrect, PTL DEF Spec

----------------------------------------------------------------------------
(* The grant.                                                              *)

Claim(r) == [kind |-> "consumed", of |-> grant[r]]
Synced == (Unlocked \ {"authorize", "consume", "consume_sync"}) \cup Locked
Uses(r) == pc[r] \in Synced \cup {"consume_sync"} \/ requests_started[r] > 0

\* Whoever uses a grant has claimed it alone, on the disk before the request.
Claimed(r) ==
    /\ Uses(r) => Claim(r) \in dir
    /\ pc[r] \in Synced \/ requests_started[r] > 0 => Claim(r) \in Kept
    /\ \A q \in Run : Uses(r) /\ Uses(q) /\ grant[r] = grant[q] => r = q

InTime(r) ==
    /\ requests_started[r] <= 1
    /\ pc[r] \in {"rank", "call"} => deadline[r] <= Window[grant[r]].until
    /\ pc[r] = "call" => now <= deadline[r] - Timeout \div 2 /\ now < Window[grant[r]].until

GrantInv == \A r \in Run : Claimed(r) /\ InTime(r)

HalfTime == Timeout \div 2 \in Nat \ {0}

LEMMA HalfTimeIsPositive == HalfTime
BY StagingAssumption DEF HalfTime

\* A step that starts no request, takes no claim away and brings nobody to a
\* place where more is asked keeps the grants.
LEMMA QuietGrantStep ==
    ASSUME TypeOK, GrantInv,
           UNCHANGED <<now, grant, deadline, requests_started>>,
           \A r \in Run : /\ Claim(r) \in dir => Claim(r) \in dir'
                          /\ Claim(r) \in Kept => Claim(r) \in Kept',
           \A q \in Run : \/ pc'[q] = pc[q]
                          \/ /\ pc'[q] \notin {"consume_sync", "rank", "call"}
                             /\ pc'[q] \in Synced => pc[q] \in Synced
    PROVE  GrantInv'
<1>1. ASSUME NEW r \in Run PROVE Claimed(r)'
    <2>1. Claim(r)' = Claim(r)
        BY DEF Claim
    <2>2. \A q \in Run : (Uses(q)' => Uses(q))
        BY DEF Uses
    <2>. QED BY <2>1, <2>2 DEF GrantInv, Claimed, Uses
<1>2. ASSUME NEW r \in Run PROVE InTime(r)'
    BY DEF GrantInv, InTime
<1>. QED BY <1>1, <1>2 DEF GrantInv

LEMMA GrantStep == ASSUME TypeOK, GrantInv, [Next]_vars PROVE GrantInv'
<1>. USE DEF Goto, Unlock, Raise, Synced, Unlocked, Locked
<1>1. CASE UNCHANGED vars
    BY <1>1, QuietGrantStep DEF vars, local, Kept
<1>2. ASSUME NEW r \in Run, assert_staging_authorized(r) PROVE GrantInv'
    <2>1. /\ pc' \in {[pc EXCEPT ![r] = "consume"], [pc EXCEPT ![r] = "denied"]}
          /\ UNCHANGED <<now, grant, deadline, requests_started, dir, disk>>
        BY <1>2 DEF assert_staging_authorized
    <2>. QED BY <2>1, QuietGrantStep DEF Kept, TypeOK
<1>3. ASSUME NEW r \in Run, consume(r) PROVE GrantInv'
    <2>1. UNCHANGED <<now, grant, deadline, requests_started, disk>>
        BY <1>3 DEF consume
    <2>2. CASE ~ClaimIsFirst(r)
        <3>1. dir' = dir /\ pc' = [pc EXCEPT ![r] = "denied"]
            BY <1>3, <2>2 DEF consume
        <3>. QED BY <2>1, <3>1, QuietGrantStep DEF Kept, TypeOK
    <2>3. CASE ClaimIsFirst(r)
        <3>1. dir' = dir \cup {Claim(r)} /\ pc' = [pc EXCEPT ![r] = "consume_sync"]
            BY <1>3, <2>3 DEF consume, Claim
        <3>2. \A q \in Run : grant[q] = grant[r] => ~Uses(q)
            BY <2>3 DEF GrantInv, Claimed, ClaimIsFirst, Claim
        <3>3. \A q \in Run : q # r => (Uses(q)' <=> Uses(q))
            BY <2>1, <3>1 DEF Uses, TypeOK
        <3>4. requests_started[r] = 0
            BY <3>2 DEF Uses, TypeOK
        <3>5. ASSUME NEW q \in Run PROVE Claimed(q)'
            <4>1. Claim(q)' = Claim(q)
                BY <2>1 DEF Claim
            <4>2. Uses(q)' => Claim(q) \in dir'
                BY <3>1, <3>3 DEF GrantInv, Claimed
            <4>3. pc'[q] \in Synced \/ requests_started[q] > 0 => Claim(q) \in Kept'
                BY <2>1, <3>1, <3>4 DEF GrantInv, Claimed, Kept, TypeOK
            <4>4. \A p \in Run : Uses(q)' /\ Uses(p)' /\ grant[q] = grant[p] => q = p
                BY <3>2, <3>3 DEF GrantInv, Claimed
            <4>. QED BY <2>1, <4>1, <4>2, <4>3, <4>4 DEF Claimed
        <3>6. \A q \in Run : InTime(q)'
            BY <2>1, <3>1 DEF GrantInv, InTime, TypeOK
        <3>. QED BY <3>5, <3>6 DEF GrantInv
    <2>. QED BY <2>2, <2>3
<1>4. ASSUME NEW r \in Run, Sync(r, "consume_sync", "reserve") PROVE GrantInv'
    <2>1. /\ UNCHANGED <<now, grant, deadline, requests_started, dir>> /\ disk' = dir
          /\ pc[r] = "consume_sync" /\ pc' = [pc EXCEPT ![r] = "reserve"]
        BY <1>4 DEF Sync
    <2>2. \A q \in Run : InTime(q)'
        BY <2>1 DEF GrantInv, InTime, TypeOK
    <2>3. \A q \in Run : (Uses(q)' <=> Uses(q)) /\ Claim(q)' = Claim(q)
        BY <2>1 DEF Uses, Claim, TypeOK
    <2>4. \A q \in Run : Claimed(q)'
        BY <2>1, <2>3 DEF GrantInv, Claimed, Uses, Kept, TypeOK
    <2>. QED BY <2>2, <2>4 DEF GrantInv
<1>5. ASSUME NEW r \in Run, TakeLock(r, "reserve", "inspect") \/ TakeLock(r, "finish", "token")
      PROVE  GrantInv'
    BY <1>5, QuietGrantStep DEF TakeLock, Kept, TypeOK
<1>6. ASSUME NEW r \in Run, reserve(r) \/ Admit(r) \/ WriteMarker(r)
      PROVE  GrantInv'
    BY <1>6, QuietGrantStep DEF reserve, Admit, WriteMarker, Kept, TypeOK
<1>7. ASSUME NEW r \in Run,
             CheckToken(r) \/ Respond(r) \/ Close(r) \/ Sync(r, "guard_sync", "unlink_active")
      PROVE  GrantInv'
    BY <1>7, QuietGrantStep DEF CheckToken, FirstMarker, Respond, Close, Sync, Kept, TypeOK
<1>8. ASSUME NEW r \in Run, UnlinkActive(r) \/ ActiveIsGone(r) \/ UnlinkReleasing(r)
      PROVE  GrantInv'
    <2>1. \A q \in Run : Claim(q).kind = "consumed"
        BY DEF Claim
    <2>2. UNCHANGED <<now, grant, deadline, requests_started>>
        BY <1>8 DEF UnlinkActive, ActiveIsGone, UnlinkReleasing
    <2>3. \A q \in Run : \/ pc'[q] = pc[q]
                         \/ /\ pc'[q] \notin {"consume_sync", "rank", "call"}
                            /\ pc'[q] \in Synced => pc[q] \in Synced
        BY <1>8 DEF UnlinkActive, ActiveIsGone, UnlinkReleasing, TypeOK
    <2>4. \A q \in Run : /\ Claim(q) \in dir => Claim(q) \in dir'
                         /\ Claim(q) \in Kept => Claim(q) \in Kept'
        BY <1>8, <2>1 DEF UnlinkActive, ActiveIsGone, UnlinkReleasing, Kept, Mine
    <2>. QED BY <2>2, <2>3, <2>4, QuietGrantStep
<1>9. ASSUME NEW r \in Run, Prepare(r) PROVE GrantInv'
    <2>1. CASE ~ensure_execution_window(grant[r])
        BY <1>9, <2>1, QuietGrantStep DEF Prepare, Kept, TypeOK
    <2>2. CASE ensure_execution_window(grant[r])
        <3>1. /\ UNCHANGED <<now, grant, requests_started, dir, disk>>
              /\ pc[r] = "prepare" /\ pc' = [pc EXCEPT ![r] = "rank"]
              /\ \A q \in Run \ {r} : deadline'[q] = deadline[q]
            BY <1>9, <2>2 DEF Prepare, TypeOK
        <3>2. deadline'[r] <= Window[grant[r]].until
            BY <1>9, <2>2, StagingAssumption DEF Prepare, TypeOK
        <3>3. \A q \in Run : InTime(q)'
            BY <3>1, <3>2 DEF GrantInv, InTime, TypeOK
        <3>4. \A q \in Run : (Uses(q)' <=> Uses(q)) /\ Claim(q)' = Claim(q)
            BY <3>1 DEF Uses, Claim, TypeOK
        <3>5. \A q \in Run : Claimed(q)'
            BY <3>1, <3>4 DEF GrantInv, Claimed, Uses, Kept, TypeOK
        <3>. QED BY <3>3, <3>5 DEF GrantInv
    <2>. QED BY <2>1, <2>2
<1>10. ASSUME NEW r \in Run, rank(r) PROVE GrantInv'
    <2>1. CASE now >= deadline[r] - Timeout \div 2 /\ UNCHANGED requests_started
                 /\ pc' = [pc EXCEPT ![r] = "close"]
        BY <1>10, <2>1, QuietGrantStep DEF rank, Kept, TypeOK
    <2>2. CASE /\ requests_started[r] = 0 /\ now < deadline[r] - Timeout \div 2
               /\ requests_started' = [requests_started EXCEPT ![r] = @ + 1]
               /\ pc' = [pc EXCEPT ![r] = "call"]
        <3>1. /\ UNCHANGED <<now, grant, deadline, dir, disk>> /\ pc[r] = "rank"
              /\ requests_started'[r] = 1 /\ pc'[r] = "call"
              /\ \A q \in Run \ {r} : requests_started'[q] = requests_started[q] /\ pc'[q] = pc[q]
            BY <1>10, <2>2 DEF rank, TypeOK
        <3>2. Window[grant[r]].until \in Nat /\ deadline[r] \in Nat /\ now \in Nat
            BY StagingAssumption DEF TypeOK
        <3>3. \A q \in Run : InTime(q)'
            BY <2>2, <3>1, <3>2, HalfTimeIsPositive DEF HalfTime, GrantInv, InTime
        <3>4. \A q \in Run : (Uses(q)' <=> Uses(q)) /\ Claim(q)' = Claim(q)
            BY <3>1 DEF Uses, Claim, TypeOK
        <3>5. \A q \in Run : Claimed(q)'
            BY <3>1, <3>4 DEF GrantInv, Claimed, Uses, Kept, TypeOK
        <3>. QED BY <3>3, <3>5 DEF GrantInv
    <2>. QED BY <1>10, <2>1, <2>2 DEF rank
<1>11. ASSUME NEW r \in Run, SystemCallFails(r) \/ Die(r) PROVE GrantInv'
    BY <1>11, QuietGrantStep
    DEF SystemCallFails, SystemCalls, Die, Ended, Kept, TypeOK
<1>12. ASSUME MachineCrash PROVE GrantInv'
    <2>1. /\ UNCHANGED <<now, grant, deadline, requests_started>>
          /\ Kept \subseteq dir' /\ disk' = dir'
          /\ \A q \in Run : pc'[q] \in Ended \cup {"authorize"}
        BY <1>12 DEF MachineCrash, Kept, Ended, TypeOK
    <2>2. \A q \in Run : /\ Uses(q)' => requests_started[q] > 0
                         /\ Claim(q)' = Claim(q)
        BY <2>1 DEF Uses, Claim, Ended
    <2>3. \A q \in Run : Claimed(q)'
        BY <2>1, <2>2 DEF GrantInv, Claimed, Uses, Kept, Ended
    <2>4. \A q \in Run : InTime(q)'
        BY <2>1 DEF GrantInv, InTime, Ended
    <2>. QED BY <2>3, <2>4 DEF GrantInv
<1>13. ASSUME Tick PROVE GrantInv'
    <2>1. /\ UNCHANGED <<grant, deadline, requests_started, dir, disk, pc>> /\ now' = now + 1
          /\ \A r \in Run : pc[r] = "call" => now < deadline[r] - Timeout \div 2
        BY <1>13 DEF Tick, local
    <2>2. \A q \in Run : Claimed(q)'
        BY <2>1 DEF GrantInv, Claimed, Uses, Claim, Kept
    <2>3. ASSUME NEW q \in Run PROVE InTime(q)'
        <3>1. Window[grant[q]].until \in Nat /\ deadline[q] \in Nat /\ now \in Nat
            BY StagingAssumption DEF TypeOK
        <3>. QED BY <2>1, <3>1, HalfTimeIsPositive DEF HalfTime, GrantInv, InTime
    <2>. QED BY <2>2, <2>3 DEF GrantInv
<1>. QED
    BY <1>1, <1>2, <1>3, <1>4, <1>5, <1>6, <1>7, <1>8, <1>9, <1>10, <1>11, <1>12, <1>13
    DEF Next, Invocation

\* A grant pays for at most one request, which is over before the grant
\* expires, for any number of invocations that name it.
THEOREM GrantsPayOnce == Spec => []OneCallPerGrant
<1>1. Init => GrantInv
    BY DEF Init, GrantInv, Claimed, InTime, Uses, Synced, Unlocked, Locked
<1>2. TypeOK /\ GrantInv => OneCallPerGrant
    <2>1. ASSUME TypeOK, GrantInv, NEW r \in Run, NEW q \in Run, r # q, grant[r] = grant[q]
          PROVE  requests_started[r] + requests_started[q] <= 1
        <3>1. requests_started[r] = 0 \/ requests_started[q] = 0
            BY <2>1 DEF TypeOK, GrantInv, Claimed, Uses
        <3>. QED BY <2>1, <3>1 DEF TypeOK, GrantInv, InTime
    <2>. QED BY <2>1 DEF OneCallPerGrant, GrantInv, InTime
<1>. QED BY <1>1, <1>2, GrantStep, TypeCorrect, PTL DEF Spec

----------------------------------------------------------------------------
(* The review store.                                                       *)

\* A record says what its creation said, and whoever decided it can be found.
RecordHolds(i) ==
    /\ records[i].snapshot = creations[i].snapshot
    /\ records[i].created_at = creations[i].created_at
    /\ records[i].expires_at = creations[i].expires_at
    /\ records[i].created_at < records[i].expires_at
    /\ records[i].status \in {"accepted", "rejected"} =>
          /\ records[i].updated_at < records[i].expires_at
          /\ records[i].reviewer \in Human
          /\ records[i].idempotency_key \in Key
          /\ submissions[records[i].idempotency_key] # None
          /\ submissions[records[i].idempotency_key].result = records[i]

\* A key names one decision, which is the one its review still shows.
SubmissionHolds(k) ==
    LET i == submissions[k].submission.id
    IN  /\ records[i] # None /\ records[i] = submissions[k].result
        /\ records[i].status \in {"accepted", "rejected"}
        /\ records[i].idempotency_key = k

ReviewInv ==
    /\ Store!TypeOK
    /\ \A c \in Caller : awaiting[c] # None =>
          awaiting[c].creation.created_at < awaiting[c].creation.expires_at
    /\ \A i \in Review : records[i] # None => RecordHolds(i)
    /\ \A k \in Key : submissions[k] # None => SubmissionHolds(k)

\* A review is created while its id is new, so that nothing is overwritten.
LEMMA CreatedStep ==
    ASSUME Store!RowsAreRows, ReviewInv, NEW c \in Caller, Store!Created(c) PROVE ReviewInv'
<1> DEFINE i == awaiting[c].id
           creation == awaiting[c].creation
<1>1. /\ awaiting[c] \in Store!Awaited /\ i \in Review /\ creation \in Store!Creation
      /\ creation.created_at < creation.expires_at
      /\ awaiting' = [awaiting EXCEPT ![c] = None] /\ UNCHANGED submissions
    BY DEF Store!Created, ReviewInv, Store!TypeOK, Store!Awaited
<1>2. /\ awaiting' \in [Caller -> Store!Awaited \cup {None}]
      /\ \A d \in Caller : awaiting'[d] \in {awaiting[d], None}
    BY <1>1 DEF ReviewInv, Store!TypeOK
<1>3. CASE UNCHANGED <<records, creations>>
    BY <1>1, <1>2, <1>3 DEF ReviewInv, Store!TypeOK, RecordHolds, SubmissionHolds
<1>4. CASE /\ creations[i] = None
           /\ \E advisory \in Store!evaluate_shadow(creation) :
                 records' = [records EXCEPT ![i] =
                     [snapshot |-> creation.snapshot, recommendation |-> advisory,
                      created_at |-> creation.created_at, expires_at |-> creation.expires_at,
                      updated_at |-> creation.created_at, status |-> "pending",
                      reviewer |-> None, advisory_preference |-> None,
                      idempotency_key |-> None]]
           /\ creations' = [creations EXCEPT ![i] = creation]
    <2>1. PICK advisory \in Store!evaluate_shadow(creation) :
             records' = [records EXCEPT ![i] =
                 [snapshot |-> creation.snapshot, recommendation |-> advisory,
                  created_at |-> creation.created_at, expires_at |-> creation.expires_at,
                  updated_at |-> creation.created_at, status |-> "pending",
                  reviewer |-> None, advisory_preference |-> None,
                  idempotency_key |-> None]]
        BY <1>4
    <2> DEFINE row == [snapshot |-> creation.snapshot, recommendation |-> advisory,
                       created_at |-> creation.created_at, expires_at |-> creation.expires_at,
                       updated_at |-> creation.created_at, status |-> "pending",
                       reviewer |-> None, advisory_preference |-> None,
                       idempotency_key |-> None]
    <2>2. row \in Store!ReviewRecord
        BY <1>1, <2>1 DEF Store!ReviewRecord, Store!Creation
    <2>3. row # None /\ creation # None
        BY <1>1, <2>2 DEF Store!RowsAreRows
    <2>4. /\ row.snapshot = creation.snapshot /\ row.created_at = creation.created_at
          /\ row.expires_at = creation.expires_at /\ row.updated_at = row.created_at
          /\ row.status = "pending" /\ row.created_at \in Nat
        BY <1>1 DEF Store!Creation, Store!Time, Store!RowsAreRows
    <2> HIDE DEF row
    <2>5. /\ records' \in [Review -> Store!ReviewRecord \cup {None}] /\ records'[i] = row
          /\ \A j \in Review \ {i} : records'[j] = records[j]
          /\ creations' \in [Review -> Store!Creation \cup {None}] /\ creations'[i] = creation
          /\ \A j \in Review \ {i} : creations'[j] = creations[j]
        BY <1>1, <1>4, <2>1, <2>2 DEF ReviewInv, Store!TypeOK, row
    <2>6. records[i] = None
        BY <1>1, <1>4 DEF ReviewInv, Store!TypeOK
    <2>7. Store!TypeOK'
        BY <1>1, <1>2, <2>3, <2>4, <2>5 DEF ReviewInv, Store!TypeOK
    <2>8. ASSUME NEW j \in Review, records'[j] # None PROVE RecordHolds(j)'
        BY <1>1, <2>4, <2>5, <2>8 DEF ReviewInv, RecordHolds
    <2>9. ASSUME NEW k \in Key, submissions'[k] # None PROVE SubmissionHolds(k)'
        <3>1. submissions[k].submission.id \in Review \ {i}
            BY <1>1, <2>6, <2>9 DEF ReviewInv, Store!TypeOK, SubmissionHolds, Store!Submitted, Store!Submission
        <3>. QED BY <1>1, <2>5, <2>9, <3>1 DEF ReviewInv, SubmissionHolds
    <2>. QED BY <1>2, <2>7, <2>8, <2>9 DEF ReviewInv
<1>. QED BY <1>3, <1>4 DEF Store!Created, Store!StillNew

\* What reading a pending review after its time stores.
LEMMA ReadIsARecord ==
    ASSUME Store!RowsAreRows, ReviewInv, NEW i \in Review, NEW at \in Store!Time,
           Store!Current(i, at)
    PROVE  /\ Store!Read(i, at) \in Store!ReviewRecord
           /\ Store!Read(i, at) # None /\ records[i] # None
           /\ Store!Read(i, at).created_at <= Store!Read(i, at).updated_at
           /\ Store!Read(i, at).snapshot = records[i].snapshot
           /\ Store!Read(i, at).created_at = records[i].created_at
           /\ Store!Read(i, at).expires_at = records[i].expires_at
           /\ Store!Read(i, at).status = "pending" =>
                 Store!Read(i, at) = records[i] /\ at < records[i].expires_at
           /\ Store!Read(i, at).status = "expired" =>
                 Store!Read(i, at).updated_at = records[i].expires_at
           /\ Store!Read(i, at).status \in {"accepted", "rejected"} =>
                 Store!Read(i, at) = records[i]
           /\ records[i].status \in {"accepted", "rejected"} => Store!Read(i, at) = records[i]
<1>1. /\ records[i] # None /\ records[i] \in Store!ReviewRecord
      /\ records[i].created_at <= records[i].updated_at
      /\ records[i].created_at < records[i].expires_at
      /\ records[i].status = "expired" => records[i].updated_at = records[i].expires_at
    BY DEF Store!Current, ReviewInv, Store!TypeOK, RecordHolds
<1>2. /\ records[i].created_at \in Nat /\ records[i].expires_at \in Nat /\ at \in Nat
      /\ records[i].status \in {"pending", "accepted", "rejected", "expired"}
    BY <1>1 DEF Store!ReviewRecord, Store!Time, Store!RowsAreRows
<1>3. CASE ~(records[i].status = "pending" /\ at >= records[i].expires_at)
    <2>1. Store!Read(i, at) = records[i]
        BY <1>3 DEF Store!Read
    <2>. QED BY <1>1, <1>2, <1>3, <2>1
<1>4. CASE records[i].status = "pending" /\ at >= records[i].expires_at
    <2> DEFINE row == [records[i] EXCEPT !.status = "expired", !.updated_at = records[i].expires_at]
    <2>1. Store!Read(i, at) = row
        BY <1>4 DEF Store!Read
    <2>2. /\ row \in Store!ReviewRecord /\ row.status = "expired" /\ row.updated_at = records[i].expires_at
          /\ row.snapshot = records[i].snapshot /\ row.created_at = records[i].created_at
          /\ row.expires_at = records[i].expires_at
        BY <1>1 DEF Store!ReviewRecord
    <2> HIDE DEF row
    <2>3. row # None
        BY <2>2 DEF Store!RowsAreRows
    <2>. QED BY <1>1, <1>2, <1>4, <2>1, <2>2, <2>3
<1>. QED BY <1>3, <1>4

\* A review that is read, decided or found decided.
LEMMA StoredStep ==
    ASSUME Store!RowsAreRows, ReviewInv, NEW i \in Review, NEW at \in Store!Time,
           Store!Current(i, at),
           records' = [records EXCEPT ![i] = Store!Read(i, at)],
           UNCHANGED <<creations, submissions, awaiting>>
    PROVE  ReviewInv'
<1> DEFINE row == Store!Read(i, at)
<1>1. /\ row \in Store!ReviewRecord /\ row # None /\ records[i] # None
      /\ row.created_at <= row.updated_at /\ row.snapshot = records[i].snapshot
      /\ row.created_at = records[i].created_at /\ row.expires_at = records[i].expires_at
      /\ row.status = "expired" => row.updated_at = records[i].expires_at
      /\ row.status \in {"accepted", "rejected"} => row = records[i]
      /\ records[i].status \in {"accepted", "rejected"} => row = records[i]
    BY ReadIsARecord
<1> HIDE DEF row
<1>2. /\ records' \in [Review -> Store!ReviewRecord \cup {None}] /\ records'[i] = row
      /\ \A j \in Review \ {i} : records'[j] = records[j]
    BY <1>1 DEF ReviewInv, Store!TypeOK, row
<1>3. Store!TypeOK'
    BY <1>1, <1>2 DEF ReviewInv, Store!TypeOK
<1>4. ASSUME NEW j \in Review, records'[j] # None PROVE RecordHolds(j)'
    <2>1. CASE j = i
        BY <1>1, <1>2, <2>1 DEF ReviewInv, RecordHolds
    <2>2. CASE j # i
        BY <1>2, <1>4, <2>2 DEF ReviewInv, RecordHolds
    <2>. QED BY <2>1, <2>2
<1>5. ASSUME NEW k \in Key, submissions'[k] # None PROVE SubmissionHolds(k)'
    <2>1. submissions[k].submission.id \in Review /\ submissions[k] # None
        BY <1>5 DEF ReviewInv, Store!TypeOK, Store!Submitted, Store!Submission
    <2>2. SubmissionHolds(k)
        BY <2>1 DEF ReviewInv
    <2>3. records'[submissions[k].submission.id] = records[submissions[k].submission.id]
        BY <1>1, <1>2, <2>1, <2>2 DEF SubmissionHolds
    <2>. QED BY <2>2, <2>3 DEF SubmissionHolds
<1>. QED BY <1>3, <1>4, <1>5 DEF ReviewInv

LEMMA ReviewStep ==
    ASSUME Store!RowsAreRows, ReviewInv, NEW at \in Store!Time, NEW k \in Key,
           NEW s \in Store!Submission, Store!review(k, s, at)
    PROVE  ReviewInv'
<1> DEFINE i == s.id
           found == Store!Read(i, at)
           decided == [found EXCEPT !.status = s.decision, !.reviewer = s.reviewer,
                                    !.advisory_preference = s.preference,
                                    !.idempotency_key = k, !.updated_at = at]
           answer == [submission |-> s, result |-> decided]
<1>1. /\ i \in Review /\ Store!Current(i, at) /\ submissions[k] = None /\ s.reviewer \in Human
      /\ s.decision \in {"accepted", "rejected"} /\ s.preference \in Store!Candidate \cup {None}
      /\ UNCHANGED <<creations, awaiting>>
    BY DEF Store!review, Store!Submittable, Store!Submission
<1>2. CASE records' = [records EXCEPT ![i] = found] /\ UNCHANGED submissions
    BY <1>1, <1>2, StoredStep
<1>3. CASE /\ found.status = "pending"
           /\ records' = [records EXCEPT ![i] = decided]
           /\ submissions' = [submissions EXCEPT ![k] = answer]
    <2>1. /\ found \in Store!ReviewRecord /\ found = records[i] /\ records[i] # None
          /\ found.created_at <= found.updated_at /\ at < found.expires_at
        BY <1>1, <1>3, ReadIsARecord
    <2>2. found.updated_at <= at
        BY <1>1, <2>1 DEF Store!Current
    <2>3. /\ decided \in Store!ReviewRecord /\ decided.snapshot = found.snapshot
          /\ decided.created_at = found.created_at /\ decided.expires_at = found.expires_at
          /\ decided.status = s.decision /\ decided.reviewer = s.reviewer
          /\ decided.idempotency_key = k /\ decided.updated_at = at
        <3> HIDE DEF found
        <3>. QED BY <1>1, <2>1 DEF Store!ReviewRecord
    <2>4. found.created_at <= at
        BY <2>1, <2>2 DEF Store!ReviewRecord, Store!Time, Store!RowsAreRows
    <2> HIDE DEF decided
    <2>5. answer \in Store!Submitted /\ answer.submission = s /\ answer.result = decided
        BY <2>3 DEF Store!Submitted
    <2> HIDE DEF answer
    <2>6. answer # None /\ decided # None
        BY <2>3, <2>5 DEF Store!RowsAreRows
    <2> HIDE DEF found
    <2>7. /\ records' \in [Review -> Store!ReviewRecord \cup {None}] /\ records'[i] = decided
          /\ \A j \in Review \ {i} : records'[j] = records[j]
        BY <1>1, <1>3, <2>3 DEF ReviewInv, Store!TypeOK
    <2>8. /\ submissions' \in [Key -> Store!Submitted \cup {None}] /\ submissions'[k] = answer
          /\ \A h \in Key \ {k} : submissions'[h] = submissions[h]
        BY <1>3, <2>5 DEF ReviewInv, Store!TypeOK
    <2>9. Store!TypeOK'
        BY <1>1, <2>1, <2>3, <2>4, <2>6, <2>7, <2>8 DEF ReviewInv, Store!TypeOK
    <2>10. ASSUME NEW j \in Review, records'[j] # None PROVE RecordHolds(j)'
        <3>1. CASE j = i
            BY <1>1, <2>1, <2>3, <2>5, <2>6, <2>7, <2>8, <3>1 DEF ReviewInv, RecordHolds
        <3>2. CASE j # i
            <4>1. RecordHolds(j) /\ records'[j] = records[j]
                BY <2>7, <2>10, <3>2 DEF ReviewInv
            <4>2. records[j].status \in {"accepted", "rejected"} => records[j].idempotency_key # k
                BY <1>1, <4>1 DEF RecordHolds
            <4>. QED BY <1>1, <2>8, <4>1, <4>2 DEF RecordHolds
        <3>. QED BY <3>1, <3>2
    <2>11. ASSUME NEW h \in Key, submissions'[h] # None PROVE SubmissionHolds(h)'
        <3>1. CASE h = k
            BY <1>1, <2>3, <2>5, <2>6, <2>7, <2>8, <3>1 DEF SubmissionHolds
        <3>2. CASE h # k
            <4>1. SubmissionHolds(h) /\ submissions'[h] = submissions[h]
                BY <2>8, <2>11, <3>2 DEF ReviewInv
            <4>2. submissions[h].submission.id \in Review
                BY <2>8, <2>11, <3>2 DEF ReviewInv, Store!TypeOK, Store!Submitted, Store!Submission
            <4>3. submissions[h].submission.id # i
                BY <1>3, <2>1, <4>1 DEF SubmissionHolds
            <4>. QED BY <2>7, <4>1, <4>2, <4>3 DEF SubmissionHolds
        <3>. QED BY <3>1, <3>2
    <2>. QED BY <1>1, <2>9, <2>10, <2>11 DEF ReviewInv
<1>. QED BY <1>2, <1>3 DEF Store!review

LEMMA StoreStep == ASSUME Store!RowsAreRows, ReviewInv, [Store!Next]_(Store!vars) PROVE ReviewInv'
<1>1. CASE UNCHANGED Store!vars
    BY <1>1 DEF Store!vars, ReviewInv, Store!TypeOK, RecordHolds, SubmissionHolds
<1>2. ASSUME NEW c \in Caller, NEW i \in Review, NEW creation \in Store!Creation, Store!create(c, i, creation)
      PROVE  ReviewInv'
    <2>1. [id |-> i, creation |-> creation] \in Store!Awaited
        BY DEF Store!Awaited
    <2>. QED BY <1>2, <2>1 DEF Store!create, ReviewInv, Store!TypeOK, RecordHolds, SubmissionHolds
<1>3. ASSUME NEW c \in Caller, Store!CreationAborted(c) PROVE ReviewInv'
    BY <1>3 DEF Store!CreationAborted, ReviewInv, Store!TypeOK, RecordHolds, SubmissionHolds
<1>4. ASSUME NEW at \in Store!Time, NEW i \in Review, Store!get(i, at) PROVE ReviewInv'
    BY <1>4, StoredStep DEF Store!get
<1>. QED BY <1>1, <1>2, <1>3, <1>4, CreatedStep, ReviewStep DEF Store!Next

LEMMA ReviewInvariant == Store!Spec => []ReviewInv
<1>1. Store!Init => ReviewInv
    BY DEF Store!Init, ReviewInv, Store!TypeOK
<1>2. ReviewInv /\ [Store!Next]_(Store!vars) => ReviewInv'
    BY StoreStep, ReviewsAssumption
<1>. QED BY <1>1, <1>2, PTL DEF Store!Spec

\* Every state of the staging runs and of the review store is well typed.
THEOREM ServiceTypeCorrect == Spec /\ Store!Spec => []WellTyped
<1>1. TypeOK /\ ReviewInv => WellTyped
    BY DEF ReviewInv, WellTyped
<1>. QED BY <1>1, TypeCorrect, ReviewInvariant, PTL

\* No decision is lost, overwritten or taken too late, however many coroutines
\* create the same review across their awaits.
THEOREM DecisionsAreFinal == Store!Spec => []DecisionsStand
<1>1. ReviewInv => DecisionsStand
    <2>1. SUFFICES ASSUME ReviewInv PROVE Store!DecisionsStand
        BY DEF DecisionsStand
    <2>2. \A k \in Key : submissions[k] # None =>
             records[submissions[k].submission.id] = submissions[k].result
        BY <2>1 DEF ReviewInv, SubmissionHolds
    <2>3. \A i \in Review : creations[i] # None => records[i] # None
        BY <2>1 DEF ReviewInv, Store!TypeOK
    <2>. QED BY <2>1, <2>2, <2>3 DEF ReviewInv, Store!DecisionsStand, RecordHolds
<1>. QED BY <1>1, ReviewInvariant, PTL

=============================================================================
