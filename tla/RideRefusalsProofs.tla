-------------------------- MODULE RideRefusalsProofs --------------------------
(***************************************************************************)
(* Proof that a refusal of AcceptRide or CompleteRide is justified by the  *)
(* tables at some moment of the call.                                      *)
(***************************************************************************)
EXTENDS RideRefusals, RideTransactionsProofs

(***************************************************************************)
(* Why it holds: a call that was possible all along was possible when it   *)
(* took its snapshot, so the snapshot holds every row it needs, and it is  *)
(* possible at each lock it gets, so no second test fails.                 *)
(***************************************************************************)
JustifiedFor(s) ==
  /\ Possible(s)
  /\ txn[s].pc \notin {"idle", "rollback"}
  /\ txn[s].op = "accept" => {"driver", "ride"} \subseteq txn[s].scan
  /\ txn[s].op = "complete" => "ride" \in txn[s].scan

IdleIsEmpty == \A s \in Session : txn[s].pc = "idle" => txn[s].op = "none"

RefusalInv ==
  /\ alwaysPossible \in SUBSET Session
  /\ IdleIsEmpty
  /\ \A s \in alwaysPossible : JustifiedFor(s)

\* A session without a transaction has no call that could be possible.
LEMMA NextIdleIsEmpty ==
  ASSUME DbInv, IdleIsEmpty, [DbNext]_dbVars
  PROVE  IdleIsEmpty'
<1> USE DEF IdleIsEmpty
<1>1. txn \in [Session -> Transaction]
  BY DEF DbInv, DbTypeOK
<1>2. ASSUME NEW s \in Session, End(s)
      PROVE  IdleIsEmpty'
  BY <1>1, <1>2 DEF End, NoTransaction
<1>3. ASSUME NEW s \in Session, NEW pc \in Phase \ {"idle"}, GoTo(s, pc)
      PROVE  IdleIsEmpty'
  <2>1. txn'[s].pc = pc /\ \A t \in Session : t # s => txn'[t] = txn[t]
    BY <1>1, <1>3 DEF GoTo, Transaction
  <2>2. pc # "idle"
    BY <1>3
  <2>3. QED
    BY <2>1, <2>2
<1>4. ASSUME NEW s \in Session,
             \/ \E r \in RideId, d \in DriverId : BeginAccept(s, r, d)
             \/ \E r \in RideId : BeginComplete(s, r)
      PROVE  IdleIsEmpty'
  BY <1>1, <1>4 DEF BeginAccept, BeginComplete
<1>5. {"updateDriver", "updateRide", "commit", "rollback"} = Phase \ {"idle"}
  BY DEF Phase
<1>6. ASSUME NEW s \in Session, CompleteUpdatesRide(s)
      PROVE  IdleIsEmpty'
  <2>1. CASE GoTo(s, "rollback")
    BY <1>3, <1>5, <2>1
  <2>2. CASE txn' = [txn EXCEPT ![s].pc = "updateDriver",
                                ![s].driver = rides[txn[s].ride].driver]
    <3>1. /\ txn'[s].pc = "updateDriver"
          /\ \A t \in Session : t # s => txn'[t] = txn[t]
      BY <1>1, <2>2 DEF Transaction
    <3>2. QED
      BY <3>1
  <2>3. QED
    BY <1>6, <2>1, <2>2 DEF CompleteUpdatesRide
<1>7. ASSUME NEW s \in Session,
             Acquire(s) \/ Finish(s) \/ Abort(s) \/ BreakDeadlock(s)
      PROVE  IdleIsEmpty'
  BY <1>2, <1>3, <1>5, <1>6, <1>7
  DEF Acquire, Finish, Abort, BreakDeadlock, Rollback, CommitAccept,
      CommitComplete, AcceptFindsNoDriver, AcceptFindsNoRide,
      CompleteFindsNoRide, AcceptUpdatesDriver, AcceptUpdatesRide,
      CompleteUpdatesDriver
<1>8. CASE Insert
  BY <1>8 DEF Insert
<1>9. CASE UNCHANGED dbVars
  BY <1>9 DEF dbVars
<1>10. QED
  BY <1>4, <1>7, <1>8, <1>9 DEF DbNext

\* What one step does to session s: nothing, its end, its begin, or one phase.
\* A call that may still succeed is not sent to "rollback".
LEMMA PossibleGoesOn ==
  ASSUME DbInv, [DbNext]_dbVars, NEW s \in Session, txn[s].pc # "idle",
         JustifiedFor(s), Possible(s)'
  PROVE  JustifiedFor(s)'
<1> USE DEF JustifiedFor
<1>1. txn \in [Session -> Transaction]
  BY DEF DbInv, DbTypeOK
<1>2. CASE txn'[s] = txn[s]
  BY <1>2
<1>3. ASSUME NEW t \in Session, t # s,
             txn' = [txn EXCEPT ![t] = txn'[t]]
      PROVE  txn'[s] = txn[s]
  BY <1>1, <1>3
<1>4. ASSUME End(s)
      PROVE  FALSE
  BY <1>1, <1>4 DEF End, NoTransaction, Possible
<1>5. ASSUME NEW pc \in {"updateDriver", "updateRide", "commit"}, GoTo(s, pc)
      PROVE  JustifiedFor(s)'
  BY <1>1, <1>5 DEF GoTo, Transaction
<1>6. ASSUME NEW t \in Session, t # s,
             \/ End(t)
             \/ \E pc \in Phase : GoTo(t, pc)
             \/ CompleteUpdatesRide(t)
             \/ \E r \in RideId, d \in DriverId : BeginAccept(t, r, d)
             \/ \E r \in RideId : BeginComplete(t, r)
      PROVE  txn'[s] = txn[s]
  BY <1>1, <1>6 DEF End, GoTo, CompleteUpdatesRide, BeginAccept, BeginComplete
<1>7. CASE AcceptFindsNoDriver(s) \/ AcceptFindsNoRide(s) \/ CompleteFindsNoRide(s)
  BY <1>7 DEF AcceptFindsNoDriver, AcceptFindsNoRide, CompleteFindsNoRide, Is
<1>8. CASE AcceptUpdatesDriver(s)
  BY <1>5, <1>8 DEF AcceptUpdatesDriver, Possible, Is
<1>9. CASE AcceptUpdatesRide(s)
  BY <1>5, <1>9 DEF AcceptUpdatesRide, Possible, Is
<1>10. CASE CompleteUpdatesRide(s)
  <2>1. rides[txn[s].ride].status = "accepted"
    BY <1>10 DEF CompleteUpdatesRide, Possible, Is
  <2>2. txn'[s].pc = "updateDriver" /\ txn'[s].op = txn[s].op
        /\ txn'[s].scan = txn[s].scan
    BY <1>1, <1>10, <2>1 DEF CompleteUpdatesRide, Transaction
  <2>3. QED
    BY <2>2
<1>11. CASE CompleteUpdatesDriver(s)
  BY <1>5, <1>11 DEF CompleteUpdatesDriver
<1>12. CASE Rollback(s) \/ Abort(s) \/ BreakDeadlock(s) \/ CommitAccept(s)
            \/ CommitComplete(s)
  BY <1>4, <1>12 DEF Rollback, Abort, BreakDeadlock, CommitAccept, CommitComplete
<1>13. CASE \/ \E r \in RideId, d \in DriverId : BeginAccept(s, r, d)
            \/ \E r \in RideId : BeginComplete(s, r)
  BY <1>13 DEF BeginAccept, BeginComplete
<1>14. ASSUME NEW t \in Session, t # s,
              \/ \E r \in RideId, d \in DriverId : BeginAccept(t, r, d)
              \/ \E r \in RideId : BeginComplete(t, r)
              \/ Acquire(t) \/ Finish(t) \/ Abort(t) \/ BreakDeadlock(t)
       PROVE  txn'[s] = txn[s]
  <2>1. {"updateDriver", "updateRide", "commit", "rollback"} \subseteq Phase
    BY DEF Phase
  <2>2. CASE CompleteUpdatesRide(t)
    BY <1>6, <1>14, <2>2
  <2>3. CASE ~CompleteUpdatesRide(t)
    BY <1>6, <1>14, <2>1, <2>3
    DEF Acquire, Finish, Abort, BreakDeadlock, Rollback, CommitAccept,
        CommitComplete, AcceptFindsNoDriver, AcceptFindsNoRide,
        CompleteFindsNoRide, AcceptUpdatesDriver, AcceptUpdatesRide,
        CompleteUpdatesDriver
  <2>4. QED
    BY <2>2, <2>3
<1>15. CASE Insert \/ UNCHANGED dbVars
  BY <1>2, <1>15 DEF Insert, dbVars
<1>16. QED
  BY <1>2, <1>7, <1>8, <1>9, <1>10, <1>11, <1>12, <1>13, <1>14, <1>15
  DEF DbNext, Acquire, Finish

\* A call that begins and is possible has every row it needs in its snapshot.
LEMMA BeginIsJustified ==
  ASSUME DbInv, IdleIsEmpty, [DbNext]_dbVars, NEW s \in Session,
         txn[s].pc = "idle", Possible(s)'
  PROVE  JustifiedFor(s)'
<1>1. txn \in [Session -> Transaction]
  BY DEF DbInv, DbTypeOK
<1>2. txn'[s] # txn[s]
  BY DEF IdleIsEmpty, Possible
<1>3. ASSUME NEW r \in RideId, NEW d \in DriverId, BeginAccept(s, r, d)
      PROVE  JustifiedFor(s)'
  <2>1. txn'[s] = [pc |-> "updateDriver", op |-> "accept", ride |-> r,
                   driver |-> d, scan |-> AcceptScan(r, d)]
    BY <1>1, <1>3 DEF BeginAccept
  <2>2. drivers[d].status = "online" /\ rides[r].status = "searching"
    BY <1>3, <2>1 DEF Possible, BeginAccept, vars
  <2>3. AcceptScan(r, d) = {"driver", "ride"}
    BY <2>2 DEF AcceptScan
  <2>4. QED
    BY <2>1, <2>3 DEF JustifiedFor
<1>4. ASSUME NEW r \in RideId, BeginComplete(s, r)
      PROVE  JustifiedFor(s)'
  <2>1. txn'[s] = [pc |-> "updateRide", op |-> "complete", ride |-> r,
                   driver |-> Nil, scan |-> CompleteScan(r)]
    BY <1>1, <1>4 DEF BeginComplete
  <2>2. rides[r].status = "accepted"
    BY <1>4, <2>1 DEF Possible, BeginComplete, vars
  <2>3. "ride" \in CompleteScan(r)
    BY <2>2 DEF CompleteScan
  <2>4. QED
    BY <2>1, <2>3 DEF JustifiedFor
<1>5. ASSUME NEW t \in Session, t # s, txn' = [txn EXCEPT ![t] = txn'[t]]
      PROVE  FALSE
  BY <1>1, <1>2, <1>5
<1>6. ASSUME NEW t \in Session, t # s,
             \/ End(t)
             \/ \E pc \in Phase : GoTo(t, pc)
             \/ CompleteUpdatesRide(t)
             \/ \E r \in RideId, d \in DriverId : BeginAccept(t, r, d)
             \/ \E r \in RideId : BeginComplete(t, r)
      PROVE  FALSE
  BY <1>1, <1>2, <1>6
  DEF End, GoTo, CompleteUpdatesRide, BeginAccept, BeginComplete
<1>7. ASSUME NEW t \in Session,
             Acquire(t) \/ Finish(t) \/ Abort(t) \/ BreakDeadlock(t)
      PROVE  txn[t].pc # "idle"
  BY <1>7
  DEF Acquire, Finish, Abort, BreakDeadlock, Rollback, CommitAccept,
      CommitComplete, AcceptFindsNoDriver, AcceptFindsNoRide, Is, WaitsFor,
      CompleteFindsNoRide, AcceptUpdatesDriver, AcceptUpdatesRide,
      CompleteUpdatesDriver, CompleteUpdatesRide, Deadlocked
<1>8. ASSUME NEW t \in Session, t # s,
             Acquire(t) \/ Finish(t) \/ Abort(t) \/ BreakDeadlock(t)
      PROVE  FALSE
  <2>1. {"updateDriver", "updateRide", "commit", "rollback"} \subseteq Phase
    BY DEF Phase
  <2>2. CASE CompleteUpdatesRide(t)
    BY <1>6, <1>8, <2>2
  <2>3. CASE ~CompleteUpdatesRide(t)
    BY <1>6, <1>8, <2>1, <2>3
    DEF Acquire, Finish, Abort, BreakDeadlock, Rollback, CommitAccept,
        CommitComplete, AcceptFindsNoDriver, AcceptFindsNoRide,
        CompleteFindsNoRide, AcceptUpdatesDriver, AcceptUpdatesRide,
        CompleteUpdatesDriver
  <2>4. QED
    BY <2>2, <2>3
<1>9. CASE Insert \/ UNCHANGED dbVars
  BY <1>2, <1>9 DEF Insert, dbVars
<1>10. QED
  BY <1>3, <1>4, <1>6, <1>7, <1>8, <1>9 DEF DbNext

\* AcceptRide and CompleteRide answer nullopt only if at some moment of the call
\* the committed tables did not allow it.
THEOREM RefusalsAreJustified == HistorySpec => []RefusedOnlyIfImpossible
<1>1. HistoryInit => DbInv /\ RefusalInv
  BY InitDbInv DEF HistoryInit, RefusalInv, IdleIsEmpty, DbInit, NoTransaction
<1>2. DbInv /\ RefusalInv /\ [HistoryNext]_<<dbVars, alwaysPossible>>
        => (DbInv /\ RefusalInv)'
  <2> SUFFICES ASSUME DbInv, RefusalInv, [HistoryNext]_<<dbVars, alwaysPossible>>
               PROVE  (DbInv /\ RefusalInv)'
    OBVIOUS
  <2>1. [DbNext]_dbVars
    BY DEF HistoryNext
  <2>2. DbInv' /\ IdleIsEmpty'
    BY <2>1, NextDbInv, NextIdleIsEmpty DEF RefusalInv
  <2>3. CASE Observe
    <3>1. alwaysPossible' \in SUBSET Session
      BY <2>3 DEF Observe
    <3>2. ASSUME NEW s \in alwaysPossible'
          PROVE  JustifiedFor(s)'
      <4>1. /\ s \in Session
            /\ Possible(s)'
            /\ txn[s].pc = "idle" \/ s \in alwaysPossible
        BY <2>3, <3>2 DEF Observe
      <4>2. QED
        BY <2>1, <4>1, PossibleGoesOn, BeginIsJustified DEF RefusalInv
    <3>3. QED
      BY <2>2, <3>1, <3>2 DEF RefusalInv
  <2>4. CASE UNCHANGED <<dbVars, alwaysPossible>>
    <3>1. UNCHANGED <<users, drivers, rides, txn, alwaysPossible>>
      BY <2>4 DEF dbVars, vars
    <3>2. QED
      BY <2>2, <3>1 DEF RefusalInv, JustifiedFor, Possible
  <2>5. QED
    BY <2>3, <2>4 DEF HistoryNext
<1>3. RefusalInv => RefusedOnlyIfImpossible
  BY DEF RefusalInv, RefusedOnlyIfImpossible, JustifiedFor
<1>4. QED
  BY <1>1, <1>2, <1>3, PTL DEF HistorySpec
=============================================================================
