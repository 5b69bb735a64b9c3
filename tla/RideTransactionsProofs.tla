------------------------ MODULE RideTransactionsProofs ------------------------
(***************************************************************************)
(* Proofs about RideTransactions, for every set of sessions, drivers and   *)
(* rides and every well-formed initial content of the tables.              *)
(***************************************************************************)
EXTENDS RideTransactions, TaxiStorageProofs

DbInv == DbTypeOK /\ LockHolders /\ TestedRowsHold

\* A session without a call is in a legal state.
LEMMA NoTransactionType == NoTransaction \in Transaction
BY DEF NoTransaction, Transaction, Phase

\* The tables, the transactions and the locks at the start.
LEMMA InitDbInv == DbInit => DbInv
<1> SUFFICES ASSUME DbInit PROVE DbInv
  OBVIOUS
<1>1. TypeOK
  BY StorageAssumption DEF DbInit, Init, TypeOK, InitialTablesWellFormed
<1>2. DbTypeOK
  BY <1>1, NoTransactionType DEF DbInit, DbTypeOK, NoTransaction
<1>3. LockHolders /\ TestedRowsHold
  BY SessionAssumption
  DEF DbInit, LockHolders, TestedRowsHold, TestedRowsHoldFor, Is, NoTransaction
<1>4. QED
  BY <1>2, <1>3 DEF DbInv

\* Taking a session to its next phase leaves a table of transactions.
LEMMA GoToType ==
  ASSUME txn \in [Session -> Transaction], NEW s \in Session,
         NEW pc \in Phase, GoTo(s, pc)
  PROVE  txn' \in [Session -> Transaction]
BY DEF GoTo, Transaction

\* The end of a transaction releases its locks and disturbs no other.
LEMMA EndKeepsOthers ==
  ASSUME DbInv, NEW s \in Session, End(s)
  PROVE  /\ txn' \in [Session -> Transaction]
         /\ driverLock' \in [DriverId -> Session \cup {Nil}]
         /\ rideLock' \in [RideId -> Session \cup {Nil}]
         /\ txn'[s] = NoTransaction
         /\ \A t \in Session : t # s => txn'[t] = txn[t]
         /\ \A d \in DriverId, t \in Session :
              driverLock'[d] = t <=> driverLock[d] = t /\ t # s
         /\ \A r \in RideId, t \in Session :
              rideLock'[r] = t <=> rideLock[r] = t /\ t # s
<1> USE DEF DbInv, DbTypeOK
<1>1. /\ txn' \in [Session -> Transaction]
      /\ txn'[s] = NoTransaction
      /\ \A t \in Session : t # s => txn'[t] = txn[t]
  BY NoTransactionType DEF End
<1>2. /\ driverLock' \in [DriverId -> Session \cup {Nil}]
      /\ \A d \in DriverId, t \in Session :
           driverLock'[d] = t <=> driverLock[d] = t /\ t # s
  BY SessionAssumption DEF End, ReleaseLocks
<1>3. /\ rideLock' \in [RideId -> Session \cup {Nil}]
      /\ \A r \in RideId, t \in Session :
           rideLock'[r] = t <=> rideLock[r] = t /\ t # s
  BY SessionAssumption DEF End, ReleaseLocks
<1>4. QED
  BY <1>1, <1>2, <1>3

\* After End(s) the locks that are left belong to transactions that ran the
\* UPDATE, and a session that counts on a row is not s.
LEMMA EndKeepsLockHolders ==
  ASSUME DbInv, NEW s \in Session, End(s)
  PROVE  LockHolders'
<1>1. ASSUME NEW d \in DriverId, NEW t \in Session, driverLock'[d] = t
      PROVE  /\ txn'[t].driver = d
             /\ \/ txn'[t].pc \in {"commit", "rollback"}
                \/ Is(t, "updateRide", "accept")'
  <2>1. driverLock[d] = t /\ t # s /\ txn'[t] = txn[t]
    BY <1>1, EndKeepsOthers
  <2>2. QED
    BY <2>1 DEF DbInv, LockHolders, Is
<1>2. ASSUME NEW r \in RideId, NEW t \in Session, rideLock'[r] = t
      PROVE  /\ txn'[t].ride = r
             /\ \/ txn'[t].pc \in {"commit", "rollback"}
                \/ Is(t, "updateDriver", "complete")'
  <2>1. rideLock[r] = t /\ t # s /\ txn'[t] = txn[t]
    BY <1>2, EndKeepsOthers
  <2>2. QED
    BY <2>1 DEF DbInv, LockHolders, Is
<1>3. QED
  BY <1>1, <1>2 DEF LockHolders

\* A session that does not move keeps what it tested, if the rows it has locked
\* and its locks stay as they are.
LEMMA WaitingKeepsRows ==
  ASSUME DbInv, NEW t \in Session, txn'[t] = txn[t],
         \A d \in DriverId : driverLock[d] = t =>
            driverLock'[d] = t /\ drivers'[d] = drivers[d],
         \A r \in RideId : rideLock[r] = t =>
            rideLock'[r] = t /\ rides'[r] = rides[r]
  PROVE  TestedRowsHoldFor(t)'
<1> USE DEF DbInv, Is
<1>1. TestedRowsHoldFor(t)
  BY DEF TestedRowsHold
<1>2. txn[t].pc # "idle" => txn[t].ride \in RideId
  BY DEF DbTypeOK
<1>3. txn[t].pc # "idle" /\ txn[t].op = "accept" => txn[t].driver \in DriverId
  BY DEF DbTypeOK
<1>4. Is(t, "commit", "complete") => txn[t].driver \in DriverId
  BY <1>1, <1>2 DEF TestedRowsHoldFor, DbTypeOK, TypeOK, AcceptedRidesHaveDrivers
<1>5. QED
  BY <1>1, <1>2, <1>3, <1>4 DEF TestedRowsHoldFor

\* A call that ends, whatever it commits, as long as it writes only rows it has
\* locked.
LEMMA EndKeepsRows ==
  ASSUME DbInv, NEW s \in Session, End(s),
         \A d \in DriverId : driverLock[d] # s => drivers'[d] = drivers[d],
         \A r \in RideId : rideLock[r] # s => rides'[r] = rides[r]
  PROVE  TestedRowsHold'
<1>1. ASSUME NEW t \in Session, t # s
      PROVE  TestedRowsHoldFor(t)'
  <2>1. txn'[t] = txn[t]
    BY <1>1, EndKeepsOthers
  <2>2. \A d \in DriverId : driverLock[d] = t =>
           driverLock'[d] = t /\ drivers'[d] = drivers[d]
    BY <1>1, EndKeepsOthers
  <2>3. \A r \in RideId : rideLock[r] = t =>
           rideLock'[r] = t /\ rides'[r] = rides[r]
    BY <1>1, EndKeepsOthers
  <2>4. QED
    BY <2>1, <2>2, <2>3, WaitingKeepsRows
<1>2. TestedRowsHoldFor(s)'
  BY EndKeepsOthers DEF TestedRowsHoldFor, Is, NoTransaction
<1>3. QED
  BY <1>1, <1>2 DEF TestedRowsHold

\* The end of a call leaves transactions and locks well typed.
LEMMA EndKeepsType ==
  ASSUME DbInv, NEW s \in Session, End(s), TypeOK'
  PROVE  DbTypeOK'
<1>1. ASSUME NEW t \in Session, txn'[t].pc # "idle"
      PROVE  /\ txn'[t].op \in {"accept", "complete"}
             /\ txn'[t].ride \in RideId
             /\ txn'[t].op = "accept" => txn'[t].driver \in DriverId
  <2>1. txn'[t] = txn[t]
    BY <1>1, EndKeepsOthers DEF NoTransaction
  <2>2. QED
    BY <1>1, <2>1 DEF DbInv, DbTypeOK
<1>2. QED
  BY <1>1, EndKeepsOthers DEF DbTypeOK

\* A call that ends without touching the tables.
LEMMA EndWithoutCommit ==
  ASSUME DbInv, NEW s \in Session, End(s), UNCHANGED vars
  PROVE  DbInv'
<1>1. TypeOK'
  BY NextTypeOK DEF DbInv, DbTypeOK
<1>2. TestedRowsHold'
  BY EndKeepsRows DEF vars
<1>3. QED
  BY <1>1, <1>2, EndKeepsType, EndKeepsLockHolders DEF DbInv

\* CommitAccept does what AcceptRide of TaxiStorage would do at that moment.
LEMMA CommitAcceptIsAcceptRide ==
  ASSUME DbInv, NEW s \in Session, CommitAccept(s)
  PROVE  /\ txn[s].ride \in RideId
         /\ txn[s].driver \in DriverId
         /\ AcceptRide(txn[s].ride, txn[s].driver)
<1>1. /\ drivers[txn[s].driver].status = "online"
      /\ rides[txn[s].ride].status = "searching"
  BY DEF CommitAccept, DbInv, TestedRowsHold, TestedRowsHoldFor
<1>2. txn[s].ride \in RideId /\ txn[s].driver \in DriverId
  BY DEF CommitAccept, Is, DbInv, DbTypeOK
<1>3. QED
  BY <1>1, <1>2 DEF CommitAccept, AcceptRide

\* CommitComplete does what CompleteRide of TaxiStorage would do at that moment,
\* to the driver that the ride still has.
LEMMA CommitCompleteIsCompleteRide ==
  ASSUME DbInv, NEW s \in Session, CommitComplete(s)
  PROVE  /\ txn[s].ride \in RideId
         /\ txn[s].driver \in DriverId
         /\ CompleteRide(txn[s].ride)
<1>1. /\ rides[txn[s].ride].status = "accepted"
      /\ rides[txn[s].ride].driver = txn[s].driver
  BY DEF CommitComplete, DbInv, TestedRowsHold, TestedRowsHoldFor
<1>2. txn[s].ride \in RideId
  BY DEF CommitComplete, Is, DbInv, DbTypeOK
<1>3. txn[s].driver \in DriverId
  BY <1>1, <1>2 DEF DbInv, DbTypeOK, TypeOK, AcceptedRidesHaveDrivers
<1>4. QED
  BY <1>1, <1>2, <1>3 DEF CommitComplete, CompleteRide

\* Either COMMIT writes rows that its transaction has locked, and no others.
LEMMA CommitKeepsInv ==
  ASSUME DbInv, NEW s \in Session, CommitAccept(s) \/ CommitComplete(s)
  PROVE  DbInv'
<1> USE DEF DbInv
<1>1. Next
  BY CommitAcceptIsAcceptRide, CommitCompleteIsCompleteRide DEF Next
<1>2. End(s)
  BY DEF CommitAccept, CommitComplete
<1>3. TypeOK'
  BY <1>1, NextTypeOK DEF DbTypeOK
<1>4. /\ driverLock[txn[s].driver] = s
      /\ rideLock[txn[s].ride] = s
  BY DEF CommitAccept, CommitComplete, TestedRowsHold, TestedRowsHoldFor
<1>5. \A d \in DriverId : driverLock[d] # s => drivers'[d] = drivers[d]
  BY <1>4 DEF CommitAccept, CommitComplete, DbTypeOK, TypeOK
<1>6. \A r \in RideId : rideLock[r] # s => rides'[r] = rides[r]
  BY <1>4 DEF CommitAccept, CommitComplete, DbTypeOK, TypeOK
<1>7. QED
  BY <1>2, <1>3, <1>5, <1>6, EndKeepsType, EndKeepsLockHolders, EndKeepsRows

-----------------------------------------------------------------------------
(* Steps that leave the tables alone and move one session on *)

\* What a step of session s does to the others: nothing, and a lock it takes was
\* free.
OthersStay(s) ==
  /\ UNCHANGED vars
  /\ \A t \in Session : t # s => txn'[t] = txn[t]
  /\ \A d \in DriverId, t \in Session :
       t # s => (driverLock'[d] = t <=> driverLock[d] = t)
  /\ \A r \in RideId, t \in Session :
       t # s => (rideLock'[r] = t <=> rideLock[r] = t)

\* Such a step keeps the invariant if it does so for s itself.
LEMMA StepKeepsInv ==
  ASSUME DbInv, NEW s \in Session, OthersStay(s),
         txn' \in [Session -> Transaction],
         driverLock' \in [DriverId -> Session \cup {Nil}],
         rideLock' \in [RideId -> Session \cup {Nil}],
         txn'[s].pc # "idle" =>
           /\ txn'[s].op \in {"accept", "complete"}
           /\ txn'[s].ride \in RideId
           /\ txn'[s].op = "accept" => txn'[s].driver \in DriverId,
         \A d \in DriverId : driverLock'[d] = s =>
           /\ txn'[s].driver = d
           /\ \/ txn'[s].pc \in {"commit", "rollback"}
              \/ Is(s, "updateRide", "accept")',
         \A r \in RideId : rideLock'[r] = s =>
           /\ txn'[s].ride = r
           /\ \/ txn'[s].pc \in {"commit", "rollback"}
              \/ Is(s, "updateDriver", "complete")',
         TestedRowsHoldFor(s)'
  PROVE  DbInv'
<1> USE DEF DbInv, OthersStay
<1>1. TypeOK'
  BY NextTypeOK DEF DbTypeOK
<1>2. ASSUME NEW t \in Session, txn'[t].pc # "idle"
      PROVE  /\ txn'[t].op \in {"accept", "complete"}
             /\ txn'[t].ride \in RideId
             /\ txn'[t].op = "accept" => txn'[t].driver \in DriverId
  BY <1>2 DEF DbTypeOK
<1>3. DbTypeOK'
  BY <1>1, <1>2 DEF DbTypeOK
<1>4. ASSUME NEW d \in DriverId, NEW t \in Session, driverLock'[d] = t
      PROVE  /\ txn'[t].driver = d
             /\ \/ txn'[t].pc \in {"commit", "rollback"}
                \/ Is(t, "updateRide", "accept")'
  BY <1>4 DEF LockHolders, Is
<1>5. ASSUME NEW r \in RideId, NEW t \in Session, rideLock'[r] = t
      PROVE  /\ txn'[t].ride = r
             /\ \/ txn'[t].pc \in {"commit", "rollback"}
                \/ Is(t, "updateDriver", "complete")'
  BY <1>5 DEF LockHolders, Is
<1>6. LockHolders'
  BY <1>4, <1>5 DEF LockHolders
<1>7. ASSUME NEW t \in Session, t # s
      PROVE  TestedRowsHoldFor(t)'
  BY <1>7, WaitingKeepsRows DEF vars
<1>8. TestedRowsHold'
  BY <1>7 DEF TestedRowsHold
<1>9. QED
  BY <1>3, <1>6, <1>8

\* A session that is idle, or has not run its first UPDATE, holds no lock.
LEMMA NoLockBeforeFirstUpdate ==
  ASSUME DbInv, NEW s \in Session,
         \/ txn[s].pc = "idle"
         \/ Is(s, "updateDriver", "accept")
         \/ Is(s, "updateRide", "complete")
  PROVE  /\ \A d \in DriverId : driverLock[d] # s
         /\ \A r \in RideId : rideLock[r] # s
BY DEF DbInv, LockHolders, Is

\* The snapshots: a call begins.
LEMMA BeginKeepsInv ==
  ASSUME DbInv, NEW s \in Session,
         \/ \E r \in RideId, d \in DriverId : BeginAccept(s, r, d)
         \/ \E r \in RideId : BeginComplete(s, r)
  PROVE  DbInv'
<1>1. txn[s].pc = "idle" /\ UNCHANGED <<vars, locks>>
  BY DEF BeginAccept, BeginComplete
<1>2. txn \in [Session -> Transaction]
  BY DEF DbInv, DbTypeOK
<1>3. PICK new \in Transaction :
        /\ txn' = [txn EXCEPT ![s] = new]
        /\ new.pc \in {"updateDriver", "updateRide"}
        /\ new.op \in {"accept", "complete"}
        /\ new.pc = "updateDriver" <=> new.op = "accept"
        /\ new.ride \in RideId
        /\ new.op = "accept" => new.driver \in DriverId
  <2>1. ASSUME NEW r \in RideId, NEW d \in DriverId, BeginAccept(s, r, d)
        PROVE  [pc |-> "updateDriver", op |-> "accept", ride |-> r,
                driver |-> d, scan |-> AcceptScan(r, d)] \in Transaction
    BY DEF Transaction, Phase, AcceptScan
  <2>2. ASSUME NEW r \in RideId, BeginComplete(s, r)
        PROVE  [pc |-> "updateRide", op |-> "complete", ride |-> r,
                driver |-> Nil, scan |-> CompleteScan(r)] \in Transaction
    BY DEF Transaction, Phase, CompleteScan
  <2>3. QED
    BY <2>1, <2>2 DEF BeginAccept, BeginComplete
<1>4. txn'[s] = new /\ \A t \in Session : t # s => txn'[t] = txn[t]
  BY <1>2, <1>3
<1>5. txn' \in [Session -> Transaction]
  BY <1>2, <1>3
<1>6. OthersStay(s)
  BY <1>1, <1>4 DEF OthersStay, locks
<1>7. /\ \A d \in DriverId : driverLock'[d] # s
      /\ \A r \in RideId : rideLock'[r] # s
  BY <1>1, NoLockBeforeFirstUpdate DEF locks
<1>8. TestedRowsHoldFor(s)'
  BY <1>3, <1>4 DEF TestedRowsHoldFor, Is
<1>9. driverLock' \in [DriverId -> Session \cup {Nil}]
      /\ rideLock' \in [RideId -> Session \cup {Nil}]
  BY <1>1 DEF locks, DbInv, DbTypeOK
<1>10. QED
  BY <1>3, <1>4, <1>5, <1>6, <1>7, <1>8, <1>9, StepKeepsInv

\* What GoTo changes.
LEMMA GoToEffect ==
  ASSUME DbInv, NEW s \in Session, NEW pc \in Phase, GoTo(s, pc)
  PROVE  /\ txn' \in [Session -> Transaction]
         /\ txn'[s].pc = pc
         /\ txn'[s].op = txn[s].op
         /\ txn'[s].ride = txn[s].ride
         /\ txn'[s].driver = txn[s].driver
         /\ \A t \in Session : t # s => txn'[t] = txn[t]
<1>1. txn \in [Session -> Transaction]
  BY DEF DbInv, DbTypeOK
<1>2. txn' \in [Session -> Transaction]
  BY <1>1, GoToType
<1>3. QED
  BY <1>1, <1>2 DEF GoTo, Transaction

\* An UPDATE that found no row in its snapshot; AcceptRide may hold the driver.
LEMMA FindsNothingKeepsInv ==
  ASSUME DbInv, NEW s \in Session,
         \/ AcceptFindsNoDriver(s)
         \/ AcceptFindsNoRide(s)
         \/ CompleteFindsNoRide(s)
  PROVE  DbInv'
<1>1. GoTo(s, "rollback") /\ UNCHANGED <<vars, locks>> /\ txn[s].pc # "idle"
  BY DEF AcceptFindsNoDriver, AcceptFindsNoRide, CompleteFindsNoRide, Is
<1>2. "rollback" \in Phase
  BY DEF Phase
<1>3. /\ txn' \in [Session -> Transaction]
      /\ txn'[s].pc = "rollback"
      /\ txn'[s].op = txn[s].op
      /\ txn'[s].ride = txn[s].ride
      /\ txn'[s].driver = txn[s].driver
      /\ \A t \in Session : t # s => txn'[t] = txn[t]
  BY <1>1, <1>2, GoToEffect
<1>4. OthersStay(s)
  BY <1>1, <1>3 DEF OthersStay, locks
<1>5. /\ \A d \in DriverId : driverLock'[d] = s => txn'[s].driver = d
      /\ \A r \in RideId : rideLock'[r] = s => txn'[s].ride = r
  BY <1>1, <1>3 DEF locks, DbInv, LockHolders
<1>6. TestedRowsHoldFor(s)'
  BY <1>3 DEF TestedRowsHoldFor, Is
<1>7. /\ driverLock' \in [DriverId -> Session \cup {Nil}]
      /\ rideLock' \in [RideId -> Session \cup {Nil}]
      /\ txn'[s].op \in {"accept", "complete"}
      /\ txn'[s].ride \in RideId
      /\ txn'[s].op = "accept" => txn'[s].driver \in DriverId
  BY <1>1, <1>3 DEF locks, DbInv, DbTypeOK
<1>8. QED
  BY <1>3, <1>4, <1>5, <1>6, <1>7, StepKeepsInv

\* AcceptRide locks and tests the driver.
LEMMA AcceptUpdatesDriverKeepsInv ==
  ASSUME DbInv, NEW s \in Session, AcceptUpdatesDriver(s)
  PROVE  DbInv'
<1>1. PICK pc \in {"updateRide", "rollback"} :
        /\ GoTo(s, pc)
        /\ pc = "updateRide" => drivers[txn[s].driver].status = "online"
  BY DEF AcceptUpdatesDriver
<1>2. pc \in Phase
  BY DEF Phase
<1>3. /\ txn' \in [Session -> Transaction]
      /\ txn'[s].pc = pc
      /\ txn'[s].op = txn[s].op
      /\ txn'[s].ride = txn[s].ride
      /\ txn'[s].driver = txn[s].driver
      /\ \A t \in Session : t # s => txn'[t] = txn[t]
  BY <1>1, <1>2, GoToEffect
<1>4. /\ txn[s].op = "accept"
      /\ txn[s].ride \in RideId
      /\ txn[s].driver \in DriverId
      /\ driverLock \in [DriverId -> Session \cup {Nil}]
      /\ rideLock \in [RideId -> Session \cup {Nil}]
  BY DEF AcceptUpdatesDriver, Is, DbInv, DbTypeOK
<1>5. /\ UNCHANGED <<vars, rideLock>>
      /\ driverLock[txn[s].driver] = Nil
      /\ driverLock' = [driverLock EXCEPT ![txn[s].driver] = s]
  BY DEF AcceptUpdatesDriver
<1>6. \A r \in RideId : rideLock'[r] # s
  BY <1>5, NoLockBeforeFirstUpdate DEF AcceptUpdatesDriver
<1>7. \A d \in DriverId : driverLock'[d] = s => d = txn[s].driver
  BY <1>4, <1>5, NoLockBeforeFirstUpdate DEF AcceptUpdatesDriver
<1>8. OthersStay(s)
  BY <1>3, <1>4, <1>5, SessionAssumption DEF OthersStay
<1>9. TestedRowsHoldFor(s)'
  BY <1>1, <1>3, <1>4, <1>5 DEF TestedRowsHoldFor, Is, vars
<1>10. /\ driverLock' \in [DriverId -> Session \cup {Nil}]
       /\ rideLock' \in [RideId -> Session \cup {Nil}]
  BY <1>4, <1>5
<1>11. \A d \in DriverId : driverLock'[d] = s =>
         /\ txn'[s].driver = d
         /\ \/ txn'[s].pc \in {"commit", "rollback"}
            \/ Is(s, "updateRide", "accept")'
  BY <1>3, <1>4, <1>7 DEF Is
<1>12. QED
  BY <1>3, <1>4, <1>6, <1>8, <1>9, <1>10, <1>11, StepKeepsInv

\* AcceptRide, holding the driver, locks and tests the ride.
LEMMA AcceptUpdatesRideKeepsInv ==
  ASSUME DbInv, NEW s \in Session, AcceptUpdatesRide(s)
  PROVE  DbInv'
<1>1. PICK pc \in {"commit", "rollback"} :
        /\ GoTo(s, pc)
        /\ pc = "commit" => rides[txn[s].ride].status = "searching"
  BY DEF AcceptUpdatesRide
<1>2. pc \in Phase
  BY DEF Phase
<1>3. /\ txn' \in [Session -> Transaction]
      /\ txn'[s].pc = pc
      /\ txn'[s].op = txn[s].op
      /\ txn'[s].ride = txn[s].ride
      /\ txn'[s].driver = txn[s].driver
      /\ \A t \in Session : t # s => txn'[t] = txn[t]
  BY <1>1, <1>2, GoToEffect
<1>4. /\ txn[s].op = "accept"
      /\ txn[s].ride \in RideId
      /\ txn[s].driver \in DriverId
      /\ driverLock \in [DriverId -> Session \cup {Nil}]
      /\ rideLock \in [RideId -> Session \cup {Nil}]
  BY DEF AcceptUpdatesRide, Is, DbInv, DbTypeOK
<1>5. /\ UNCHANGED <<vars, driverLock>>
      /\ rideLock[txn[s].ride] = Nil
      /\ rideLock' = [rideLock EXCEPT ![txn[s].ride] = s]
  BY DEF AcceptUpdatesRide
<1>6. /\ driverLock[txn[s].driver] = s
      /\ drivers[txn[s].driver].status = "online"
  BY DEF AcceptUpdatesRide, DbInv, TestedRowsHold, TestedRowsHoldFor
<1>7. /\ \A d \in DriverId : driverLock'[d] = s => d = txn[s].driver
      /\ \A r \in RideId : rideLock'[r] = s => r = txn[s].ride
  BY <1>4, <1>5 DEF DbInv, LockHolders
<1>8. OthersStay(s)
  BY <1>3, <1>4, <1>5, SessionAssumption DEF OthersStay
<1>9. TestedRowsHoldFor(s)'
  BY <1>1, <1>3, <1>4, <1>5, <1>6 DEF TestedRowsHoldFor, Is, vars
<1>10. /\ driverLock' \in [DriverId -> Session \cup {Nil}]
       /\ rideLock' \in [RideId -> Session \cup {Nil}]
  BY <1>4, <1>5
<1>11. QED
  BY <1>1, <1>3, <1>4, <1>7, <1>8, <1>9, <1>10, StepKeepsInv

\* CompleteRide locks and tests the ride, and learns its driver.
LEMMA CompleteUpdatesRideKeepsInv ==
  ASSUME DbInv, NEW s \in Session, CompleteUpdatesRide(s)
  PROVE  DbInv'
<1>1. /\ txn \in [Session -> Transaction]
      /\ txn[s].op = "complete"
      /\ txn[s].ride \in RideId
      /\ driverLock \in [DriverId -> Session \cup {Nil}]
      /\ rideLock \in [RideId -> Session \cup {Nil}]
      /\ rides \in [RideId -> Ride]
  BY DEF CompleteUpdatesRide, Is, DbInv, DbTypeOK, TypeOK
<1>2. /\ UNCHANGED <<vars, driverLock>>
      /\ rideLock[txn[s].ride] = Nil
      /\ rideLock' = [rideLock EXCEPT ![txn[s].ride] = s]
  BY DEF CompleteUpdatesRide
<1>3. /\ txn' \in [Session -> Transaction]
      /\ txn'[s].op = "complete"
      /\ txn'[s].ride = txn[s].ride
      /\ \/ /\ txn'[s].pc = "updateDriver"
            /\ txn'[s].driver = rides[txn[s].ride].driver
            /\ rides[txn[s].ride].status = "accepted"
         \/ txn'[s].pc = "rollback"
      /\ \A t \in Session : t # s => txn'[t] = txn[t]
  <2>1. CASE GoTo(s, "rollback")
    <3>1. "rollback" \in Phase
      BY DEF Phase
    <3>2. QED
      BY <1>1, <2>1, <3>1, GoToEffect
  <2>2. CASE /\ rides[txn[s].ride].status = "accepted"
             /\ txn' = [txn EXCEPT ![s].pc = "updateDriver",
                                   ![s].driver = rides[txn[s].ride].driver]
    <3>1. PICK d \in DriverId \cup {Nil} : rides[txn[s].ride].driver = d
      BY <1>1 DEF Ride
    <3>2. txn' = [txn EXCEPT ![s].pc = "updateDriver", ![s].driver = d]
      BY <2>2, <3>1
    <3>3. txn' \in [Session -> Transaction]
      <4>1. [txn[s] EXCEPT !.pc = "updateDriver", !.driver = d] \in Transaction
        BY <1>1, <3>1 DEF Transaction, Phase
      <4>2. txn' = [txn EXCEPT ![s] =
                      [txn[s] EXCEPT !.pc = "updateDriver", !.driver = d]]
        BY <1>1, <3>2
      <4>3. QED
        BY <1>1, <4>1, <4>2
    <3>4. /\ txn'[s].op = txn[s].op
          /\ txn'[s].ride = txn[s].ride
          /\ txn'[s].pc = "updateDriver"
          /\ txn'[s].driver = d
          /\ \A t \in Session : t # s => txn'[t] = txn[t]
      BY <1>1, <3>2 DEF Transaction
    <3>5. QED
      BY <1>1, <2>2, <3>1, <3>3, <3>4
  <2>3. QED
    BY <2>1, <2>2 DEF CompleteUpdatesRide
<1>4. \A d \in DriverId : driverLock'[d] # s
  BY <1>2, NoLockBeforeFirstUpdate DEF CompleteUpdatesRide
<1>5. \A r \in RideId : rideLock'[r] = s => r = txn[s].ride
  BY <1>1, <1>2, NoLockBeforeFirstUpdate DEF CompleteUpdatesRide
<1>6. OthersStay(s)
  BY <1>1, <1>2, <1>3, SessionAssumption DEF OthersStay
<1>7. TestedRowsHoldFor(s)'
  BY <1>1, <1>2, <1>3 DEF TestedRowsHoldFor, Is, vars
<1>8. /\ driverLock' \in [DriverId -> Session \cup {Nil}]
      /\ rideLock' \in [RideId -> Session \cup {Nil}]
  BY <1>1, <1>2
<1>9. \A r \in RideId : rideLock'[r] = s =>
        /\ txn'[s].ride = r
        /\ \/ txn'[s].pc \in {"commit", "rollback"}
           \/ Is(s, "updateDriver", "complete")'
  BY <1>3, <1>5 DEF Is
<1>10. QED
  BY <1>1, <1>3, <1>4, <1>6, <1>7, <1>8, <1>9, StepKeepsInv

\* CompleteRide, holding the ride, locks its driver.
LEMMA CompleteUpdatesDriverKeepsInv ==
  ASSUME DbInv, NEW s \in Session, CompleteUpdatesDriver(s)
  PROVE  DbInv'
<1>1. "commit" \in Phase /\ GoTo(s, "commit")
  BY DEF Phase, CompleteUpdatesDriver
<1>2. /\ txn' \in [Session -> Transaction]
      /\ txn'[s].pc = "commit"
      /\ txn'[s].op = txn[s].op
      /\ txn'[s].ride = txn[s].ride
      /\ txn'[s].driver = txn[s].driver
      /\ \A t \in Session : t # s => txn'[t] = txn[t]
  BY <1>1, GoToEffect
<1>3. /\ txn[s].op = "complete"
      /\ txn[s].ride \in RideId
      /\ driverLock \in [DriverId -> Session \cup {Nil}]
      /\ rideLock \in [RideId -> Session \cup {Nil}]
  BY DEF CompleteUpdatesDriver, Is, DbInv, DbTypeOK
<1>4. /\ rideLock[txn[s].ride] = s
      /\ rides[txn[s].ride].status = "accepted"
      /\ rides[txn[s].ride].driver = txn[s].driver
  BY DEF CompleteUpdatesDriver, DbInv, TestedRowsHold, TestedRowsHoldFor
<1>5. txn[s].driver \in DriverId
  BY <1>3, <1>4 DEF DbInv, DbTypeOK, TypeOK, AcceptedRidesHaveDrivers
<1>6. /\ UNCHANGED <<vars, rideLock>>
      /\ driverLock[txn[s].driver] = Nil
      /\ driverLock' = [driverLock EXCEPT ![txn[s].driver] = s]
  BY DEF CompleteUpdatesDriver
<1>7. /\ \A d \in DriverId : driverLock'[d] = s => d = txn[s].driver
      /\ \A r \in RideId : rideLock'[r] = s => r = txn[s].ride
  BY <1>3, <1>5, <1>6 DEF DbInv, LockHolders
<1>8. OthersStay(s)
  BY <1>2, <1>3, <1>6, SessionAssumption DEF OthersStay
<1>9. TestedRowsHoldFor(s)'
  BY <1>2, <1>3, <1>4, <1>5, <1>6 DEF TestedRowsHoldFor, Is, vars
<1>10. /\ driverLock' \in [DriverId -> Session \cup {Nil}]
       /\ rideLock' \in [RideId -> Session \cup {Nil}]
  BY <1>3, <1>6
<1>11. QED
  BY <1>2, <1>3, <1>7, <1>8, <1>9, <1>10, StepKeepsInv

\* An INSERT writes a row that nobody has seen, let alone tested.
LEMMA InsertKeepsInv ==
  ASSUME DbInv, Insert
  PROVE  DbInv'
<1> USE DEF DbInv
<1>1. Next /\ UNCHANGED <<txn, locks>>
  BY DEF Insert, Next
<1>2. TypeOK'
  BY <1>1, NextTypeOK DEF DbTypeOK
<1>3. DbTypeOK'
  BY <1>1, <1>2 DEF DbTypeOK, locks
<1>4. LockHolders'
  BY <1>1 DEF LockHolders, Is, locks
<1>5. \A d \in DriverId : drivers[d].status # "none" => drivers'[d] = drivers[d]
  BY DEF Insert, CreateUser, CreateDriver, CreateRide, DbTypeOK, TypeOK
<1>6. \A r \in RideId : rides[r].status # "none" => rides'[r] = rides[r]
  BY DEF Insert, CreateUser, CreateDriver, CreateRide, DbTypeOK, TypeOK
<1>7. ASSUME NEW s \in Session
      PROVE  TestedRowsHoldFor(s)'
  <2>1. TestedRowsHoldFor(s)
    BY DEF TestedRowsHold
  <2>2. Is(s, "updateRide", "accept") \/ Is(s, "commit", "accept") =>
          txn[s].driver \in DriverId /\ txn[s].ride \in RideId
    BY DEF DbTypeOK, Is
  <2>3. Is(s, "updateDriver", "complete") \/ Is(s, "commit", "complete") =>
          txn[s].ride \in RideId
    BY DEF DbTypeOK, Is
  <2>4. QED
    BY <1>1, <1>5, <1>6, <2>1, <2>2, <2>3 DEF TestedRowsHoldFor, Is, locks
<1>8. QED
  BY <1>3, <1>4, <1>7 DEF TestedRowsHold

-----------------------------------------------------------------------------
\* Every step of a transaction, lock or insert keeps the lock discipline.
LEMMA NextDbInv == DbInv /\ [DbNext]_dbVars => DbInv'
<1> SUFFICES ASSUME DbInv, [DbNext]_dbVars
             PROVE  DbInv'
  OBVIOUS
<1>1. CASE Insert
  BY <1>1, InsertKeepsInv
<1>2. ASSUME NEW s \in Session,
             \/ \E r \in RideId, d \in DriverId : BeginAccept(s, r, d)
             \/ \E r \in RideId : BeginComplete(s, r)
      PROVE  DbInv'
  BY <1>2, BeginKeepsInv
<1>3. ASSUME NEW s \in Session, Acquire(s)
      PROVE  DbInv'
  BY <1>3, AcceptUpdatesDriverKeepsInv, AcceptUpdatesRideKeepsInv,
     CompleteUpdatesRideKeepsInv, CompleteUpdatesDriverKeepsInv
  DEF Acquire
<1>4. ASSUME NEW s \in Session, Finish(s)
      PROVE  DbInv'
  <2>1. CASE \/ AcceptFindsNoDriver(s)
             \/ AcceptFindsNoRide(s)
             \/ CompleteFindsNoRide(s)
    BY <2>1, FindsNothingKeepsInv
  <2>2. CASE CommitAccept(s) \/ CommitComplete(s)
    BY <2>2, CommitKeepsInv
  <2>3. CASE Rollback(s)
    BY <2>3, EndWithoutCommit DEF Rollback
  <2>4. QED
    BY <1>4, <2>1, <2>2, <2>3 DEF Finish
<1>5. ASSUME NEW s \in Session, Abort(s) \/ BreakDeadlock(s)
      PROVE  DbInv'
  BY <1>5, EndWithoutCommit DEF Abort, BreakDeadlock
<1>6. CASE UNCHANGED dbVars
  <2>1. UNCHANGED <<vars, users, drivers, rides, txn, driverLock, rideLock>>
    BY <1>6 DEF dbVars, vars, locks
  <2>2. QED
    BY <2>1 DEF DbInv, DbTypeOK, TypeOK, AcceptedRidesHaveDrivers,
                WaitingRidesHaveNone, LockHolders, TestedRowsHold,
                TestedRowsHoldFor, Is
<1>7. QED
  BY <1>1, <1>2, <1>3, <1>4, <1>5, <1>6 DEF DbNext

\* The lock discipline of kAcceptRide and kCompleteRide, inductively.
THEOREM LockDiscipline == DbSpec => []DbInv
BY InitDbInv, NextDbInv, PTL DEF DbSpec

\* Every reachable state is well typed.
THEOREM DbTypeCorrect == DbSpec => []DbTypeOK
<1>1. DbInv => DbTypeOK
  BY DEF DbInv
<1>2. QED
  BY <1>1, LockDiscipline, PTL

\* A row is locked by a session exactly while its call is between the UPDATE of
\* that row and the end of its transaction.
THEOREM LocksFollowCalls == DbSpec => []LockHolders
<1>1. DbInv => LockHolders
  BY DEF DbInv
<1>2. QED
  BY <1>1, LockDiscipline, PTL

\* What AcceptRide and CompleteRide tested under a lock is still true when they
\* commit.
THEOREM NoStaleTest == DbSpec => []TestedRowsHold
<1>1. DbInv => TestedRowsHold
  BY DEF DbInv
<1>2. QED
  BY <1>1, LockDiscipline, PTL

\* Only CommitAccept, CommitComplete and the INSERTs change the tables, and each
\* is a step of TaxiStorage.
LEMMA DbStepIsStorageStep == DbInv /\ [DbNext]_dbVars => [Next]_vars
<1> SUFFICES ASSUME DbInv, [DbNext]_dbVars
             PROVE  [Next]_vars
  OBVIOUS
<1>1. CASE Insert
  BY <1>1 DEF Insert, Next
<1>2. ASSUME NEW s \in Session, CommitAccept(s)
      PROVE  Next
  BY <1>2, CommitAcceptIsAcceptRide DEF Next
<1>3. ASSUME NEW s \in Session, CommitComplete(s)
      PROVE  Next
  BY <1>3, CommitCompleteIsCompleteRide DEF Next
<1>4. ASSUME NEW s \in Session,
             \/ \E r \in RideId, d \in DriverId : BeginAccept(s, r, d)
             \/ \E r \in RideId : BeginComplete(s, r)
             \/ Acquire(s)
             \/ Finish(s) /\ ~CommitAccept(s) /\ ~CommitComplete(s)
             \/ Abort(s)
             \/ BreakDeadlock(s)
      PROVE  UNCHANGED vars
  BY <1>4 DEF BeginAccept, BeginComplete, Acquire, AcceptUpdatesDriver,
     AcceptUpdatesRide, CompleteUpdatesRide, CompleteUpdatesDriver, Finish,
     AcceptFindsNoDriver, AcceptFindsNoRide, CompleteFindsNoRide, Rollback,
     Abort, BreakDeadlock
<1>5. CASE UNCHANGED dbVars
  BY <1>5 DEF dbVars
<1>6. QED
  BY <1>1, <1>2, <1>3, <1>4, <1>5 DEF DbNext

\* Transactions of many sessions act on the tables as the atomic calls of
\* TaxiStorage, one at a time.
THEOREM TransactionsActAtomically == DbSpec => ActsAtomically
<1>1. DbInit => Init
  BY DEF DbInit
<1>2. QED
  BY <1>1, DbStepIsStorageStep, LockDiscipline, PTL DEF DbSpec, ActsAtomically, Spec

\* Hence what is proved of the atomic calls holds of the concurrent ones: from
\* consistent tables, rides are dispatched to free drivers.
THEOREM TransactionsDispatch == InitialConsistent /\ DbSpec => DispatchesRides
BY TransactionsActAtomically, StorageDispatches, PTL DEF ActsAtomically

-----------------------------------------------------------------------------
(***************************************************************************)
(* No deadlock.  Wait-for edges only lead downwards:                       *)
(*                                                                         *)
(*   AcceptRide before the driver  ->  AcceptRide before the ride, or over *)
(*   anyone before the ride        ->  CompleteRide before the driver, or  *)
(*                                     over                                *)
(*   CompleteRide before the driver -> over                                *)
(*                                                                         *)
(* where "over" is a transaction with only COMMIT or ROLLBACK left.  The   *)
(* last line is where consistent tables matter: CompleteRide waits for the *)
(* driver of an accepted ride, which is busy; an AcceptRide that holds it  *)
(* and still waits would have found it online.                             *)
(***************************************************************************)
Over(s) == txn[s].pc \in {"commit", "rollback"}

\* The edges above.
LEMMA WaitsLeadDown ==
  ASSUME DbInv, BusyIffServing, NEW s \in Session, NEW t \in Session,
         WaitsFor(s, t)
  PROVE  /\ ~Over(s)
         /\ Is(s, "updateDriver", "complete") => Over(t)
         /\ txn[s].pc = "updateRide" =>
              Over(t) \/ Is(t, "updateDriver", "complete")
         /\ Is(s, "updateDriver", "accept") =>
              Over(t) \/ Is(t, "updateRide", "accept")
         /\ \/ Is(s, "updateDriver", "complete")
            \/ txn[s].pc = "updateRide"
            \/ Is(s, "updateDriver", "accept")
<1> USE DEF DbInv
<1>1. ~Over(s)
  BY DEF WaitsFor, Over, Is
<1>2. ASSUME Is(s, "updateDriver", "complete")
      PROVE  Over(t)
  <2>1. driverLock[txn[s].driver] = t
    BY <1>2 DEF WaitsFor, Is
  <2>2. /\ txn[s].ride \in RideId
        /\ rides[txn[s].ride].status = "accepted"
        /\ rides[txn[s].ride].driver = txn[s].driver
    BY <1>2 DEF DbTypeOK, TestedRowsHold, TestedRowsHoldFor, Is
  <2>3. txn[s].driver \in DriverId
    BY <2>2 DEF DbTypeOK, TypeOK, AcceptedRidesHaveDrivers
  <2>4. drivers[txn[s].driver].status = "busy"
    BY <2>2, <2>3 DEF BusyIffServing, BusyMeansServing, ServedBy
  <2>5. /\ txn[t].driver = txn[s].driver
        /\ Over(t) \/ Is(t, "updateRide", "accept")
    BY <2>1, <2>3 DEF LockHolders, Over
  <2>6. ~Is(t, "updateRide", "accept")
    BY <2>4, <2>5 DEF TestedRowsHold, TestedRowsHoldFor
  <2>7. QED
    BY <2>5, <2>6
<1>3. ASSUME txn[s].pc = "updateRide"
      PROVE  Over(t) \/ Is(t, "updateDriver", "complete")
  <2>1. rideLock[txn[s].ride] = t /\ txn[s].ride \in RideId
    BY <1>3 DEF WaitsFor, Is, DbTypeOK
  <2>2. QED
    BY <2>1 DEF LockHolders, Over
<1>4. ASSUME Is(s, "updateDriver", "accept")
      PROVE  Over(t) \/ Is(t, "updateRide", "accept")
  <2>1. driverLock[txn[s].driver] = t /\ txn[s].driver \in DriverId
    BY <1>4 DEF WaitsFor, Is, DbTypeOK
  <2>2. QED
    BY <2>1 DEF LockHolders, Over
<1>5. \/ Is(s, "updateDriver", "complete")
      \/ txn[s].pc = "updateRide"
      \/ Is(s, "updateDriver", "accept")
  BY DEF WaitsFor
<1>6. QED
  BY <1>1, <1>2, <1>3, <1>4, <1>5

\* No set of sessions waits on itself.
LEMMA ConsistentMeansNoDeadlock == DbInv /\ BusyIffServing => NoDeadlock
<1> SUFFICES ASSUME DbInv, BusyIffServing, NEW S \in SUBSET Session, Deadlocked(S)
             PROVE  FALSE
  BY DEF NoDeadlock
<1>1. ASSUME NEW s \in S
      PROVE  \E t \in S : s \in Session /\ t \in Session /\ WaitsFor(s, t)
  BY <1>1 DEF Deadlocked
<1>2. \A s \in S : ~Over(s)
  BY <1>1, WaitsLeadDown
<1>3. \A s \in S : ~Is(s, "updateDriver", "complete")
  BY <1>1, <1>2, WaitsLeadDown
<1>4. \A s \in S : txn[s].pc # "updateRide"
  BY <1>1, <1>2, <1>3, WaitsLeadDown
<1>5. \A s \in S : ~Is(s, "updateDriver", "accept")
  BY <1>1, <1>2, <1>4, WaitsLeadDown DEF Is
<1>6. S = {}
  BY <1>1, <1>3, <1>4, <1>5, WaitsLeadDown
<1>7. QED
  BY <1>6 DEF Deadlocked

\* From consistent tables no deadlock can form, although AcceptRide and
\* CompleteRide lock the two tables in opposite orders.
THEOREM DeadlockFree == InitialConsistent /\ DbSpec => []NoDeadlock
<1>1. DbSpec => Spec
  BY TransactionsActAtomically DEF ActsAtomically
<1>2. QED
  BY <1>1, BusyDriversServe, LockDiscipline, ConsistentMeansNoDeadlock, PTL
=============================================================================
