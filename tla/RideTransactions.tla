--------------------------- MODULE RideTransactions ---------------------------
(***************************************************************************)
(* How AcceptRide and CompleteRide of taxi_storage.cpp run in PostgreSQL.  *)
(* Each is one transaction of one statement at READ COMMITTED, and the     *)
(* statement is a WITH of two UPDATEs:                                     *)
(*                                                                         *)
(*   kAcceptRide    the driver row, then, if that matched, the ride row;   *)
(*   kCompleteRide  the ride row, then the row of that ride's driver.      *)
(*                                                                         *)
(* An UPDATE looks for its row in the snapshot the whole statement took,   *)
(* waits for the lock on the row, and once it has the lock tests its       *)
(* conditions again on the committed version of the row.  A row that fails *)
(* the second test stays locked and unchanged.  The new versions of the    *)
(* rows become visible to others at COMMIT.                                *)
(*                                                                         *)
(* The variables of TaxiStorage are the committed tables, and the claim of *)
(* this module is that they still satisfy TaxiStorage's Spec: at its       *)
(* commit, every call does to the tables exactly what the atomic call of   *)
(* that module would do at that moment.                                    *)
(***************************************************************************)
EXTENDS TaxiStorage

CONSTANT Session             \* connections of the pool, one transaction each

VARIABLES txn,                     \* txn[s]: the transaction of session s
          driverLock, rideLock     \* the session that holds each row, or Nil

locks == <<driverLock, rideLock>>
dbVars == <<vars, txn, locks>>

ASSUME SessionAssumption == Nil \notin Session

(***************************************************************************)
(* pc names the next step of the transaction: the UPDATE it is about to    *)
(* run, or the COMMIT or ROLLBACK the C++ code issues on its result.  scan *)
(* is the set of rows the statement found in its snapshot.                 *)
(***************************************************************************)
Phase == {"idle", "updateDriver", "updateRide", "commit", "rollback"}

Transaction == [pc     : Phase,
                op     : {"accept", "complete", "none"},
                ride   : RideId \cup {Nil},
                driver : DriverId \cup {Nil},
                scan   : SUBSET {"driver", "ride"}]

NoTransaction ==
  [pc |-> "idle", op |-> "none", ride |-> Nil, driver |-> Nil, scan |-> {}]

DbInit ==
  /\ Init
  /\ txn = [s \in Session |-> NoTransaction]
  /\ driverLock = [d \in DriverId |-> Nil]
  /\ rideLock = [r \in RideId |-> Nil]

Is(s, pc, op) == txn[s].pc = pc /\ txn[s].op = op

GoTo(s, pc) == txn' = [txn EXCEPT ![s].pc = pc]

ReleaseLocks(s) ==
  /\ driverLock' = [d \in DriverId |->
                      IF driverLock[d] = s THEN Nil ELSE driverLock[d]]
  /\ rideLock' = [r \in RideId |->
                    IF rideLock[r] = s THEN Nil ELSE rideLock[r]]

End(s) ==
  /\ txn' = [txn EXCEPT ![s] = NoTransaction]
  /\ ReleaseLocks(s)

-----------------------------------------------------------------------------
(* AcceptRide *)

AcceptScan(r, d) ==
  {x \in {"driver", "ride"} :
     \/ x = "driver" /\ drivers[d].status = "online"
     \/ x = "ride" /\ rides[r].status = "searching"}

\* Begin, and the snapshot of kAcceptRide.
BeginAccept(s, r, d) ==
  /\ txn[s].pc = "idle"
  /\ txn' = [txn EXCEPT ![s] =
               [pc |-> "updateDriver", op |-> "accept", ride |-> r,
                driver |-> d, scan |-> AcceptScan(r, d)]]
  /\ UNCHANGED <<vars, locks>>

\* updated_driver found no online driver, so EXISTS is false and the ride is
\* not even looked at.
AcceptFindsNoDriver(s) ==
  /\ Is(s, "updateDriver", "accept")
  /\ "driver" \notin txn[s].scan
  /\ GoTo(s, "rollback")
  /\ UNCHANGED <<vars, locks>>

\* updated_driver has no WHERE id = $2; or does not test the driver again; or gives
\* up instead of waiting for the lock.
AcceptUpdatesDriver_EveryDriver(s) ==
  /\ Is(s, "updateDriver", "accept")
  /\ "driver" \in txn[s].scan
  /\ driverLock[txn[s].driver] = Nil
  /\ driverLock' = [d \in DriverId |->
                      IF driverLock[d] = Nil /\ drivers[d].status = "online"
                      THEN s ELSE driverLock[d]]
  /\ \/ /\ drivers[txn[s].driver].status = "online"
        /\ GoTo(s, "updateRide")
     \/ /\ drivers[txn[s].driver].status # "online"
        /\ GoTo(s, "rollback")
  /\ UNCHANGED <<vars, rideLock>>

AcceptUpdatesDriver_NoSecondTest(s) ==
  /\ Is(s, "updateDriver", "accept")
  /\ "driver" \in txn[s].scan
  /\ driverLock[txn[s].driver] = Nil
  /\ driverLock' = [driverLock EXCEPT ![txn[s].driver] = s]
  /\ GoTo(s, "updateRide")
  /\ UNCHANGED <<vars, rideLock>>

AcceptUpdatesDriver_NoWait(s) ==
  /\ Is(s, "updateDriver", "accept")
  /\ "driver" \in txn[s].scan
  /\ \/ /\ driverLock[txn[s].driver] = Nil
        /\ drivers[txn[s].driver].status = "online"
        /\ driverLock' = [driverLock EXCEPT ![txn[s].driver] = s]
        /\ GoTo(s, "updateRide")
     \/ /\ \/ driverLock[txn[s].driver] # Nil
           \/ drivers[txn[s].driver].status # "online"
        /\ GoTo(s, "rollback")
        /\ UNCHANGED driverLock
  /\ UNCHANGED <<vars, rideLock>>

\* updated_driver gets its lock and tests the driver again.
AcceptUpdatesDriver(s) ==
  /\ Is(s, "updateDriver", "accept")
  /\ "driver" \in txn[s].scan
  /\ driverLock[txn[s].driver] = Nil
  /\ driverLock' = [driverLock EXCEPT ![txn[s].driver] = s]
  /\ \/ /\ drivers[txn[s].driver].status = "online"
        /\ GoTo(s, "updateRide")
     \/ /\ drivers[txn[s].driver].status # "online"
        /\ GoTo(s, "rollback")
  /\ UNCHANGED <<vars, rideLock>>

\* updated_ride found no searching ride: the driver is already marked busy, and
\* only the ROLLBACK of taxi_storage.cpp:382 takes that back.
AcceptFindsNoRide(s) ==
  /\ Is(s, "updateRide", "accept")
  /\ "ride" \notin txn[s].scan
  /\ GoTo(s, "rollback")
  /\ UNCHANGED <<vars, locks>>

\* updated_ride does not test the ride again.
AcceptUpdatesRide_NoSecondTest(s) ==
  /\ Is(s, "updateRide", "accept")
  /\ "ride" \in txn[s].scan
  /\ rideLock[txn[s].ride] = Nil
  /\ rideLock' = [rideLock EXCEPT ![txn[s].ride] = s]
  /\ GoTo(s, "commit")
  /\ UNCHANGED <<vars, driverLock>>

\* updated_ride gets its lock and tests the ride again.
AcceptUpdatesRide(s) ==
  /\ Is(s, "updateRide", "accept")
  /\ "ride" \in txn[s].scan
  /\ rideLock[txn[s].ride] = Nil
  /\ rideLock' = [rideLock EXCEPT ![txn[s].ride] = s]
  /\ \/ /\ rides[txn[s].ride].status = "searching"
        /\ GoTo(s, "commit")
     \/ /\ rides[txn[s].ride].status # "searching"
        /\ GoTo(s, "rollback")
  /\ UNCHANGED <<vars, driverLock>>

\* The statement does not set driver_id.
CommitAccept_WithoutDriverId(s) ==
  /\ Is(s, "commit", "accept")
  /\ drivers' = [drivers EXCEPT ![txn[s].driver].status = "busy"]
  /\ rides' = [rides EXCEPT ![txn[s].ride].status = "accepted"]
  /\ End(s)
  /\ UNCHANGED users

\* COMMIT publishes the two new row versions.
CommitAccept(s) ==
  /\ Is(s, "commit", "accept")
  /\ drivers' = [drivers EXCEPT ![txn[s].driver].status = "busy"]
  /\ rides' = [rides EXCEPT ![txn[s].ride].driver = txn[s].driver,
                            ![txn[s].ride].status = "accepted"]
  /\ End(s)
  /\ UNCHANGED users

-----------------------------------------------------------------------------
(* CompleteRide *)

CompleteScan(r) == {x \in {"ride"} : rides[r].status = "accepted"}

\* Begin, and the snapshot of kCompleteRide.
BeginComplete(s, r) ==
  /\ txn[s].pc = "idle"
  /\ txn' = [txn EXCEPT ![s] =
               [pc |-> "updateRide", op |-> "complete", ride |-> r,
                driver |-> Nil, scan |-> CompleteScan(r)]]
  /\ UNCHANGED <<vars, locks>>

CompleteFindsNoRide(s) ==
  /\ Is(s, "updateRide", "complete")
  /\ "ride" \notin txn[s].scan
  /\ GoTo(s, "rollback")
  /\ UNCHANGED <<vars, locks>>

\* updated_ride gets its lock, tests the ride again and returns its driver_id.
CompleteUpdatesRide(s) ==
  /\ Is(s, "updateRide", "complete")
  /\ "ride" \in txn[s].scan
  /\ rideLock[txn[s].ride] = Nil
  /\ rideLock' = [rideLock EXCEPT ![txn[s].ride] = s]
  /\ \/ /\ rides[txn[s].ride].status = "accepted"
        /\ txn' = [txn EXCEPT ![s].pc = "updateDriver",
                              ![s].driver = rides[txn[s].ride].driver]
     \/ /\ rides[txn[s].ride].status # "accepted"
        /\ GoTo(s, "rollback")
  /\ UNCHANGED <<vars, driverLock>>

\* updated_driver gets its lock; it has no condition to test again but the id.
CompleteUpdatesDriver(s) ==
  /\ Is(s, "updateDriver", "complete")
  /\ driverLock[txn[s].driver] = Nil
  /\ driverLock' = [driverLock EXCEPT ![txn[s].driver] = s]
  /\ GoTo(s, "commit")
  /\ UNCHANGED <<vars, rideLock>>

CommitComplete(s) ==
  /\ Is(s, "commit", "complete")
  /\ rides' = [rides EXCEPT ![txn[s].ride].status = "completed"]
  /\ drivers' = [drivers EXCEPT ![txn[s].driver].status = "online"]
  /\ End(s)
  /\ UNCHANGED users

-----------------------------------------------------------------------------
(* The other ends of a transaction, and the calls that are one INSERT *)

\* COMMIT is sent whether the statement returned a row or not.
Rollback_Commits(s) ==
  /\ txn[s].pc = "rollback"
  /\ drivers' = [d \in DriverId |->
                   IF Is(s, "rollback", "accept") /\ driverLock[d] = s
                      /\ drivers[d].status = "online"
                   THEN [drivers[d] EXCEPT !.status = "busy"] ELSE drivers[d]]
  /\ End(s)
  /\ UNCHANGED <<users, rides>>

\* A call that was refused is tried again, in a new transaction.
Rollback_Retries(s) ==
  /\ txn[s].pc = "rollback"
  /\ LET r == txn[s].ride  d == txn[s].driver
     IN  txn' = [txn EXCEPT ![s] =
           IF txn[s].op = "accept"
             THEN [@ EXCEPT !.pc = "updateDriver", !.scan = AcceptScan(r, d)]
             ELSE [@ EXCEPT !.pc = "updateRide", !.scan = CompleteScan(r)]]
  /\ ReleaseLocks(s)
  /\ UNCHANGED vars

\* The statement returned no row: transaction.Rollback(), and nullopt, which
\* the handlers answer with 409.
Rollback(s) ==
  /\ txn[s].pc = "rollback"
  /\ End(s)
  /\ UNCHANGED vars

\* The connection or the service is lost before the COMMIT took effect;
\* PostgreSQL rolls the transaction back.
Abort(s) ==
  /\ txn[s].pc # "idle"
  /\ End(s)
  /\ UNCHANGED vars

\* Session s cannot move before session t ends.
WaitsFor(s, t) ==
  \/ /\ Is(s, "updateDriver", "accept")
     /\ "driver" \in txn[s].scan
     /\ driverLock[txn[s].driver] = t
  \/ /\ Is(s, "updateDriver", "complete")
     /\ driverLock[txn[s].driver] = t
  \/ /\ txn[s].pc = "updateRide"
     /\ "ride" \in txn[s].scan
     /\ rideLock[txn[s].ride] = t

Deadlocked(S) == S # {} /\ \A s \in S : \E t \in S : WaitsFor(s, t)

\* PostgreSQL's deadlock detector rolls back one transaction of a cycle; the
\* exception leaves AcceptRide or CompleteRide as an error.
BreakDeadlock(s) ==
  /\ \E S \in SUBSET Session : s \in S /\ Deadlocked(S)
  /\ End(s)
  /\ UNCHANGED vars

\* CreateUser, CreateDriver and CreateRide are single INSERTs.
Insert ==
  /\ \/ \E u \in UserId, l \in Login : CreateUser(u, l)
     \/ \E d \in DriverId, u \in UserId, c \in Car, l \in License :
           CreateDriver(d, u, c, l)
     \/ \E r \in RideId, u \in UserId : CreateRide(r, u)
  /\ UNCHANGED <<txn, locks>>

Acquire(s) ==
  \/ AcceptUpdatesDriver(s)
  \/ AcceptUpdatesRide(s)
  \/ CompleteUpdatesRide(s)
  \/ CompleteUpdatesDriver(s)

Finish(s) ==
  \/ AcceptFindsNoDriver(s)
  \/ AcceptFindsNoRide(s)
  \/ CompleteFindsNoRide(s)
  \/ CommitAccept(s)
  \/ CommitComplete(s)
  \/ Rollback(s)

DbNext ==
  \/ Insert
  \/ \E s \in Session :
       \/ \E r \in RideId, d \in DriverId : BeginAccept(s, r, d)
       \/ \E r \in RideId : BeginComplete(s, r)
       \/ Acquire(s)
       \/ Finish(s)
       \/ Abort(s)
       \/ BreakDeadlock(s)

(***************************************************************************)
(* Fairness.  The C++ code goes from one statement to the next without     *)
(* waiting for anybody (weak fairness of Finish).  PostgreSQL queues the   *)
(* transactions that wait for a row and wakes them in order, so a waiter   *)
(* gets the row if it is released again and again (strong fairness of      *)
(* Acquire).  Nothing makes a client call or a connection fail.            *)
(***************************************************************************)
DbSpec == DbInit /\ [][DbNext]_dbVars

FairSpec ==
  /\ DbSpec
  /\ \A s \in Session : WF_dbVars(Finish(s)) /\ SF_dbVars(Acquire(s))

\* The deadlock detector runs after deadlock_timeout.
FairDetectorSpec ==
  /\ FairSpec
  /\ \A s \in Session : WF_dbVars(BreakDeadlock(s))

-----------------------------------------------------------------------------
(***************************************************************************)
(* Properties                                                              *)
(***************************************************************************)

\* The tables have the types of TaxiStorage, a running call names the rows it
\* was given, and a lock is held by a session or by nobody.
DbTypeOK ==
  /\ TypeOK
  /\ txn \in [Session -> Transaction]
  /\ driverLock \in [DriverId -> Session \cup {Nil}]
  /\ rideLock \in [RideId -> Session \cup {Nil}]
  /\ \A s \in Session : txn[s].pc # "idle" =>
       /\ txn[s].op \in {"accept", "complete"}
       /\ txn[s].ride \in RideId
       /\ txn[s].op = "accept" => txn[s].driver \in DriverId

\* A lock outlives no transaction, and only one that has run the UPDATE of the
\* row holds it: AcceptRide the driver's first, CompleteRide the ride's.
LockHolders ==
  /\ \A d \in DriverId, s \in Session : driverLock[d] = s =>
       /\ txn[s].driver = d
       /\ txn[s].pc \in {"commit", "rollback"} \/ Is(s, "updateRide", "accept")
  /\ \A r \in RideId, s \in Session : rideLock[r] = s =>
       /\ txn[s].ride = r
       /\ \/ txn[s].pc \in {"commit", "rollback"}
          \/ Is(s, "updateDriver", "complete")

TestedRowsHoldFor(s) ==
  /\ Is(s, "updateRide", "accept") =>
       /\ driverLock[txn[s].driver] = s
       /\ drivers[txn[s].driver].status = "online"
  /\ Is(s, "commit", "accept") =>
       /\ driverLock[txn[s].driver] = s
       /\ rideLock[txn[s].ride] = s
       /\ drivers[txn[s].driver].status = "online"
       /\ rides[txn[s].ride].status = "searching"
  /\ Is(s, "updateDriver", "complete") \/ Is(s, "commit", "complete") =>
       /\ rideLock[txn[s].ride] = s
       /\ rides[txn[s].ride].status = "accepted"
       /\ rides[txn[s].ride].driver = txn[s].driver
  /\ Is(s, "commit", "complete") => driverLock[txn[s].driver] = s

\* What a transaction tested under a lock is still true in the committed tables
\* when it commits, although it does not test it again: no INSERT and no COMMIT
\* of another session can have touched the row.
TestedRowsHold == \A s \in Session : TestedRowsHoldFor(s)

\* Concurrent AcceptRide and CompleteRide calls act on the tables as if each
\* ran alone, at its COMMIT: no driver is given two rides, no ride two drivers,
\* and no half of a call stays behind after a Rollback, an abort or a crash.
ActsAtomically == Spec

\* AcceptRide locks driver then ride, CompleteRide ride then driver; even so no
\* cycle of waiting transactions can form, as long as the tables the service
\* started from were consistent.
NoDeadlock == \A S \in SUBSET Session : ~Deadlocked(S)

\* Every call that has begun ends: it commits, or rolls back.
EveryCallEnds == \A s \in Session : txn[s].pc # "idle" ~> txn[s].pc = "idle"
=============================================================================
