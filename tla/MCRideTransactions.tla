-------------------------- MODULE MCRideTransactions --------------------------
(* Small tables for RideTransactions. *)
EXTENDS RideTransactions

CONSTANTS u1, u2, d1, d2, r1, r2, r3, l1, l2, c1, c2, k1, k2, s1, s2, s3

NoDriver == [user |-> Nil, car |-> Nil, license |-> Nil, status |-> "none"]
NoRide == [passenger |-> Nil, driver |-> Nil, status |-> "none"]

OneUser == [u \in UserId |-> IF u = u1 THEN l1 ELSE Nil]
TwoUsers == [u \in UserId |-> IF u = u1 THEN l1 ELSE l2]

FirstDriver == [user |-> u1, car |-> c1, license |-> k1, status |-> "online"]
SecondDriver == [user |-> u2, car |-> c2, license |-> k2, status |-> "online"]

OnlineDrivers ==
  [d \in DriverId |-> IF d = d1 THEN FirstDriver ELSE SecondDriver]

\* As data.sql has it: driver d1 is online although it serves ride r1.  Ride r2
\* is searching, and r3 can be created.
OneAccepted ==
  [r \in RideId |->
     IF r = r1 THEN [passenger |-> u1, driver |-> d1, status |-> "accepted"]
     ELSE IF r = r2 THEN [passenger |-> u1, driver |-> Nil, status |-> "searching"]
     ELSE NoRide]

\* One user, driver and ride exist; one more of each can be registered.
OneDriver == [d \in DriverId |-> IF d = d1 THEN FirstDriver ELSE NoDriver]
OneRide ==
  [r \in RideId |->
     IF r = r1 THEN [passenger |-> u1, driver |-> Nil, status |-> "searching"]
               ELSE NoRide]
=============================================================================
