---------------------------- MODULE MCCachedService ----------------------------
(* Small tables and requests for CachedService. *)
EXTENDS CachedService

CONSTANTS u1, u2, d1, r1, r2, l1, l2, c1, k1, m1, t1, t2, t3

OneUser == [u \in UserId |-> IF u = u1 THEN l1 ELSE Nil]
OneDriver ==
  [d \in DriverId |-> [user |-> u1, car |-> c1, license |-> k1, status |-> "online"]]
NoDrivers ==
  [d \in DriverId |-> [user |-> Nil, car |-> Nil, license |-> Nil, status |-> "none"]]
NoRides == [r \in RideId |-> [passenger |-> Nil, driver |-> Nil, status |-> "none"]]
OneRide ==
  [r \in RideId |->
     IF r = r1 THEN [passenger |-> u1, driver |-> Nil, status |-> "searching"]
               ELSE [passenger |-> Nil, driver |-> Nil, status |-> "none"]]

EveryUser == [m \in Mask |-> UserId]

RideKeys == {HistoryKey(u1), ActiveKey}

\* The login of the user that may be registered, a mask that matches everybody.
AllKeys == {LoginKey(l2), MaskKey(m1), HistoryKey(u1), ActiveKey}
=============================================================================
