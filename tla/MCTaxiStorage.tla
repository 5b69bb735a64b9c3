----------------------------- MODULE MCTaxiStorage -----------------------------
(* Small tables for TaxiStorage: empty ones and ones shaped as data.sql. *)
EXTENDS TaxiStorage

CONSTANTS u1, u2, u3, d1, d2, d3, r1, r2, r3, c1, c2, c3, l1, l2, l3,
          k1, k2, k3

NoDriver == [user |-> Nil, car |-> Nil, license |-> Nil, status |-> "none"]
NoRide == [passenger |-> Nil, driver |-> Nil, status |-> "none"]

EmptyUsers == [u \in UserId |-> Nil]
EmptyDrivers == [d \in DriverId |-> NoDriver]
EmptyRides == [r \in RideId |-> NoRide]

(***************************************************************************)
(* data.sql, one row of each kind: an online driver with an accepted ride  *)
(* (A111AA77, D444DD77), a busy one with none (C333CC77, G777GG77) and an  *)
(* unused driver identity; an accepted, a searching and an unused ride.    *)
(***************************************************************************)
SeededUsers == [u \in UserId |-> CASE u = u1 -> l1 [] u = u2 -> l2 [] OTHER -> Nil]

SeededDrivers ==
  [d \in DriverId |->
     CASE d = d1 -> [user |-> u1, car |-> c1, license |-> k1, status |-> "online"]
       [] d = d2 -> [user |-> u2, car |-> c2, license |-> k2, status |-> "busy"]
       [] OTHER -> NoDriver]

SeededRides ==
  [r \in RideId |->
     CASE r = r1 -> [passenger |-> u2, driver |-> d1, status |-> "accepted"]
       [] r = r2 -> [passenger |-> u1, driver |-> Nil, status |-> "searching"]
       [] OTHER -> NoRide]
=============================================================================
