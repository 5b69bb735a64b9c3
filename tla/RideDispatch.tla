------------------------------ MODULE RideDispatch ------------------------------
(***************************************************************************)
(* What the service is for, told without tables: a ride is requested,      *)
(* given to one free driver, and finished by that driver.  There is no     *)
(* status column here: a driver is free when it has no ride.  TaxiStorage  *)
(* implements this when it starts from consistent tables.                  *)
(***************************************************************************)
CONSTANTS DriverId, RideId

VARIABLES waiting,   \* rides that nobody has taken
          serving,   \* serving[d]: the rides driver d has taken, not finished
          finished   \* rides that are over

dispatchVars == <<waiting, serving, finished>>

Taken(r) == \E d \in DriverId : r \in serving[d]

Known(r) == r \in waiting \cup finished \/ Taken(r)

Init ==
  /\ waiting \in SUBSET RideId
  /\ finished \in SUBSET (RideId \ waiting)
  /\ serving \in [DriverId -> SUBSET (RideId \ (waiting \cup finished))]
  /\ \A d, e \in DriverId : \A q, r \in RideId :
        q \in serving[d] /\ r \in serving[e] => (q = r <=> d = e)

\* CreateRide of taxi_storage.cpp.
Request(r) ==
  /\ ~Known(r)
  /\ waiting' = waiting \cup {r}
  /\ UNCHANGED <<serving, finished>>

\* AcceptRide: only a driver without a ride is given one.
Assign(r, d) ==
  /\ r \in waiting
  /\ serving[d] = {}
  /\ waiting' = waiting \ {r}
  /\ serving' = [serving EXCEPT ![d] = {r}]
  /\ UNCHANGED finished

\* CompleteRide.
Finish(r, d) ==
  /\ r \in serving[d]
  /\ serving' = [serving EXCEPT ![d] = {}]
  /\ finished' = finished \cup {r}
  /\ UNCHANGED waiting

Next ==
  \/ \E r \in RideId : Request(r)
  \/ \E r \in RideId, d \in DriverId : Assign(r, d) \/ Finish(r, d)

Spec == Init /\ [][Next]_dispatchVars
=============================================================================
