--------------------------- MODULE TaxiStorageProofs ---------------------------
(***************************************************************************)
(* Proofs about TaxiStorage, for every set of users, drivers and rides and *)
(* every well-formed initial content of the tables.                        *)
(***************************************************************************)
EXTENDS TaxiStorage, FiniteSetTheorems, TLAPS

\* An UPDATE of the status column leaves a table of drivers.
LEMMA DriverStatusUpdate ==
  ASSUME NEW ds \in [DriverId -> Driver], NEW d \in DriverId,
         NEW st \in DriverStatus
  PROVE  [ds EXCEPT ![d].status = st] \in [DriverId -> Driver]
BY DEF Driver

\* The tables keep their types and references: every row a call of
\* taxi_storage.cpp writes fits schema.sql, an accepted ride has a registered
\* driver and a waiting ride has none.
LEMMA NextTypeOK == TypeOK /\ [Next]_vars => TypeOK'
<1> SUFFICES ASSUME TypeOK, [Next]_vars
             PROVE  TypeOK'
  OBVIOUS
<1> USE StorageAssumption DEF InitialTablesWellFormed, TypeOK, User, Driver,
        Ride, DriverStatus, RideStatus
<1>1. ASSUME NEW u \in UserId, NEW l \in Login, CreateUser(u, l)
      PROVE  TypeOK'
  BY <1>1 DEF CreateUser, AcceptedRidesHaveDrivers, WaitingRidesHaveNone
<1>2. ASSUME NEW d \in DriverId, NEW u \in UserId, NEW c \in Car,
             NEW l \in License, CreateDriver(d, u, c, l)
      PROVE  TypeOK'
  <2>1. drivers' \in [DriverId -> Driver]
    BY <1>2 DEF CreateDriver
  <2>2. AcceptedRidesHaveDrivers(drivers', rides')
    BY <1>2 DEF CreateDriver, AcceptedRidesHaveDrivers
  <2>3. QED
    BY <1>2, <2>1, <2>2 DEF CreateDriver, WaitingRidesHaveNone
<1>3. ASSUME NEW r \in RideId, NEW u \in UserId, CreateRide(r, u)
      PROVE  TypeOK'
  <2>1. rides' \in [RideId -> Ride]
    BY <1>3 DEF CreateRide
  <2>2. AcceptedRidesHaveDrivers(drivers', rides')
    BY <1>3 DEF CreateRide, AcceptedRidesHaveDrivers
  <2>3. WaitingRidesHaveNone(rides')
    BY <1>3 DEF CreateRide, WaitingRidesHaveNone
  <2>4. QED
    BY <1>3, <2>1, <2>2, <2>3 DEF CreateRide
<1>4. ASSUME NEW r \in RideId, NEW d \in DriverId, AcceptRide(r, d)
      PROVE  TypeOK'
  <2>1. rides' \in [RideId -> Ride] /\ drivers' \in [DriverId -> Driver]
    BY <1>4 DEF AcceptRide
  <2>2. AcceptedRidesHaveDrivers(drivers', rides')
    BY <1>4 DEF AcceptRide, AcceptedRidesHaveDrivers
  <2>3. WaitingRidesHaveNone(rides')
    BY <1>4 DEF AcceptRide, WaitingRidesHaveNone
  <2>4. QED
    BY <1>4, <2>1, <2>2, <2>3 DEF AcceptRide
<1>5. ASSUME NEW r \in RideId, CompleteRide(r)
      PROVE  TypeOK'
  <2>1. rides' \in [RideId -> Ride]
    BY <1>5 DEF CompleteRide
  <2>2. PICK d \in DriverId : rides[r].driver = d
    BY <1>5 DEF CompleteRide, AcceptedRidesHaveDrivers
  <2>3. drivers' \in [DriverId -> Driver]
    <3>1. drivers' = [drivers EXCEPT ![d].status = "online"]
      BY <1>5, <2>2 DEF CompleteRide
    <3>2. QED
      BY <2>2, <3>1, DriverStatusUpdate
  <2>4. AcceptedRidesHaveDrivers(drivers', rides')
    BY <1>5 DEF CompleteRide, AcceptedRidesHaveDrivers
  <2>5. WaitingRidesHaveNone(rides')
    BY <1>5 DEF CompleteRide, WaitingRidesHaveNone
  <2>6. QED
    BY <1>5, <2>1, <2>3, <2>4, <2>5 DEF CompleteRide
<1>6. CASE UNCHANGED vars
  BY <1>6 DEF vars, AcceptedRidesHaveDrivers, WaitingRidesHaveNone
<1>7. QED
  BY <1>1, <1>2, <1>3, <1>4, <1>5, <1>6 DEF Next

\* Every reachable state of the tables is well typed.
THEOREM TypeCorrect == Spec => []TypeOK
<1>1. Init => TypeOK
  BY StorageAssumption DEF Init, TypeOK, InitialTablesWellFormed
<1>2. QED
  BY <1>1, NextTypeOK, PTL DEF Spec

-----------------------------------------------------------------------------
\* How one step changes the set of rides a driver serves.
LEMMA ServedByStep ==
  ASSUME TypeOK, NEW d \in DriverId
  PROVE  /\ \A u \in UserId, l \in Login :
              CreateUser(u, l) => ServedBy(d, rides') = ServedBy(d, rides)
         /\ \A e \in DriverId, u \in UserId, c \in Car, l \in License :
              CreateDriver(e, u, c, l) => ServedBy(d, rides') = ServedBy(d, rides)
         /\ \A r \in RideId, u \in UserId :
              CreateRide(r, u) => ServedBy(d, rides') = ServedBy(d, rides)
         /\ \A r \in RideId, e \in DriverId :
              AcceptRide(r, e) =>
                ServedBy(d, rides') =
                  IF e = d THEN ServedBy(d, rides) \cup {r} ELSE ServedBy(d, rides)
         /\ \A r \in RideId :
              CompleteRide(r) => ServedBy(d, rides') = ServedBy(d, rides) \ {r}
<1> USE DEF TypeOK
<1>1. ASSUME NEW u \in UserId, NEW l \in Login, CreateUser(u, l)
      PROVE  ServedBy(d, rides') = ServedBy(d, rides)
  BY <1>1 DEF CreateUser
<1>2. ASSUME NEW e \in DriverId, NEW u \in UserId, NEW c \in Car,
             NEW l \in License, CreateDriver(e, u, c, l)
      PROVE  ServedBy(d, rides') = ServedBy(d, rides)
  BY <1>2 DEF CreateDriver
<1>3. ASSUME NEW r \in RideId, NEW u \in UserId, CreateRide(r, u)
      PROVE  ServedBy(d, rides') = ServedBy(d, rides)
  BY <1>3 DEF CreateRide, ServedBy
<1>4. ASSUME NEW r \in RideId, NEW e \in DriverId, AcceptRide(r, e)
      PROVE  ServedBy(d, rides') =
               IF e = d THEN ServedBy(d, rides) \cup {r} ELSE ServedBy(d, rides)
  <2>1. \A q \in RideId :
          (rides'[q].status = "accepted" /\ rides'[q].driver = d) <=>
            \/ q = r /\ e = d
            \/ rides[q].status = "accepted" /\ rides[q].driver = d
    BY <1>4 DEF AcceptRide, Ride
  <2>2. QED
    BY <2>1 DEF ServedBy
<1>5. ASSUME NEW r \in RideId, CompleteRide(r)
      PROVE  ServedBy(d, rides') = ServedBy(d, rides) \ {r}
  <2>1. \A q \in RideId :
          (rides'[q].status = "accepted" /\ rides'[q].driver = d) <=>
            /\ q # r
            /\ rides[q].status = "accepted" /\ rides[q].driver = d
    BY <1>5 DEF CompleteRide, Ride
  <2>2. QED
    BY <2>1 DEF ServedBy
<1>6. QED
  BY <1>1, <1>2, <1>3, <1>4, <1>5

\* One step preserves the agreement of a driver's status with its rides.  The
\* step of AcceptRide needs the driver to have been online, hence idle; the step
\* of CompleteRide needs the completed ride to have been the only one.
LEMMA NextConsistent ==
  ASSUME TypeOK, [Next]_vars, NEW d \in DriverId, Consistent(d, drivers, rides)
  PROVE  Consistent(d, drivers', rides')
<1> USE DEF Consistent, BusyMeansServing, ServesAtMostOne
<1>1. ASSUME NEW u \in UserId, NEW l \in Login, CreateUser(u, l)
      PROVE  Consistent(d, drivers', rides')
  BY <1>1 DEF CreateUser
<1>2. ASSUME NEW e \in DriverId, NEW u \in UserId, NEW c \in Car,
             NEW l \in License, CreateDriver(e, u, c, l)
      PROVE  Consistent(d, drivers', rides')
  <2>1. ServedBy(d, rides') = ServedBy(d, rides)
    BY <1>2, ServedByStep
  <2>2. drivers'[d].status = "busy" <=> drivers[d].status = "busy"
    BY <1>2 DEF CreateDriver, TypeOK
  <2>3. QED
    BY <2>1, <2>2
<1>3. ASSUME NEW r \in RideId, NEW u \in UserId, CreateRide(r, u)
      PROVE  Consistent(d, drivers', rides')
  <2>1. ServedBy(d, rides') = ServedBy(d, rides)
    BY <1>3, ServedByStep
  <2>2. QED
    BY <1>3, <2>1 DEF CreateRide
<1>4. ASSUME NEW r \in RideId, NEW e \in DriverId, AcceptRide(r, e)
      PROVE  Consistent(d, drivers', rides')
  <2>1. CASE e = d
    <3>1. ServedBy(d, rides) = {}
      BY <1>4, <2>1 DEF AcceptRide
    <3>2. ServedBy(d, rides') = {r}
      BY <1>4, <2>1, <3>1, ServedByStep
    <3>3. drivers'[d].status = "busy"
      BY <1>4, <2>1 DEF AcceptRide, TypeOK, Driver
    <3>4. QED
      BY <3>2, <3>3
  <2>2. CASE e # d
    <3>1. ServedBy(d, rides') = ServedBy(d, rides)
      BY <1>4, <2>2, ServedByStep
    <3>2. drivers'[d] = drivers[d]
      BY <1>4, <2>2 DEF AcceptRide, TypeOK
    <3>3. QED
      BY <3>1, <3>2
  <2>3. QED
    BY <2>1, <2>2
<1>5. ASSUME NEW r \in RideId, CompleteRide(r)
      PROVE  Consistent(d, drivers', rides')
  <2>1. ServedBy(d, rides') = ServedBy(d, rides) \ {r}
    BY <1>5, ServedByStep
  <2>2. CASE rides[r].driver = d
    <3>1. r \in ServedBy(d, rides)
      BY <1>5, <2>2 DEF CompleteRide, ServedBy
    <3>2. ServedBy(d, rides') = {}
      BY <2>1, <3>1
    <3>3. drivers'[d].status = "online"
      BY <1>5, <2>2 DEF CompleteRide, TypeOK, Driver
    <3>4. QED
      BY <3>2, <3>3
  <2>3. CASE rides[r].driver # d
    <3>1. r \notin ServedBy(d, rides)
      BY <2>3 DEF ServedBy
    <3>2. drivers'[d] = drivers[d]
      BY <1>5, <2>3 DEF CompleteRide, TypeOK
    <3>3. QED
      BY <2>1, <3>1, <3>2
  <2>4. QED
    BY <2>2, <2>3
<1>6. CASE UNCHANGED vars
  BY <1>6 DEF vars
<1>7. QED
  BY <1>1, <1>2, <1>3, <1>4, <1>5, <1>6 DEF Next

\* A driver whose status and rides agree agrees for ever, whatever the rest of
\* the tables holds: AcceptRide and CompleteRide keep it so.
THEOREM ConsistencyIsStable == Spec => ConsistentStaysConsistent
<1>1. TypeOK /\ [Next]_vars =>
        \A d \in DriverId :
          Consistent(d, drivers, rides) => Consistent(d, drivers', rides')
  BY NextConsistent
<1>2. TypeOK /\ [Next]_vars =>
        [\A d \in DriverId :
           Consistent(d, drivers, rides) => Consistent(d, drivers', rides')]_vars
  BY <1>1
<1>3. QED
  BY <1>2, TypeCorrect, PTL DEF Spec, ConsistentStaysConsistent

\* From consistent tables, AcceptRide and CompleteRide keep "busy" and "serves
\* an accepted ride" the same thing.
THEOREM BusyDriversServe == InitialConsistent /\ Spec => []BusyIffServing
<1> DEFINE Inv == \A d \in DriverId : Consistent(d, drivers, rides)
<1>1. InitialConsistent /\ Init => Inv
  BY DEF InitialConsistent, Init
<1>2. TypeOK /\ Inv /\ [Next]_vars => Inv'
  BY NextConsistent
<1>3. Inv => BusyIffServing
  BY DEF Consistent, BusyIffServing
<1>4. QED
  BY <1>1, <1>2, <1>3, TypeCorrect, PTL DEF Spec

\* From consistent tables, no driver is ever assigned two accepted rides.
THEOREM DriversAreExclusive == InitialConsistent /\ Spec => []DriverExclusive
<1> DEFINE Inv == \A d \in DriverId : Consistent(d, drivers, rides)
<1>1. InitialConsistent /\ Init => Inv
  BY DEF InitialConsistent, Init
<1>2. TypeOK /\ Inv /\ [Next]_vars => Inv'
  BY NextConsistent
<1>3. Inv => DriverExclusive
  BY DEF Consistent, DriverExclusive
<1>4. QED
  BY <1>1, <1>2, <1>3, TypeCorrect, PTL DEF Spec

-----------------------------------------------------------------------------
\* One step preserves that a driver is stranded.
LEMMA NextStranded ==
  ASSUME TypeOK, [Next]_vars, NEW d \in DriverId, Stranded(d, drivers, rides)
  PROVE  Stranded(d, drivers', rides')
<1> USE DEF Stranded
<1>1. ASSUME NEW u \in UserId, NEW l \in Login, CreateUser(u, l)
      PROVE  Stranded(d, drivers', rides')
  BY <1>1 DEF CreateUser
<1>2. ASSUME NEW e \in DriverId, NEW u \in UserId, NEW c \in Car,
             NEW l \in License, CreateDriver(e, u, c, l)
      PROVE  Stranded(d, drivers', rides')
  <2>1. drivers'[d] = drivers[d]
    BY <1>2 DEF CreateDriver, TypeOK
  <2>2. ServedBy(d, rides') = ServedBy(d, rides)
    BY <1>2, ServedByStep
  <2>3. QED
    BY <2>1, <2>2
<1>3. ASSUME NEW r \in RideId, NEW u \in UserId, CreateRide(r, u)
      PROVE  Stranded(d, drivers', rides')
  <2>1. ServedBy(d, rides') = ServedBy(d, rides)
    BY <1>3, ServedByStep
  <2>2. QED
    BY <1>3, <2>1 DEF CreateRide
<1>4. ASSUME NEW r \in RideId, NEW e \in DriverId, AcceptRide(r, e)
      PROVE  Stranded(d, drivers', rides')
  <2>1. e # d
    BY <1>4 DEF AcceptRide
  <2>2. drivers'[d] = drivers[d]
    BY <1>4, <2>1 DEF AcceptRide, TypeOK
  <2>3. ServedBy(d, rides') = ServedBy(d, rides)
    BY <1>4, <2>1, ServedByStep
  <2>4. QED
    BY <2>2, <2>3
<1>5. ASSUME NEW r \in RideId, CompleteRide(r)
      PROVE  Stranded(d, drivers', rides')
  <2>1. rides[r].driver # d
    BY <1>5 DEF CompleteRide, ServedBy
  <2>2. drivers'[d] = drivers[d]
    BY <1>5, <2>1 DEF CompleteRide, TypeOK
  <2>3. ServedBy(d, rides') = ServedBy(d, rides) \ {r}
    BY <1>5, ServedByStep
  <2>4. QED
    BY <2>2, <2>3
<1>6. CASE UNCHANGED vars
  BY <1>6 DEF vars
<1>7. QED
  BY <1>1, <1>2, <1>3, <1>4, <1>5, <1>6 DEF Next

\* No sequence of calls brings back a driver that is busy or offline and serves
\* no ride.
THEOREM StrandedStays == Spec => StrandedForEver
<1>1. TypeOK /\ [Next]_vars =>
        [\A d \in DriverId :
           Stranded(d, drivers, rides) => Stranded(d, drivers', rides')]_vars
  BY NextStranded
<1>2. QED
  BY <1>1, TypeCorrect, PTL DEF Spec, StrandedForEver

\* One step never adds to the rides a driver holds beyond its status.
LEMMA NextExcess ==
  ASSUME IsFiniteSet(RideId), TypeOK, [Next]_vars, NEW d \in DriverId
  PROVE  Excess(d, drivers', rides') <= Excess(d, drivers, rides)
<1> DEFINE served == ServedBy(d, rides)
<1>1. IsFiniteSet(served) /\ Cardinality(served) \in Nat
  BY FS_Subset, FS_CardinalityType DEF ServedBy
<1>2. ASSUME served' = served,
             drivers'[d].status = "busy" <=> drivers[d].status = "busy"
      PROVE  Excess(d, drivers', rides') <= Excess(d, drivers, rides)
  BY <1>1, <1>2 DEF Excess
<1>3. ASSUME NEW u \in UserId, NEW l \in Login, CreateUser(u, l)
      PROVE  Excess(d, drivers', rides') <= Excess(d, drivers, rides)
  BY <1>2, <1>3 DEF CreateUser
<1>4. ASSUME NEW e \in DriverId, NEW u \in UserId, NEW c \in Car,
             NEW l \in License, CreateDriver(e, u, c, l)
      PROVE  Excess(d, drivers', rides') <= Excess(d, drivers, rides)
  <2>1. served' = served
    BY <1>4, ServedByStep
  <2>2. drivers'[d].status = "busy" <=> drivers[d].status = "busy"
    BY <1>4 DEF CreateDriver, TypeOK
  <2>3. QED
    BY <1>2, <2>1, <2>2
<1>5. ASSUME NEW r \in RideId, NEW u \in UserId, CreateRide(r, u)
      PROVE  Excess(d, drivers', rides') <= Excess(d, drivers, rides)
  <2>1. served' = served
    BY <1>5, ServedByStep
  <2>2. QED
    BY <1>2, <1>5, <2>1 DEF CreateRide
<1>6. ASSUME NEW r \in RideId, NEW e \in DriverId, AcceptRide(r, e)
      PROVE  Excess(d, drivers', rides') <= Excess(d, drivers, rides)
  <2>1. CASE e = d
    <3>1. served' = served \cup {r}
      BY <1>6, <2>1, ServedByStep
    <3>2. r \notin served
      BY <1>6 DEF AcceptRide, ServedBy
    <3>3. Cardinality(served') = Cardinality(served) + 1
      BY <1>1, <3>1, <3>2, FS_AddElement
    <3>4. drivers[d].status # "busy" /\ drivers'[d].status = "busy"
      BY <1>6, <2>1 DEF AcceptRide, TypeOK, Driver
    <3>5. QED
      BY <1>1, <3>3, <3>4 DEF Excess
  <2>2. CASE e # d
    <3>1. served' = served
      BY <1>6, <2>2, ServedByStep
    <3>2. drivers'[d] = drivers[d]
      BY <1>6, <2>2 DEF AcceptRide, TypeOK
    <3>3. QED
      BY <1>2, <3>1, <3>2
  <2>3. QED
    BY <2>1, <2>2
<1>7. ASSUME NEW r \in RideId, CompleteRide(r)
      PROVE  Excess(d, drivers', rides') <= Excess(d, drivers, rides)
  <2>1. served' = served \ {r}
    BY <1>7, ServedByStep
  <2>2. CASE rides[r].driver = d
    <3>1. r \in served
      BY <1>7, <2>2 DEF CompleteRide, ServedBy
    <3>2. Cardinality(served') = Cardinality(served) - 1
      BY <1>1, <2>1, <3>1, FS_RemoveElement
    <3>3. drivers'[d].status # "busy"
      BY <1>7, <2>2 DEF CompleteRide, TypeOK, Driver
    <3>4. QED
      BY <1>1, <3>2, <3>3 DEF Excess
  <2>3. CASE rides[r].driver # d
    <3>1. served' = served
      BY <2>1, <2>3 DEF ServedBy
    <3>2. drivers'[d] = drivers[d]
      BY <1>7, <2>3 DEF CompleteRide, TypeOK
    <3>3. QED
      BY <1>2, <3>1, <3>2
  <2>4. QED
    BY <2>2, <2>3
<1>8. CASE UNCHANGED vars
  BY <1>2, <1>8 DEF vars
<1>9. QED
  BY <1>3, <1>4, <1>5, <1>6, <1>7, <1>8 DEF Next

\* Inconsistent rows that were loaded are never made worse.
THEOREM ExcessIsBounded ==
  ASSUME IsFiniteSet(RideId)
  PROVE  Spec => ExcessNeverGrows
<1>1. TypeOK /\ [Next]_vars =>
        [\A d \in DriverId :
           Excess(d, drivers', rides') <= Excess(d, drivers, rides)]_vars
  BY NextExcess
<1>2. QED
  BY <1>1, TypeCorrect, PTL DEF Spec, ExcessNeverGrows

\* A ride moves only forward and never loses its passenger or its driver.
THEOREM RidesMoveForward == Spec => RideLifecycle
<1> DEFINE Step ==
      \A r \in RideId :
        /\ \/ rides'[r].status = rides[r].status
           \/ <<rides[r].status, rides'[r].status>> \in RideStep
        /\ rides[r].status # "none" => rides'[r].passenger = rides[r].passenger
        /\ rides[r].driver # Nil => rides'[r].driver = rides[r].driver
<1>1. ASSUME TypeOK, [Next]_vars
      PROVE  Step
  <2> USE <1>1 DEF TypeOK, Ride
  <2>1. CASE UNCHANGED rides
    BY <2>1
  <2>2. ASSUME NEW r \in RideId, NEW u \in UserId, CreateRide(r, u)
        PROVE  Step
    BY <2>2 DEF CreateRide, WaitingRidesHaveNone, RideStep
  <2>3. ASSUME NEW r \in RideId, NEW d \in DriverId, AcceptRide(r, d)
        PROVE  Step
    BY <2>3 DEF AcceptRide, WaitingRidesHaveNone, RideStep
  <2>4. ASSUME NEW r \in RideId, CompleteRide(r)
        PROVE  Step
    BY <2>4 DEF CompleteRide, RideStep
  <2>5. QED
    BY <1>1, <2>1, <2>2, <2>3, <2>4 DEF Next, vars, CreateUser, CreateDriver
<1>2. TypeOK /\ [Next]_vars => [Step]_vars
  BY <1>1
<1>3. QED
  BY <1>2, TypeCorrect, PTL DEF Spec, RideLifecycle

-----------------------------------------------------------------------------
(***************************************************************************)
(* TaxiStorage implements RideDispatch.  Under the mapping of TaxiStorage, *)
(* CreateRide is Request, AcceptRide is Assign (an online driver is free,  *)
(* because its status and its rides agree), CompleteRide is Finish (the    *)
(* completed ride was the only one of its driver), and CreateUser and      *)
(* CreateDriver are stuttering steps.                                      *)
(***************************************************************************)
AllConsistent == \A d \in DriverId : Consistent(d, drivers, rides)

waitingRides == {r \in RideId : rides[r].status = "searching"}
servedRides == [d \in DriverId |-> ServedBy(d, rides)]
finishedRides == {r \in RideId : rides[r].status \in {"completed", "cancelled"}}

\* CreateRide requests a ride that was not known.
LEMMA CreateRideIsRequest ==
  ASSUME TypeOK, NEW r \in RideId, NEW u \in UserId, CreateRide(r, u)
  PROVE  Dispatch!Request(r)
<1> USE DEF TypeOK, Ride
<1>1. ~Dispatch!Known(r)
  BY DEF Dispatch!Known, Dispatch!Taken, CreateRide, ServedBy
<1>2. waitingRides' = waitingRides \cup {r}
  BY DEF waitingRides, CreateRide
<1>3. finishedRides' = finishedRides
  BY DEF finishedRides, CreateRide
<1>4. servedRides' = servedRides
  BY ServedByStep DEF servedRides
<1>5. QED
  BY <1>1, <1>2, <1>3, <1>4
  DEF Dispatch!Request, waitingRides, servedRides, finishedRides

\* AcceptRide assigns a waiting ride to a driver without a ride.
LEMMA AcceptRideIsAssign ==
  ASSUME TypeOK, AllConsistent, NEW r \in RideId, NEW d \in DriverId,
         AcceptRide(r, d)
  PROVE  Dispatch!Assign(r, d)
<1> USE DEF TypeOK, Ride
<1>1. r \in waitingRides
  BY DEF waitingRides, AcceptRide
<1>2. ServedBy(d, rides) = {}
  BY DEF AllConsistent, Consistent, BusyMeansServing, AcceptRide
<1>3. waitingRides' = waitingRides \ {r}
  BY DEF waitingRides, AcceptRide
<1>4. finishedRides' = finishedRides
  BY DEF finishedRides, AcceptRide
<1>5. servedRides' = [servedRides EXCEPT ![d] = {r}]
  <2>1. \A e \in DriverId :
          ServedBy(e, rides') = IF e = d THEN {r} ELSE ServedBy(e, rides)
    BY <1>2, ServedByStep
  <2>2. QED
    BY <2>1 DEF servedRides
<1>6. QED
  BY <1>1, <1>2, <1>3, <1>4, <1>5
  DEF Dispatch!Assign, waitingRides, servedRides, finishedRides

\* CompleteRide finishes the only ride of its driver.
LEMMA CompleteRideIsFinish ==
  ASSUME TypeOK, AllConsistent, NEW r \in RideId, CompleteRide(r)
  PROVE  \E d \in DriverId : Dispatch!Finish(r, d)
<1> USE DEF TypeOK, Ride
<1>1. PICK d \in DriverId : rides[r].driver = d
  BY DEF CompleteRide, AcceptedRidesHaveDrivers
<1>2. r \in ServedBy(d, rides)
  BY <1>1 DEF CompleteRide, ServedBy
<1>3. ServedBy(d, rides) = {r}
  BY <1>2 DEF AllConsistent, Consistent, ServesAtMostOne
<1>4. waitingRides' = waitingRides
  BY DEF waitingRides, CompleteRide
<1>5. finishedRides' = finishedRides \cup {r}
  BY DEF finishedRides, CompleteRide
<1>6. servedRides' = [servedRides EXCEPT ![d] = {}]
  <2>1. \A e \in DriverId : ServedBy(e, rides') = ServedBy(e, rides) \ {r}
    BY ServedByStep
  <2>2. \A e \in DriverId : e # d => ServedBy(e, rides) \ {r} = ServedBy(e, rides)
    BY <1>1 DEF ServedBy
  <2>3. \A e \in DriverId :
          ServedBy(e, rides') = IF e = d THEN {} ELSE ServedBy(e, rides)
    BY <1>3, <2>1, <2>2
  <2>4. QED
    BY <1>1, <2>3 DEF servedRides
<1>7. Dispatch!Finish(r, d)
  BY <1>2, <1>4, <1>5, <1>6
  DEF Dispatch!Finish, waitingRides, servedRides, finishedRides
<1>8. QED
  BY <1>7

\* From consistent tables, the service dispatches rides to free drivers.
THEOREM StorageDispatches == InitialConsistent /\ Spec => DispatchesRides
<1>1. InitialConsistent /\ Init => AllConsistent
  BY DEF InitialConsistent, Init, AllConsistent
<1>2. TypeOK /\ AllConsistent /\ [Next]_vars => AllConsistent'
  BY NextConsistent DEF AllConsistent
<1>3. TypeOK /\ AllConsistent => Dispatch!Init
  <2> SUFFICES ASSUME TypeOK, AllConsistent PROVE Dispatch!Init
    OBVIOUS
  <2>1. \A d, e \in DriverId : \A q, r \in RideId :
          q \in ServedBy(d, rides) /\ r \in ServedBy(e, rides) => (q = r <=> d = e)
    BY DEF AllConsistent, Consistent, ServesAtMostOne, ServedBy
  <2>2. servedRides \in
          [DriverId -> SUBSET (RideId \ (waitingRides \cup finishedRides))]
    BY DEF servedRides, ServedBy, waitingRides, finishedRides
  <2>3. finishedRides \in SUBSET (RideId \ waitingRides)
    BY DEF waitingRides, finishedRides
  <2>4. QED
    BY <2>1, <2>2, <2>3
    DEF Dispatch!Init, waitingRides, servedRides, finishedRides
<1>4. TypeOK /\ AllConsistent /\ [Next]_vars => [Dispatch!Next]_(Dispatch!dispatchVars)
  <2> SUFFICES ASSUME TypeOK, AllConsistent, [Next]_vars
               PROVE  [Dispatch!Next]_(Dispatch!dispatchVars)
    OBVIOUS
  <2>1. CASE UNCHANGED rides
    BY <2>1 DEF Dispatch!dispatchVars, ServedBy
  <2>2. ASSUME NEW r \in RideId, NEW u \in UserId, CreateRide(r, u)
        PROVE  Dispatch!Next
    BY <2>2, CreateRideIsRequest DEF Dispatch!Next
  <2>3. ASSUME NEW r \in RideId, NEW d \in DriverId, AcceptRide(r, d)
        PROVE  Dispatch!Next
    BY <2>3, AcceptRideIsAssign DEF Dispatch!Next
  <2>4. ASSUME NEW r \in RideId, CompleteRide(r)
        PROVE  Dispatch!Next
    BY <2>4, CompleteRideIsFinish DEF Dispatch!Next
  <2>5. QED
    BY <2>1, <2>2, <2>3, <2>4 DEF Next, vars, CreateUser, CreateDriver
<1>5. QED
  BY <1>1, <1>2, <1>3, <1>4, TypeCorrect, PTL
  DEF Spec, DispatchesRides, Dispatch!Spec
=============================================================================
