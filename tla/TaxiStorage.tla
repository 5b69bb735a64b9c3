------------------------------ MODULE TaxiStorage ------------------------------
(***************************************************************************)
(* What class TaxiStorage (src/src/storage/taxi_storage.cpp) promises over *)
(* the tables of src/schema.sql: every call that succeeds is one atomic    *)
(* step, and every call that is refused leaves the tables alone (here, a   *)
(* stuttering step).  How PostgreSQL runs AcceptRide and CompleteRide, row *)
(* by row and concurrently, is the subject of RideTransactions, which      *)
(* implements this module.                                                 *)
(*                                                                         *)
(* A row that was never inserted has status "none" (users: Nil).  Names,   *)
(* passwords, car models, addresses and timestamps are not modelled: no    *)
(* statement that changes a row looks at them.                             *)
(***************************************************************************)
EXTENDS Integers, FiniteSets

CONSTANTS UserId, DriverId, RideId,        \* identities the tables can issue
          Login, Car, License,             \* values of the UNIQUE columns
          Nil,                             \* SQL NULL
          InitialUsers, InitialDrivers, InitialRides

VARIABLES users,    \* users[u]: the login, Nil before the row is inserted
          drivers,  \* drivers[d]: user_id, car_number, license_number, status
          rides     \* rides[r]: passenger_id, driver_id, status

vars == <<users, drivers, rides>>

DriverStatus == {"online", "busy", "offline"}
RideStatus == {"searching", "accepted", "completed", "cancelled"}

User == Login \cup {Nil}

Driver == [user    : UserId \cup {Nil},
           car     : Car \cup {Nil},
           license : License \cup {Nil},
           status  : DriverStatus \cup {"none"}]

Ride == [passenger : UserId \cup {Nil},
         driver    : DriverId \cup {Nil},
         status    : RideStatus \cup {"none"}]

(***************************************************************************)
(* A ride that is accepted has a driver, and that driver is registered.    *)
(* The schema allows an accepted ride with driver_id NULL; no statement of *)
(* the service writes one and src/data.sql holds none.                     *)
(***************************************************************************)
AcceptedRidesHaveDrivers(ds, rs) ==
  \A r \in RideId : rs[r].status = "accepted" =>
     /\ rs[r].driver \in DriverId
     /\ ds[rs[r].driver].status \in DriverStatus

\* A ride nobody has taken carries no driver.
WaitingRidesHaveNone(rs) ==
  \A r \in RideId : rs[r].status \in {"none", "searching"} => rs[r].driver = Nil

InitialTablesWellFormed ==
  /\ Nil \notin UserId \cup DriverId \cup RideId \cup Login \cup Car \cup License
  /\ InitialUsers \in [UserId -> User]
  /\ InitialDrivers \in [DriverId -> Driver]
  /\ InitialRides \in [RideId -> Ride]
  /\ AcceptedRidesHaveDrivers(InitialDrivers, InitialRides)
  /\ WaitingRidesHaveNone(InitialRides)

ASSUME StorageAssumption == InitialTablesWellFormed

Init ==
  /\ users = InitialUsers
  /\ drivers = InitialDrivers
  /\ rides = InitialRides

Registered(u) == users[u] # Nil

\* INSERT INTO users; the login is UNIQUE.
CreateUser(u, l) ==
  /\ ~Registered(u)
  /\ \A v \in UserId : users[v] # l
  /\ users' = [users EXCEPT ![u] = l]
  /\ UNCHANGED <<drivers, rides>>

\* INSERT INTO drivers; user_id, car_number and license_number are UNIQUE and
\* user_id references users.
CreateDriver(d, u, c, l) ==
  /\ drivers[d].status = "none"
  /\ Registered(u)
  /\ \A e \in DriverId : /\ drivers[e].user # u
                         /\ drivers[e].car # c
                         /\ drivers[e].license # l
  /\ drivers' = [drivers EXCEPT ![d] =
                   [user |-> u, car |-> c, license |-> l, status |-> "online"]]
  /\ UNCHANGED <<users, rides>>

\* INSERT INTO rides; passenger_id references users.
CreateRide(r, u) ==
  /\ rides[r].status = "none"
  /\ Registered(u)
  /\ rides' = [rides EXCEPT ![r] =
                 [passenger |-> u, driver |-> Nil, status |-> "searching"]]
  /\ UNCHANGED <<users, drivers>>

\* Bugs of kAcceptRide: driver_id is not set; the driver's status is not tested;
\* the driver is not marked busy.
AcceptRide_WithoutDriverId(r, d) ==
  /\ drivers[d].status = "online"
  /\ rides[r].status = "searching"
  /\ drivers' = [drivers EXCEPT ![d].status = "busy"]
  /\ rides' = [rides EXCEPT ![r].status = "accepted"]
  /\ UNCHANGED users

AcceptRide_AnyDriver(r, d) ==
  /\ drivers[d].status # "none"
  /\ rides[r].status = "searching"
  /\ drivers' = [drivers EXCEPT ![d].status = "busy"]
  /\ rides' = [rides EXCEPT ![r].driver = d, ![r].status = "accepted"]
  /\ UNCHANGED users

AcceptRide_DriverStaysOnline(r, d) ==
  /\ drivers[d].status = "online"
  /\ rides[r].status = "searching"
  /\ rides' = [rides EXCEPT ![r].driver = d, ![r].status = "accepted"]
  /\ UNCHANGED <<users, drivers>>

\* kAcceptRide: the driver must be online and the ride searching, and both
\* rows change or neither does.
AcceptRide(r, d) ==
  /\ drivers[d].status = "online"
  /\ rides[r].status = "searching"
  /\ drivers' = [drivers EXCEPT ![d].status = "busy"]
  /\ rides' = [rides EXCEPT ![r].driver = d, ![r].status = "accepted"]
  /\ UNCHANGED users

\* Bugs of kCompleteRide: updated_driver is missing; it lacks its WHERE; the ride
\* loses its driver.
CompleteRide_WithoutDriver(r) ==
  /\ rides[r].status = "accepted"
  /\ rides' = [rides EXCEPT ![r].status = "completed"]
  /\ UNCHANGED <<users, drivers>>

CompleteRide_FreesEveryDriver(r) ==
  /\ rides[r].status = "accepted"
  /\ rides' = [rides EXCEPT ![r].status = "completed"]
  /\ drivers' = [d \in DriverId |->
                   IF drivers[d].status = "none" THEN drivers[d]
                   ELSE [drivers[d] EXCEPT !.status = "online"]]
  /\ UNCHANGED users

CompleteRide_ClearsDriver(r) ==
  /\ rides[r].status = "accepted"
  /\ rides' = [rides EXCEPT ![r].status = "completed", ![r].driver = Nil]
  /\ drivers' = [drivers EXCEPT ![rides[r].driver].status = "online"]
  /\ UNCHANGED users

\* kCompleteRide: the driver of the ride becomes online whatever it was.
CompleteRide(r) ==
  /\ rides[r].status = "accepted"
  /\ rides' = [rides EXCEPT ![r].status = "completed"]
  /\ drivers' = [drivers EXCEPT ![rides[r].driver].status = "online"]
  /\ UNCHANGED users

Next ==
  \/ \E u \in UserId, l \in Login : CreateUser(u, l)
  \/ \E d \in DriverId, u \in UserId, c \in Car, l \in License :
        CreateDriver(d, u, c, l)
  \/ \E r \in RideId, u \in UserId : CreateRide(r, u)
  \/ \E r \in RideId, d \in DriverId : AcceptRide(r, d)
  \/ \E r \in RideId : CompleteRide(r)

Spec == Init /\ [][Next]_vars

-----------------------------------------------------------------------------
(***************************************************************************)
(* Properties                                                              *)
(***************************************************************************)

\* Every row has the columns, statuses and references of src/schema.sql, an
\* accepted ride has a registered driver and a waiting ride has none.
TypeOK ==
  /\ users \in [UserId -> User]
  /\ drivers \in [DriverId -> Driver]
  /\ rides \in [RideId -> Ride]
  /\ AcceptedRidesHaveDrivers(drivers, rides)
  /\ WaitingRidesHaveNone(rides)

ServedBy(d, rs) ==
  {r \in RideId : rs[r].status = "accepted" /\ rs[r].driver = d}

BusyMeansServing(d, ds, rs) ==
  ds[d].status = "busy" <=> ServedBy(d, rs) # {}

ServesAtMostOne(d, rs) ==
  \A r1, r2 \in ServedBy(d, rs) : r1 = r2

Consistent(d, ds, rs) ==
  /\ BusyMeansServing(d, ds, rs)
  /\ ServesAtMostOne(d, rs)

\* The tables a fresh deployment starts from (schema.sql without data.sql).
InitialConsistent ==
  \A d \in DriverId : Consistent(d, InitialDrivers, InitialRides)

\* The driver's status column and the rides table tell the same story: a driver
\* is busy exactly when some accepted ride is assigned to it.  The two tables
\* are only kept together by AcceptRide and CompleteRide.
BusyIffServing == \A d \in DriverId : BusyMeansServing(d, drivers, rides)

\* No driver is assigned two accepted rides at once; the schema has no
\* constraint that says so, only the 'online' test of kAcceptRide does.
DriverExclusive == \A d \in DriverId : ServesAtMostOne(d, rides)

\* Whatever the tables held at the start, a driver whose status and rides agree
\* at one moment agrees for ever after: no call of AcceptRide or CompleteRide
\* about another driver or ride can disturb it.
ConsistentStaysConsistent ==
  [][\A d \in DriverId :
       Consistent(d, drivers, rides) => Consistent(d, drivers', rides')]_vars

\* How many accepted rides a driver holds beyond what its status accounts for.
Excess(d, ds, rs) ==
  Cardinality(ServedBy(d, rs)) - (IF ds[d].status = "busy" THEN 1 ELSE 0)

Dispatch ==
  INSTANCE RideDispatch WITH
    waiting  <- {r \in RideId : rides[r].status = "searching"},
    serving  <- [d \in DriverId |-> ServedBy(d, rides)],
    finished <- {r \in RideId : rides[r].status \in {"completed", "cancelled"}}

\* The calls of taxi_storage.cpp dispatch rides to free drivers, although the
\* code never looks at a driver's rides, only at its status.
DispatchesRides == Dispatch!Spec

\* Inconsistent rows that were loaded (src/data.sql has online drivers with
\* accepted rides) are never made worse: the rides a driver holds in excess of
\* its status never become more.
ExcessNeverGrows ==
  [][\A d \in DriverId :
       Excess(d, drivers', rides') <= Excess(d, drivers, rides)]_vars

Stranded(d, ds, rs) ==
  /\ ds[d].status \in {"busy", "offline"}
  /\ ServedBy(d, rs) = {}

\* A busy or offline driver without an accepted ride (C333CC77, G777GG77,
\* E555EE77 and J101JJ77 of src/data.sql) can never serve again: AcceptRide
\* refuses it and only completing a ride of its own would put it online.
StrandedForEver ==
  [][\A d \in DriverId :
       Stranded(d, drivers, rides) => Stranded(d, drivers', rides')]_vars

RideStep ==
  {<<"none", "searching">>, <<"searching", "accepted">>,
   <<"accepted", "completed">>}

\* A ride moves only forward, one stage at a time, and never changes its
\* passenger, nor its driver once it has one.
RideLifecycle ==
  [][\A r \in RideId :
       /\ \/ rides'[r].status = rides[r].status
          \/ <<rides[r].status, rides'[r].status>> \in RideStep
       /\ rides[r].status # "none" => rides'[r].passenger = rides[r].passenger
       /\ rides[r].driver # Nil => rides'[r].driver = rides[r].driver]_vars
=============================================================================
