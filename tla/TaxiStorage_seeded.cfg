\* Tables as data.sql loads them, 3 users, 3 drivers, 3 rides.
SPECIFICATION Spec
CONSTANTS
  Nil = Nil
  u1 = u1  u2 = u2  u3 = u3  d1 = d1  d2 = d2  d3 = d3  r1 = r1  r2 = r2  r3 = r3
  c1 = c1  c2 = c2  c3 = c3  l1 = l1  l2 = l2  l3 = l3  k1 = k1  k2 = k2  k3 = k3
  UserId = {u1, u2, u3}
  DriverId = {d1, d2, d3}
  RideId = {r1, r2, r3}
  Login = {l1, l2, l3}
  Car = {c1, c2, c3}
  License = {k1, k2, k3}
  InitialUsers <- SeededUsers
  InitialDrivers <- SeededDrivers
  InitialRides <- SeededRides
PROPERTIES ConsistentStaysConsistent ExcessNeverGrows StrandedForEver
\* Every user, driver and ride can be registered and every ride completed.
CHECK_DEADLOCK FALSE
