\* One reader, one writer, nothing fails.
SPECIFICATION ReliableSpec
CONSTANTS
  Nil = Nil
  u1 = u1  u2 = u2  d1 = d1  r1 = r1  r2 = r2  l1 = l1  l2 = l2  c1 = c1  k1 = k1
  m1 = m1  t1 = t1  t2 = t2  t3 = t3
  UserId = {u1}
  DriverId = {d1}
  RideId = {r1}
  Login = {l1}
  Car = {c1}
  License = {k1}
  Mask = {m1}
  NameMatches <- EveryUser
  Polled <- RideKeys
  Task = {t1, t2}
  InitialUsers <- OneUser
  InitialDrivers <- OneDriver
  InitialRides <- OneRide
INVARIANT ClearedMeansCurrent
