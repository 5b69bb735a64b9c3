\* Two requests; a user, a driver and a ride can be registered.
SPECIFICATION TimedRaceSpec
CONSTANTS
  Nil = Nil
  u1 = u1  u2 = u2  d1 = d1  r1 = r1  r2 = r2  l1 = l1  l2 = l2  c1 = c1  k1 = k1
  m1 = m1  t1 = t1  t2 = t2  t3 = t3
  UserId = {u1, u2}
  DriverId = {d1}
  RideId = {r1}
  Login = {l1, l2}
  Car = {c1}
  License = {k1}
  Mask = {m1}
  NameMatches <- EveryUser
  Polled <- AllKeys
  Task = {t1, t2}
  InitialUsers <- OneUser
  InitialDrivers <- NoDrivers
  InitialRides <- NoRides
INVARIANTS ServiceTypeOK LoginEntriesAreCurrent StaleOnlyByRace FillsAreCurrent
PROPERTY OldAnswersRunOut
