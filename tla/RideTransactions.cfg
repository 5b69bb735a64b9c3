\* Two sessions; a user, a driver and a ride may be registered meanwhile.
SPECIFICATION FairHistorySpec
CONSTANTS
  Nil = Nil
  u1 = u1  u2 = u2  d1 = d1  d2 = d2  r1 = r1  r2 = r2  r3 = r3
  l1 = l1  l2 = l2  c1 = c1  c2 = c2  k1 = k1  k2 = k2  s1 = s1  s2 = s2  s3 = s3
  UserId = {u1, u2}
  DriverId = {d1, d2}
  RideId = {r1, r2}
  Login = {l1, l2}
  Car = {c1, c2}
  License = {k1, k2}
  Session = {s1, s2}
  InitialUsers <- OneUser
  InitialDrivers <- OneDriver
  InitialRides <- OneRide
INVARIANTS DbTypeOK LockHolders TestedRowsHold NoDeadlock RefusedOnlyIfImpossible
PROPERTIES ActsAtomically EveryCallEnds
