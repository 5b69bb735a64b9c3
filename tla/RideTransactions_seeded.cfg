\* Inconsistent tables as src/data.sql loads them: deadlocks do form here.
SPECIFICATION FairDetectorSpec
CONSTANTS
  Nil = Nil
  u1 = u1  u2 = u2  d1 = d1  d2 = d2  r1 = r1  r2 = r2  r3 = r3
  l1 = l1  l2 = l2  c1 = c1  c2 = c2  k1 = k1  k2 = k2  s1 = s1  s2 = s2  s3 = s3
  UserId = {u1, u2}
  DriverId = {d1, d2}
  RideId = {r1, r2, r3}
  Login = {l1, l2}
  Car = {c1, c2}
  License = {k1, k2}
  Session = {s1, s2}
  InitialUsers <- TwoUsers
  InitialDrivers <- OnlineDrivers
  InitialRides <- OneAccepted
PROPERTIES ActsAtomically EveryCallEnds
