\* Three POSTs at once, two inserts given up; a login loaded by data.js.
SPECIFICATION MongoSpec
CONSTANTS
  l1 = l1  l2 = l2  l3 = l3  m1 = m1  t1 = t1  t2 = t2  t3 = t3
  Login = {l1, l2, l3}
  Task = {t1, t2, t3}
  Mask = {m1}
  NameMatches <- SomeUsers
  InitialUsers <- OneLoaded
  MaxDocuments = 7
  MaxTimeouts = 2
INVARIANTS MongoTypeOK DuplicatesOnlyByRace DuplicatesAreBounded KnownIsStored
