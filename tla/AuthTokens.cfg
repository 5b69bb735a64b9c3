\* Five logins of a process: one more than the ints.
SPECIFICATION AuthSpec
CONSTANTS
  Nil = Nil
  u1 = u1  u2 = u2  t1 = t1  t2 = t2
  UserId = {u1, u2}
  Task = {t1, t2}
  MaxInt = 1
  MaxLogins = 5
  MaxRestarts = 1
INVARIANTS AuthTypeOK AcceptedFromThisProcess TokenIdentifiesUser EveryLoginHasItsToken
