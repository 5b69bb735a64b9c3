\* Three threads, a limit of two requests, windows 0, 1 and 2.
SPECIFICATION LimiterSpec
CONSTANTS
  t1 = t1  t2 = t2  t3 = t3
  Thread = {t1, t2, t3}
  Limit = 2
  LastWindow = 2
INVARIANTS LimiterTypeOK BoundedExcess
PROPERTY RefusedOnlyWhenUsedUp
