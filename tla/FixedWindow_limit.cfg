\* The same threads, limit and windows.
SPECIFICATION LimiterSpec
CONSTANTS
  t1 = t1  t2 = t2  t3 = t3
  Thread = {t1, t2, t3}
  Limit = 2
  LastWindow = 2
INVARIANT LimitPerWindow
