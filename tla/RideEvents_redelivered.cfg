\* No event is published twice: one death, after the file is saved and before the
\* acknowledgement, is enough.
SPECIFICATION EventsSpec
CONSTANTS
  Nil = Nil
  r1 = r1  r2 = r2
  Ride = {r1, r2}
  Produced <- SomeEvents
  LogLength = 3
  MaxCrashes = 1
  MaxRepeats = 0
INVARIANT MissingOnlyIfOvertaken
CHECK_DEADLOCK FALSE
