\* Two rides, two deaths of the consumer, one event published twice.
SPECIFICATION FairEventsSpec
CONSTANTS
  Nil = Nil
  r1 = r1  r2 = r2
  Ride = {r1, r2}
  Produced <- SomeEvents
  LogLength = 3
  MaxCrashes = 2
  MaxRepeats = 1
INVARIANTS EventsTypeOK AckedIsReflected TwoSectionsOnlyIfOvertaken
           MissingOnlyIfOvertakenOrRepeated LogKeepsOrder
PROPERTY EventsAreHandled
CHECK_DEADLOCK FALSE
