SPECIFICATION FairSpec
CONSTANTS
  MaxAge = 1
  MaxBytes = 1
  Duration = 1
  MaxSegments = 3
  MaxTime = 2
  MaxWritten = 3
  MaxCrashes = 1
  None = None
INVARIANTS TypeOK FramesIndexed SealedWithinBudget EndSealsAll
PROPERTIES OldestPrunedFirst StopEnds
CHECK_DEADLOCK FALSE
