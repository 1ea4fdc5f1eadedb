SPECIFICATION Spec
CONSTANTS
  MaxLoads = 16
  MaxRequests = 2
  MaxFaults = 2
  MaxEvents = 3
INVARIANTS TypeOK OneLiveHost NeverStranded RemovedStaysDown
PROPERTY ComesBack
CHECK_DEADLOCK FALSE
