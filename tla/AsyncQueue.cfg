SPECIFICATION Spec
CONSTANTS
  Items = {submit1, submit2, enqueue1, signal1, both1}
  Blocking = {enqueue1, both1}
  Signalled = {signal1, both1}
  Consumers = {c1, c2}
SYMMETRY ConsumerSymmetry
INVARIANTS TypeOK NoLostWakeup WaitersInLine PendingAreQueued DeliveredOnce
PROPERTY ImplementsFifo
CHECK_DEADLOCK FALSE
