SPECIFICATION FairSpec
CONSTANTS
  Calls = {one, fn, n1, n2, ret}
  Oneway = {one}
  Nexts = {n1, n2}
  Returns = {ret}
  MaxCalls = 4
INVARIANTS TypeOK WaitersRegistered AtMostOneAnswer NoAbandonedGenerator
PROPERTIES CloseSettlesCalls CloseStopsGenerator
CHECK_DEADLOCK FALSE
