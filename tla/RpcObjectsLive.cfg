SPECIFICATION FairSpec
CONSTANTS
  Objs = {o1}
  Clustered = {o1}
  StableIds = {c1}
  StableId <- OneEntry
  Proxies = {r1, r2, r3}
  MaxIds = 3
  MaxQueue = 2
  MaxRunning = 1
  None = None
PROPERTY UnusedIsReleased
CHECK_DEADLOCK FALSE
