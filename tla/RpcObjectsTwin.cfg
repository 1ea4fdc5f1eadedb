SPECIFICATION Spec
CONSTANTS
  Objs = {o1, o2}
  Clustered = {}
  StableIds = {}
  StableId <- OneEntry
  Proxies = {r1, r2, r3}
  MaxIds = 4
  MaxQueue = 2
  MaxRunning = 1
  None = None
SYMMETRY Symmetric
INVARIANT UsableProxyExported
CHECK_DEADLOCK FALSE
