SPECIFICATION Spec
CONSTANTS
  Objs = {o1, o2, o3}
  Clustered = {o2, o3}
  StableIds = {c1}
  StableId <- OneEntry
  Proxies = {r1, r2, r3}
  MaxIds = 3
  MaxQueue = 2
  MaxRunning = 1
  None = None
SYMMETRY Symmetric
INVARIANTS TypeOK MapsAgree InFlightExported Reclaimable LoneProxyExported
CHECK_DEADLOCK FALSE
