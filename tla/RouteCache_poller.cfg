CONSTANTS
  a = a
  b = b
  Proxy = Proxy
  Static = Static
  host = host
  Root = Root
  api = api
  portA = portA
  portB = portB
  Procs = {a, b}
  Hosts = {host}
  Segs = {Root, api}
  Ports = {portA, portB}
  MaxTrail = 0
  Menu <- RunAndAlias
  MaxOps = 1
  MaxTries = 2
  Signals <- All
  Faults = {"crash", "disk"}
  Stored <- NoRoutes
  MaxStarts = 2
SPECIFICATION FairCacheSpec
INVARIANTS CacheTypeOK NeverMasksAChange
PROPERTIES ChangeIsPickedUp
CHECK_DEADLOCK FALSE
