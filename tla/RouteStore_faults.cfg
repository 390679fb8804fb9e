CONSTANTS
  a = a
  b = b
  c = c
  Static = Static
  host = host
  other = other
  Root = Root
  api = api
  portA = portA
  portB = portB
  Procs = {a, b}
  Hosts = {host, other}
  Segs = {Root}
  Ports = {portA, portB}
  Menu <- TwoRuns
  MaxOps = 2
  MaxTries = 2
  MaxTrail = 1
  Signals <- All
  Faults = {"crash", "stall", "disk"}
  Stored <- OtherAlias
SPECIFICATION FairSpec
INVARIANTS NoLeakedLock UniqueSlots
PROPERTIES EveryRequestReturns
CHECK_DEADLOCK FALSE
