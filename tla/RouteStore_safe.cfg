CONSTANTS
  a = a
  b = b
  c = c
  Static = Static
  host = host
  other = other
  Root = Root
  api = api
  portA = portA
  portB = portB
  Procs = {a, b, c}
  Hosts = {host, other}
  Segs = {Root, api}
  Ports = {portA, portB}
  MaxTrail = 1
  Menu <- RunAndAliases
  MaxOps = 2
  MaxTries = 2
  Signals <- All
  Faults = {}
  Stored <- OtherAlias
SPECIFICATION Spec
INVARIANTS TypeOK MutualExclusion SuccessIsStored AliasesPersist
PROPERTIES NoLiveRouteLost OverrideNeedsForce AtomicTable
CHECK_DEADLOCK FALSE
