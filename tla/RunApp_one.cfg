CONSTANTS
  a = a
  b = b
  shop = shop
  docs = docs
  api = api
  Root = Root
  port1 = port1
  port2 = port2
  aliasPort = aliasPort
  Static = Static
  Procs = {a, b}
  Hosts = {shop, docs}
  Paths = {Root, api}
  Ports = {port1, port2, aliasPort}
  Range = {port1, port2}
  HostOf <- OneHost
  Fixed = {b}
  Forced = {}
  Removals <- OfApi
  Aliases <- ApiAlias
SPECIFICATION FairRunSpec
INVARIANTS RouteWhileRunning OneRunPerHost
PROPERTIES RunEnds
CHECK_DEADLOCK FALSE
