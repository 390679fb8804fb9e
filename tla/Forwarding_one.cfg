CONSTANTS
  proxyA = proxyA
  proxyB = proxyB
  app = app
  Proxies = {proxyA, proxyB}
  Apps = {app}
  Tables <- AnyTwo
  Labels <- Words
  Requests <- Clients
  MaxHops = 1
  MaxPasses = 6
SPECIFICATION FwdFairSpec
INVARIANTS FwdTypeOK
PROPERTIES NoFalseLoop EveryRequestAnswered
CHECK_DEADLOCK FALSE
