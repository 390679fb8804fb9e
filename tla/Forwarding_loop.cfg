CONSTANTS
  proxyA = proxyA
  proxyB = proxyB
  app = app
  Proxies = {proxyA, proxyB}
  Apps = {app}
  Tables <- Loop
  Labels <- Words
  Requests <- Plain
  MaxHops = 2
  MaxPasses = 6
SPECIFICATION FwdSpec
INVARIANTS LoopIsCut
CHECK_DEADLOCK FALSE
