CONSTANTS
  d1 = d1
  d2 = d2
  f = f
  x = x
  s1 = s1
  s2 = s2
  None = None
  Starters = {s1, s2}
  Stoppers = {x}
  Daemons = {d1, d2}
  Foreground = {f}
  Https = {d1}
  Signals <- MaySignal
  MaxTries = 2
  Faults = {"crash", "kill"}
SPECIFICATION FairSpec
INVARIANTS TypeOK StartExclusive OneCallPerProxy ServingIsNamed
PROPERTIES EveryStartReturns
CHECK_DEADLOCK FALSE
