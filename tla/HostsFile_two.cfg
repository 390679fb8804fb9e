CONSTANTS
  a = a
  b = b
  loopback = loopback
  printer = printer
  shop = shop
  docs = docs
  Procs = {a, b}
  Start = Start
  End = End
  Blank = Blank
  Hostnames = {shop, docs}
  Synced <- OneOrBoth
  Originals <- Files
  MaxRuns = 4
  None = None
SYMMETRY Symmetry
CHECK_DEADLOCK FALSE
SPECIFICATION Spec
INVARIANTS OutsideKept LastSyncTakes
