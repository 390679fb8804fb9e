CONSTANTS
  d1 = d1
  d2 = d2
  d3 = d3
  Daemons = {d1, d2, d3}
  All = All
  Tails = {All, 1}
  MaxLines = 2
  Hole = Hole
  None = None
SPECIFICATION FairSpec
INVARIANTS NothingSkipped NoLineTwice
PROPERTIES CatchesUp
CHECK_DEADLOCK FALSE
